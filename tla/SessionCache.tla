---------------------------- MODULE SessionCache ----------------------------
(***************************************************************************)
(* Access tokens between the authentication table and the Redis cache in   *)
(* front of it: _get_verified_user (auth/token.py), the cache operations of*)
(* auth/session_store.py, and the deletions and rotations of auth/models.py*)
(* that change the table first and the cache in a second step.             *)
(***************************************************************************)
EXTENDS FiniteSets

CONSTANTS
    Tokens, NoToken,
    Sessions,           \* the sessions of one user
    Checks,             \* requests that present a token
    Changes,            \* revocations and rotations
    FirstTokens         \* the token each session starts with

CacheAssumption ==
    /\ NoToken \notin Tokens
    /\ FirstTokens \in [Sessions -> Tokens]
    /\ \A s, t \in Sessions : FirstTokens[s] = FirstTokens[t] => s = t

VARIABLES
    row,        \* the access token of each session, NoToken without a row
    key,        \* the tokens with a key in Redis
    index,      \* the set of the user's token digests in Redis
    check,      \* each request: where it is and what it presents
    change,     \* each change: where it is and what it still has to do in Redis
    issued      \* the tokens that were ever given out

vars == <<row, key, index, check, change, issued>>

Stored == {row[s] : s \in Sessions} \ {NoToken}

Check == [at    : {"new", "cache", "row", "fill", "last", "accepted", "refused"},
          token : Tokens \cup {NoToken},
          late  : BOOLEAN,      \* history: the row was gone when it began
          kept  : BOOLEAN]      \* history: the row was there all the time

\* "selected": the row of `of` was read; "members": about to read the index;
\* "delete": about to delete `drop` from Redis;
\* `add` is the token a rotation installs.
Change == [at : {"idle", "selected", "members", "delete", "done"},
           of : SUBSET Sessions, byId : BOOLEAN,
           drop : SUBSET Tokens, add : SUBSET Tokens, all : BOOLEAN]

TypeOK ==
    /\ row \in [Sessions -> Tokens \cup {NoToken}]
    /\ key \subseteq Tokens /\ index \subseteq Tokens
    /\ check \in [Checks -> Check] /\ change \in [Changes -> Change]
    /\ issued \subseteq Tokens

Init ==
    /\ row = FirstTokens
    /\ key \in SUBSET Stored /\ index = key
    /\ check = [c \in Checks |-> [at |-> "new", token |-> NoToken,
                                  late |-> FALSE, kept |-> TRUE]]
    /\ change = [o \in Changes |-> [at |-> "idle", of |-> {}, byId |-> FALSE,
                                   drop |-> {}, add |-> {}, all |-> FALSE]]
    /\ issued = Stored

-----------------------------------------------------------------------------
(* _get_verified_user                                                      *)

GoesTo(c, at) == check' = [check EXCEPT ![c].at = at]

Begin(c, t) ==
    /\ check[c].at = "new" /\ t \in issued
    /\ check' = [check EXCEPT ![c] = [at |-> "cache", token |-> t,
                                      late |-> t \notin Stored, kept |-> t \in Stored]]
    /\ UNCHANGED <<row, key, index, change, issued>>

\* token_exists: a Redis error counts as a miss.
LookInCache(c) ==
    /\ check[c].at = "cache"
    /\ \/ check[c].token \in key /\ GoesTo(c, "last")
       \/ GoesTo(c, "row")
    /\ UNCHANGED <<row, key, index, change, issued>>

LookInTable(c) ==
    /\ check[c].at = "row"
    /\ GoesTo(c, IF check[c].token \in Stored THEN "fill" ELSE "refused")
    /\ UNCHANGED <<row, key, index, change, issued>>

\* cache_access_token, by what was read a moment ago; errors are swallowed.
FillCache(c) ==
    /\ check[c].at = "fill"
    /\ \/ key' = key \cup {check[c].token} /\ index' = index \cup {check[c].token}
       \/ UNCHANGED <<key, index>>
    /\ GoesTo(c, "last")
    /\ UNCHANGED <<row, change, issued>>

\* Faulty variants: the cache settles the matter, or has to confirm it.
LastLookCached(c) ==
    /\ check[c].at = "last"
    /\ GoesTo(c, IF check[c].token \in Stored \cup key THEN "accepted" ELSE "refused")
    /\ UNCHANGED <<row, key, index, change, issued>>

LastLookBoth(c) ==
    /\ check[c].at = "last"
    /\ GoesTo(c, IF check[c].token \in Stored \cap key THEN "accepted" ELSE "refused")
    /\ UNCHANGED <<row, key, index, change, issued>>

\* The row is read once more before the user is returned.
LastLook(c) ==
    /\ check[c].at = "last"
    /\ GoesTo(c, IF check[c].token \in Stored THEN "accepted" ELSE "refused")
    /\ UNCHANGED <<row, key, index, change, issued>>

-----------------------------------------------------------------------------
(* Revocations and rotations                                               *)

\* Requests in flight learn nothing; the history does.
Touched(gone) == check' = [c \in Checks |->
    [check[c] EXCEPT !.kept = @ /\ check[c].token \notin gone]]

\* delete_authentication reads the tokens of the row it is about to delete, by
\* the id of the session or by a token: a rotation may come between.
SelectSession(o, s, byId) ==
    /\ change[o].at = "idle" /\ row[s] # NoToken
    /\ change' = [change EXCEPT ![o] = [@ EXCEPT !.at = "selected", !.drop = {row[s]},
                                                !.of = {s}, !.byId = byId]]
    /\ UNCHANGED <<row, key, index, check, issued>>

\* Then the deletion, then revoke_token_digests of what was read.
DeleteSession(o) ==
    /\ change[o].at = "selected"
    /\ \E s \in change[o].of :
        LET hit == change[o].byId \/ row[s] \in change[o].drop
        IN  /\ row' = IF hit THEN [row EXCEPT ![s] = NoToken] ELSE row
            /\ Touched(IF hit THEN {row[s]} ELSE {})
    /\ change' = [change EXCEPT ![o].at = "delete"]
    /\ UNCHANGED <<key, index, issued>>

\* delete_authentication_all of a user, then revoke_user_sessions.
RevokeUser(o) ==
    /\ change[o].at = "idle"
    /\ row' = [s \in Sessions |-> NoToken]
    /\ Touched(Stored)
    /\ change' = [change EXCEPT ![o].at = "members", ![o].all = TRUE]
    /\ UNCHANGED <<key, index, issued>>

ReadMembers(o) ==
    /\ change[o].at = "members"
    /\ change' = [change EXCEPT ![o].at = "delete", ![o].drop = index]
    /\ UNCHANGED <<row, key, index, check, issued>>

\* rotate_authentication_tokens, then rotate_session_tokens.
Rotate(o, s, t) ==
    /\ change[o].at = "idle" /\ row[s] # NoToken /\ t \notin issued
    /\ row' = [row EXCEPT ![s] = t]
    /\ Touched({row[s]})
    /\ change' = [change EXCEPT ![o].at = "delete", ![o].drop = {row[s]}, ![o].add = {t}]
    /\ issued' = issued \cup {t}
    /\ UNCHANGED <<key, index>>

\* One pipeline; on an error nothing is changed and nobody is told.  The whole
\* index of the user goes with revoke_user_sessions, members added since too.
ChangeCache(o) ==
    /\ change[o].at = "delete"
    /\ \/ /\ key' = (key \ change[o].drop) \cup change[o].add
          /\ index' = IF change[o].all THEN {}
                      ELSE (index \ change[o].drop) \cup change[o].add
       \/ UNCHANGED <<key, index>>
    /\ change' = [change EXCEPT ![o].at = "done"]
    /\ UNCHANGED <<row, check, issued>>

\* Every key has a time to live.
KeyExpires(t) ==
    /\ t \in key
    /\ key' = key \ {t}
    /\ UNCHANGED <<row, index, check, change, issued>>

-----------------------------------------------------------------------------
CheckStep(c) == \/ \E t \in Tokens : Begin(c, t)
                \/ LookInCache(c) \/ LookInTable(c) \/ FillCache(c) \/ LastLook(c)

ChangeStep(o) == \/ \E s \in Sessions, byId \in BOOLEAN : SelectSession(o, s, byId)
                 \/ DeleteSession(o)
                 \/ RevokeUser(o) \/ ReadMembers(o)
                 \/ \E s \in Sessions, t \in Tokens : Rotate(o, s, t)
                 \/ ChangeCache(o)

Next == \/ \E c \in Checks : CheckStep(c)
        \/ \E o \in Changes : ChangeStep(o)
        \/ \E t \in key : KeyExpires(t)

Spec == Init /\ [][Next]_vars

-----------------------------------------------------------------------------
(* Properties                                                              *)

\* A request that begins after its token was revoked or rotated away is never
\* accepted, although the token may still be in the cache, or come back to it
\* from a request that had read the row before.
RevokedStaysOut == \A c \in Checks : check[c].at = "accepted" => ~check[c].late

\* What the cache loses or forgets never costs a live session a request: a
\* token whose row stays in place is not refused.
LiveIsAccepted == \A c \in Checks : check[c].at = "refused" => ~check[c].kept

\* Requests are answered by what the table says.
VerdictsHold == RevokedStaysOut /\ LiveIsAccepted
=============================================================================
