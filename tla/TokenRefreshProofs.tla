------------------------- MODULE TokenRefreshProofs -------------------------
(***************************************************************************)
(* Proofs about TokenRefresh, for any slots, tabs and bounds: a refresh     *)
(* cookie never goes back to an earlier token, no session is lost while    *)
(* nobody signs out and the server is prompt, and a refresh under the lock *)
(* never carries a consumed token.                                         *)
(***************************************************************************)
EXTENDS TokenRefresh, TLAPS

Clients == Tabs \cup {Orphan}

\* A reply that sets no refresh token.
Plain(r) == r \in Reply /\ \A k \in Slots : r.tok[k] \in {0, Keep}

\* The replies the server makes.
LEMMA AnsweringIs ==
    \A s \in {0, 200, 401, 404, 409} :
        /\ Plain(Answering(s)) /\ Answering(s).status = s
        /\ Answering(s).active = Keep /\ \A k \in Slots : Answering(s).tok[k] = Keep
  BY DEF Answering, Plain, Reply, Access, NoAccess

\* Clearing the cookies of some slots changes nothing else of a reply.
LEMMA ClearSlotsIs ==
    ASSUME NEW r \in Reply, NEW ks
    PROVE  /\ ClearSlots(r, ks) \in Reply
           /\ ClearSlots(r, ks).status = r.status /\ ClearSlots(r, ks).active = r.active
           /\ \A k \in Slots : ClearSlots(r, ks).tok[k] = IF k \in ks THEN 0 ELSE r.tok[k]
           /\ Plain(r) => Plain(ClearSlots(r, ks))
<1>1. ClearSlots(r, ks) = [r EXCEPT !.tok = [k \in Slots |-> IF k \in ks THEN 0 ELSE r.tok[k]]]
  BY DEF ClearSlots, Reply
<1>2. [k \in Slots |-> IF k \in ks THEN 0 ELSE r.tok[k]] \in [Slots -> Nat \cup {Keep}]
  BY DEF Reply
<1> DEFINE T == [k \in Slots |-> IF k \in ks THEN 0 ELSE r.tok[k]]
<1>3. \A k \in Slots : T[k] = IF k \in ks THEN 0 ELSE r.tok[k]
  OBVIOUS
<1> HIDE DEF T
<1>4. /\ ClearSlots(r, ks) \in Reply /\ ClearSlots(r, ks).tok = T
      /\ ClearSlots(r, ks).status = r.status /\ ClearSlots(r, ks).active = r.active
  <2> DEFINE B == [Slots -> Nat \cup {Keep}]
  <2>1. T \in B /\ ClearSlots(r, ks) = [r EXCEPT !.tok = T]
    BY <1>1, <1>2 DEF T
  <2>2. Reply = [status : {0, 200, 401, 404, 409}, tok : B, active : Slots \cup {0, Keep},
                 access : Access \cup {<<Keep, Keep>>}]
    BY DEF Reply
  <2> HIDE DEF B
  <2> QED BY <2>1, <2>2
<1>5. Plain(r) => Plain(ClearSlots(r, ks))
  BY <1>3, <1>4 DEF Plain
<1> QED BY <1>3, <1>4, <1>5

\* A reply that makes another account the active one, without an access token.
Activated(r, k) == [r EXCEPT !.active = k, !.access = NoAccess]

LEMMA ActivatedIs ==
    \A r \in Reply : \A k \in Slots \cup {0} :
        /\ Activated(r, k) \in Reply /\ Activated(r, k).status = r.status
        /\ Activated(r, k).tok = r.tok /\ (Plain(r) => Plain(Activated(r, k)))
<1>1. ASSUME NEW r \in Reply, NEW k \in Slots \cup {0}
      PROVE  /\ Activated(r, k) \in Reply /\ Activated(r, k).status = r.status
             /\ Activated(r, k).tok = r.tok /\ (Plain(r) => Plain(Activated(r, k)))
  <2>1. NoAccess \in Access \cup {<<Keep, Keep>>} /\ k \in Slots \cup {0, Keep}
    BY DEF Access
  <2>2. Activated(r, k) \in Reply
    BY <2>1 DEF Reply, Activated
  <2>3. Activated(r, k).status = r.status /\ Activated(r, k).tok = r.tok
    BY DEF Reply, Activated
  <2> QED BY <2>2, <2>3 DEF Plain
<1> QED BY <1>1

\* What a refused refresh clears: a slot, and the session if it is the active one.
LEMMA ClearSelectedIs ==
    ASSUME NEW j, NEW k
    PROVE  Plain(ClearSelected(j, k)) /\ ClearSelected(j, k).status = 401
<1>1. Plain(Answering(401)) /\ Answering(401).status = 401
  BY AnsweringIs
<1>2. DEFINE r == ClearSlots(Answering(401), {k})
<1>3. Plain(r) /\ r \in Reply /\ r.status = 401
  BY <1>1, ClearSlotsIs DEF Plain
<1> HIDE DEF r
<1>4. Plain(Activated(r, 0)) /\ Activated(r, 0).status = 401
  BY <1>3, ActivatedIs
<1> QED BY <1>3, <1>4 DEF ClearSelected, Activated, r

\* What a refresh without any token clears.
LEMMA ClearAllIs == Plain(ClearAll) /\ ClearAll.status = 401
<1>1. Plain(Answering(401)) /\ Answering(401).status = 401
  BY AnsweringIs
<1>2. DEFINE r == ClearSlots(Answering(401), Slots)
<1>3. Plain(r) /\ r \in Reply /\ r.status = 401
  BY <1>1, ClearSlotsIs DEF Plain
<1> HIDE DEF r
<1>4. Plain(Activated(r, 0)) /\ Activated(r, 0).status = 401
  BY <1>3, ActivatedIs
<1> QED BY <1>4 DEF ClearAll, Activated, r

\* The one reply that sets a token: that of the slot it rotated.
LEMMA IssuedIs ==
    ASSUME TypeOK, NEW j \in Jar, NEW k \in Slots
    PROVE  /\ Issued(j, k) \in Reply /\ Issued(j, k).status = 200
           /\ Issued(j, k).tok[k] = row[k] + 1 /\ Issued(j, k).active = k
           /\ \A i \in Slots \ {k} : /\ Issued(j, k).tok[i] \in {0, Keep}
                                     /\ ~FellBack(j) => Issued(j, k).tok[i] = Keep
<1> DEFINE r == ClearSlots(Answering(200), IF FellBack(j) THEN Stale(j) ELSE {})
           g == row[k] + 1
<1>1. /\ Plain(Answering(200)) /\ Answering(200).status = 200
      /\ \A i \in Slots : Answering(200).tok[i] = Keep
  BY AnsweringIs
<1>2. /\ Plain(r) /\ r \in Reply /\ r.status = 200
      /\ \A i \in Slots : ~FellBack(j) => r.tok[i] = Keep
  BY <1>1, ClearSlotsIs DEF Plain
<1>3. g \in Nat \ {0}
  BY DEF TypeOK
<1>4. Issued(j, k) = [r EXCEPT !.tok[k] = g, !.active = k, !.access = <<k, g>>]
  BY DEF Issued
<1> HIDE DEF r, g
<1>5. /\ Issued(j, k) \in Reply /\ Issued(j, k).status = 200 /\ Issued(j, k).tok[k] = g
      /\ Issued(j, k).active = k /\ \A i \in Slots \ {k} : Issued(j, k).tok[i] = r.tok[i]
  <2>2. r.tok \in [Slots -> Nat \cup {Keep}] /\ r.status \in {0, 200, 401, 404, 409}
    BY <1>2 DEF Reply
  <2>3. [r.tok EXCEPT ![k] = g] \in [Slots -> Nat \cup {Keep}]
    BY <1>3, <2>2
  <2>4. <<k, g>> \in Access \cup {<<Keep, Keep>>} /\ k \in Slots \cup {0, Keep}
    BY <1>3 DEF Access
  <2>5. Issued(j, k) \in Reply
    <3>1. PICK T \in [Slots -> Nat \cup {Keep}], a \in Access \cup {<<Keep, Keep>>} :
              T = [r.tok EXCEPT ![k] = g] /\ a = <<k, g>>
      BY <2>3, <2>4
    <3>2. Issued(j, k) = [r EXCEPT !.tok = T, !.active = k, !.access = a]
      BY <1>4, <3>1
    <3>3. PICK u : u = k /\ u \in Slots \cup {0, Keep}
      BY <2>4
    <3>4. r \in Reply /\ Issued(j, k) = [r EXCEPT !.tok = T, !.active = u, !.access = a]
      BY <1>2, <3>2, <3>3
    <3> DEFINE A == {0, 200, 401, 404, 409}
               B == [Slots -> Nat \cup {Keep}]
               C == Slots \cup {0, Keep}
               D == Access \cup {<<Keep, Keep>>}
    <3>5. Reply = [status : A, tok : B, active : C, access : D] /\ T \in B /\ u \in C /\ a \in D
      BY <3>3 DEF Reply
    <3> HIDE DEF A, B, C, D
    <3>6. [r EXCEPT !.tok = T, !.active = u, !.access = a] \in Reply
      BY <3>4, <3>5
    <3> QED BY <3>4, <3>6
  <2>6. /\ Issued(j, k).status = r.status /\ Issued(j, k).tok = [r.tok EXCEPT ![k] = g]
        /\ Issued(j, k).active = k
    BY <1>2, <1>4 DEF Reply
  <2> QED BY <1>2, <2>2, <2>5, <2>6
<1> QED BY <1>2, <1>5 DEF Plain, g

\* The cookies of a reply in a jar.
LEMMA AppliedIs ==
    \A j \in Jar, r \in Reply :
        /\ Applied(j, r) \in Jar
        /\ \A k \in Slots : Applied(j, r).tok[k] = IF r.tok[k] = Keep THEN j.tok[k] ELSE r.tok[k]
<1>1. ASSUME NEW j \in Jar, NEW r \in Reply
      PROVE  /\ Applied(j, r) \in Jar
             /\ \A k \in Slots : Applied(j,
                   r).tok[k] = IF r.tok[k] = Keep THEN j.tok[k] ELSE r.tok[k]
  <2> DEFINE tok == [k \in Slots |-> IF r.tok[k] = Keep THEN j.tok[k] ELSE r.tok[k]]
             active == IF r.active = Keep THEN j.active ELSE r.active
             access == IF r.access = <<Keep, Keep>> THEN j.access ELSE r.access
  <2>1. tok \in [Slots -> Nat]
    BY DEF Jar, Reply
  <2>2. active \in Slots \cup {0}
    BY DEF Jar, Reply
  <2>3. access \in Access
    BY DEF Jar, Reply
  <2>4. Applied(j, r) = [tok |-> tok, active |-> active, access |-> access]
    BY DEF Applied
  <2>5. \A k \in Slots : tok[k] = IF r.tok[k] = Keep THEN j.tok[k] ELSE r.tok[k]
    OBVIOUS
  <2> HIDE DEF tok, active, access
  <2> QED BY <2>1, <2>2, <2>3, <2>4, <2>5 DEF Jar
<1> QED BY <1>1

\* The requests that are made.
Asked(kind, slot, j) == [NoMsg EXCEPT !.kind = kind, !.slot = slot, !.jar = j]

\* Requests are messages, and an answered one as well.
LEMMA MsgIs ==
    /\ NoMsg \in Msg /\ NoMsg.kind = "none" /\ NoMsg.reply = Pending /\ NoMsg.jar = NoJar
    /\ \A k \in Slots : NoJar.tok[k] = 0 /\ Pending.tok[k] = Keep
    /\ Plain(Pending) /\ Pending.status = 0
    /\ \A m \in Msg, r \in Reply : [m EXCEPT !.reply = r] \in Msg
    /\ \A kind \in Kinds, slot \in Slots \cup {0}, j \in Jar :
          LET m == Asked(kind, slot, j)
          IN  m \in Msg /\ m.reply = Pending /\ m.jar = j /\ m.kind = kind /\ m.slot = slot
    /\ \A kind \in Kinds, j \in Jar :
          LET m == [NoMsg EXCEPT !.kind = kind, !.jar = j]
          IN  m \in Msg /\ m.reply = Pending /\ m.jar = j /\ m.kind = kind
<1>1. /\ Plain(Pending) /\ Pending.status = 0 /\ Pending \in Reply
      /\ \A k \in Slots : Pending.tok[k] = Keep
  BY AnsweringIs DEF Pending, Plain
<1>2. NoJar \in Jar /\ \A k \in Slots : NoJar.tok[k] = 0
  BY DEF NoJar, Jar, Access
<1>3. NoMsg \in Msg /\ NoMsg = [kind |-> "none", slot |-> 0, jar |-> NoJar, reply |-> Pending]
  BY <1>1, <1>2 DEF NoMsg, Msg
<1>4. \A m \in Msg, r \in Reply : [m EXCEPT !.reply = r] \in Msg
  BY DEF Msg
<1>5. ASSUME NEW kind \in Kinds, NEW slot \in Slots \cup {0}, NEW j \in Jar
      PROVE  LET m == Asked(kind, slot, j)
             IN  m \in Msg /\ m.reply = Pending /\ m.jar = j /\ m.kind = kind /\ m.slot = slot
  BY <1>1, <1>3 DEF Msg, Asked
<1>6. ASSUME NEW kind \in Kinds, NEW j \in Jar
      PROVE  LET m == [NoMsg EXCEPT !.kind = kind, !.jar = j]
             IN  m \in Msg /\ m.reply = Pending /\ m.jar = j /\ m.kind = kind
  BY <1>1, <1>3 DEF Msg
<1> QED BY <1>1, <1>2, <1>3, <1>4, <1>5, <1>6

-----------------------------------------------------------------------------
(* What a step of the server does.                                         *)

Served(c, r) == msg' = [msg EXCEPT ![c] = IF c = Orphan THEN NoMsg ELSE [@ EXCEPT !.reply = r]]

\* It leaves the sessions alone, or deletes some.
Deletes == /\ row' \in [Slots -> Nat] /\ grace' \in [Slots -> SUBSET Nat]
           /\ \A k \in Slots : \/ row'[k] = row[k] /\ grace'[k] = grace[k]
                               \/ row'[k] = 0 /\ grace'[k] = {}

\* It rotates the current token of a slot the request carries.
Rotates(c, k, r) ==
    /\ k \in Selected(msg[c].jar) /\ msg[c].kind = "refresh"
    /\ row[k] = msg[c].jar.tok[k] /\ row[k] # 0
    /\ row' = [row EXCEPT ![k] = @ + 1]
    /\ grace' = [grace EXCEPT ![k] = @ \cup {row[k]}]
    /\ r = Issued(msg[c].jar, k)

\* Requests about one account name it.
SlotInv == \A c \in Clients : msg[c].kind \in {"switch", "remove"} => msg[c].slot \in Slots

\* What the verdict on a refresh token says of its session.
LEMMA ResolutionIs ==
    \A k, g : /\ Resolution(k, g) \in {"current", "race", "reused", "unknown"}
              /\ Resolution(k, g) = "current" => row[k] # 0 /\ row[k] = g
              /\ Resolution(k, g) = "unknown" => row[k] = 0
              /\ Resolution(k, g) = "reused" => row[k] # g /\ g \notin grace[k]
<1>1. ASSUME NEW k, NEW g
      PROVE  /\ Resolution(k, g) \in {"current", "race", "reused", "unknown"}
             /\ Resolution(k, g) = "current" => row[k] # 0 /\ row[k] = g
             /\ Resolution(k, g) = "unknown" => row[k] = 0
             /\ Resolution(k, g) = "reused" => row[k] # g /\ g \notin grace[k]
  <2>1. CASE row[k] = 0
    BY <2>1 DEF Resolution
  <2>2. CASE row[k] # 0 /\ row[k] = g
    BY <2>2 DEF Resolution
  <2>3. CASE row[k] # 0 /\ row[k] # g /\ g \in grace[k]
    BY <2>3 DEF Resolution
  <2>4. CASE row[k] # 0 /\ row[k] # g /\ g \notin grace[k]
    BY <2>4 DEF Resolution
  <2> QED BY <2>1, <2>2, <2>3, <2>4
<1> QED BY <1>1

\* Every answer leaves the sessions alone, deletes some, or rotates one.
LEMMA ServerMoves ==
    ASSUME TypeOK, SlotInv, NEW c \in Clients, ServerStep(c)
    PROVE  /\ UNCHANGED <<jar, tab, holder, trips, lost>>
           /\ msg[c].reply = Pending /\ msg[c].kind \in Kinds
           /\ \E r \in Reply :
                 /\ Served(c, r) /\ r.status # 0
                 /\ \/ /\ Plain(r) /\ Deletes
                       /\ msg[c].kind = "refresh" => r.status # 200
                    \/ \E k \in Slots : Rotates(c, k, r)
<1>0. msg[c] \in Msg /\ msg[c].jar \in Jar /\ \A k \in Slots : row[k] \in Nat
  BY DEF TypeOK, Clients, Msg
<1>1. Selected(msg[c].jar) \subseteq Slots
  BY <1>0 DEF Selected, Known, Jar
<1>2. UNCHANGED <<row, grace>> => Deletes
  BY DEF Deletes, TypeOK
<1>3. ASSUME NEW k \in Slots, row' = [row EXCEPT ![k] = 0], grace' = [grace EXCEPT ![k] = {}]
      PROVE  Deletes
  BY <1>3 DEF Deletes, TypeOK
<1>4. \A s \in {200, 401, 404, 409} : /\ Plain(Answering(s)) /\ Answering(s) \in Reply
                                      /\ Answering(s).status # 0
  BY AnsweringIs DEF Plain
<1>5. ASSUME NEW r \in Reply, Answer(c, r) PROVE Served(c, r)
  BY <1>5 DEF Answer, Served
<1>6. CASE ServerRefresh(c)
  <2>1. UNCHANGED <<jar, tab, holder, trips, lost>> /\ Received(c, "refresh")
    BY <1>6 DEF ServerRefresh
  <2>2. ASSUME NEW k \in Selected(msg[c].jar), RefreshOf(c, k)
        PROVE  \E r \in Reply : /\ Served(c, r) /\ r.status # 0
                                /\ \/ Plain(r) /\ Deletes /\ r.status # 200
                                   \/ \E i \in Slots : Rotates(c, i, r)
    <3> DEFINE g == msg[c].jar.tok[k]
    <3>0. k \in Slots
      BY <1>1
    <3>1. CASE Resolution(k, g) = "current"
      <4>1. row' = [row EXCEPT ![k] = @ + 1] /\ grace' = [grace EXCEPT ![k] = @ \cup {g}]
            /\ Answer(c, Issued(msg[c].jar, k))
        BY <2>2, <3>1 DEF RefreshOf
      <4>2. row[k] # 0 /\ row[k] = g
        BY <3>1, ResolutionIs
      <4>3. Issued(msg[c].jar, k) \in Reply /\ Issued(msg[c].jar, k).status = 200
        BY <1>0, <3>0, IssuedIs
      <4>4. Rotates(c, k, Issued(msg[c].jar, k))
        BY <2>1, <4>1, <4>2 DEF Rotates, Received
      <4> QED BY <1>5, <3>0, <4>1, <4>3, <4>4
    <3>2. CASE Resolution(k, g) = "race"
      <4>1. Answer(c, Answering(409)) /\ UNCHANGED <<row, grace>>
        BY <2>2, <3>2 DEF RefreshOf
      <4>2. /\ Plain(Answering(409)) /\ Answering(409) \in Reply
            /\ Answering(409).status = 409
        BY <1>4, AnsweringIs
      <4> QED BY <1>2, <1>5, <4>1, <4>2
    <3>3. CASE Resolution(k, g) = "reused"
      <4>1. /\ row' = [row EXCEPT ![k] = 0] /\ grace' = [grace EXCEPT ![k] = {}]
            /\ Answer(c, ClearSelected(msg[c].jar, k))
        BY <2>2, <3>3 DEF RefreshOf
      <4>2. /\ Plain(ClearSelected(msg[c].jar, k)) /\ ClearSelected(msg[c].jar, k).status = 401
            /\ ClearSelected(msg[c].jar, k) \in Reply
        BY ClearSelectedIs DEF Plain
      <4>3. Deletes
        BY <1>3, <3>0, <4>1
      <4> QED BY <1>5, <4>1, <4>2, <4>3
    <3>4. CASE Resolution(k, g) = "unknown"
      <4>1. Answer(c, ClearSelected(msg[c].jar, k)) /\ UNCHANGED <<row, grace>>
        BY <2>2, <3>4 DEF RefreshOf
      <4>2. /\ Plain(ClearSelected(msg[c].jar, k)) /\ ClearSelected(msg[c].jar, k).status = 401
            /\ ClearSelected(msg[c].jar, k) \in Reply
        BY ClearSelectedIs DEF Plain
      <4> QED BY <1>2, <1>5, <4>1, <4>2
    <3> QED BY <3>1, <3>2, <3>3, <3>4, ResolutionIs
  <2>3. ASSUME Answer(c, ClearAll), UNCHANGED <<row, grace>>
        PROVE  \E r \in Reply : /\ Served(c, r) /\ r.status # 0
                                /\ Plain(r) /\ Deletes /\ r.status # 200
    <3>1. Plain(ClearAll) /\ ClearAll.status = 401 /\ ClearAll \in Reply
      BY ClearAllIs DEF Plain
    <3> QED BY <1>2, <1>5, <2>3, <3>1
  <2>4. (\E k \in Selected(msg[c].jar) : RefreshOf(c, k))
        \/ (Answer(c, ClearAll) /\ UNCHANGED <<row, grace>>)
    BY <1>6 DEF ServerRefresh
  <2> QED BY <2>1, <2>2, <2>3, <2>4 DEF Received, Kinds
<1>7. CASE ServerCall(c)
  <2>1. /\ UNCHANGED <<row, grace, jar, tab, holder, trips, lost>> /\ Received(c, "call")
        /\ Answer(c, Answering(200)) \/ Answer(c, Answering(401))
    BY <1>7 DEF ServerCall
  <2> QED BY <1>2, <1>4, <1>5, <2>1 DEF Received, Kinds
<1>8. CASE ServerSwitch(c)
  <2>1. UNCHANGED <<row, grace, jar, tab, holder, trips, lost>> /\ Received(c, "switch")
    BY <1>8 DEF ServerSwitch
  <2>2. msg[c].slot \in Slots \cup {0}
    BY <1>0 DEF Msg
  <2>3. \/ Answer(c, Activated(Answering(200), msg[c].slot))
        \/ Answer(c, Answering(404))
    BY <1>8 DEF ServerSwitch, Activated
  <2>4. /\ Plain(Activated(Answering(200), msg[c].slot))
        /\ Activated(Answering(200), msg[c].slot) \in Reply
        /\ Activated(Answering(200), msg[c].slot).status = 200
    BY <1>4, <2>2, ActivatedIs, AnsweringIs
  <2> QED BY <1>2, <1>4, <1>5, <2>1, <2>3, <2>4 DEF Received, Kinds
<1>9. CASE ServerLogout(c)
  <2>1. UNCHANGED <<jar, tab, holder, trips, lost>> /\ Received(c, "logout")
    BY <1>9 DEF ServerLogout
  <2> DEFINE j == msg[c].jar
             Out(k) == /\ Deleted(k)
                       /\ \E next \in Fallbacks(Remaining(j)) :
                              Answer(c, Activated(SignedOut(j), next))
  <2>2. ASSUME NEW k \in Slots, Out(k)
        PROVE  \E r \in Reply : Served(c, r) /\ r.status # 0 /\ Plain(r) /\ Deletes
    <3>1. PICK next \in Fallbacks(Remaining(j)) : Answer(c, Activated(SignedOut(j), next))
      BY <2>2
    <3>2. next \in Slots \cup {0}
      BY DEF Fallbacks, Remaining
    <3>3. Plain(SignedOut(j)) /\ SignedOut(j) \in Reply /\ SignedOut(j).status = 200
      <4>1. PICK X : SignedOut(j) = ClearSlots(Answering(200), X)
        BY DEF SignedOut
      <4>2. /\ Answering(200) \in Reply /\ Plain(Answering(200)) /\ Answering(200).status = 200
        BY <1>4, AnsweringIs
      <4> QED BY <4>1, <4>2, ClearSlotsIs DEF Plain
    <3>4. /\ Plain(Activated(SignedOut(j), next)) /\ Activated(SignedOut(j), next) \in Reply
          /\ Activated(SignedOut(j), next).status = 200
      BY <3>2, <3>3, ActivatedIs
    <3>5. Deletes
      BY <1>3, <2>2 DEF Deleted
    <3> QED BY <1>5, <3>1, <3>4, <3>5
  <2>3. Accepted(j) => j.access[1] \in Slots
    BY <1>0 DEF Accepted, Jar, Access
  <2>4. \/ Accepted(j) /\ Out(j.access[1])
        \/ \E k \in Selected(j) : Out(k)
        \/ Answer(c, Answering(401)) /\ UNCHANGED <<row, grace>>
    BY <1>9 DEF ServerLogout, Activated
  <2> HIDE DEF Out
  <2> QED BY <1>1, <1>2, <1>4, <1>5, <2>1, <2>2, <2>3, <2>4 DEF Received, Kinds
<1>10. CASE ServerRemove(c)
  <2>1. UNCHANGED <<jar, tab, holder, trips, lost>> /\ Received(c, "remove")
    BY <1>10 DEF ServerRemove
  <2> DEFINE j == msg[c].jar
             k == msg[c].slot
             cleared == ClearSlots(Answering(200), Stale(j) \cup {k})
  <2>2. Plain(cleared) /\ cleared \in Reply /\ cleared.status = 200
    BY <1>4, ClearSlotsIs, AnsweringIs DEF Plain
  <2>3. \/ Answer(c, Answering(404)) /\ UNCHANGED <<row, grace>>
        \/ /\ \/ Current(j, k) /\ Deleted(k)
              \/ UNCHANGED <<row, grace>>
           /\ \/ \E next \in Fallbacks(Known(j) \ {k}) : Answer(c, Activated(cleared, next))
              \/ Answer(c, cleared)
    BY <1>10 DEF ServerRemove, Activated
  <2> HIDE DEF cleared
  <2>4. Current(j, k) => k \in Slots
    BY <2>1 DEF Received, SlotInv
  <2>5. \A next \in Fallbacks(Known(j) \ {k}) :
          /\ Plain(Activated(cleared, next)) /\ Activated(cleared, next) \in Reply
          /\ Activated(cleared, next).status = 200
    <3>1. \A next \in Fallbacks(Known(j) \ {k}) : next \in Slots \cup {0}
      BY DEF Fallbacks, Known
    <3> QED BY <2>2, <3>1, ActivatedIs
  <2>6. (Current(j, k) /\ Deleted(k)) \/ UNCHANGED <<row, grace>> => Deletes
    BY <1>2, <1>3, <2>4 DEF Deleted
  <2>7. \E r \in Reply : Served(c, r) /\ r.status # 0 /\ Plain(r) /\ Deletes
    BY <1>2, <1>4, <1>5, <2>2, <2>3, <2>5, <2>6
  <2> QED BY <2>1, <2>7 DEF Received, Kinds
<1> QED BY <1>6, <1>7, <1>8, <1>9, <1>10 DEF ServerStep

-----------------------------------------------------------------------------
(* What a step of a page does.                                             *)

\* Only a refresh with attempts left waits for its next one.
PauseInv == \A t \in Tabs : tab[t].pc = "pause" => tab[t].attempt < MaxAttempts

Request(m) == /\ m \in Msg /\ m.reply = Pending
              /\ m.kind \in {"switch", "remove"} => m.slot \in Slots

\* It sends a request with the cookies of the jar, takes a reply (and may send the
\* call again), or leaves its request behind.
Sends(t) == /\ jar' = jar
            /\ \E m \in Msg : Request(m) /\ m.jar = jar /\ msg' = [msg EXCEPT ![t] = m]
Takes(t) == /\ msg[t].reply # Pending /\ jar' = Applied(jar, msg[t].reply)
            /\ \E m \in Msg : Request(m) /\ m.jar \in {NoJar, jar'} /\ msg' = [msg EXCEPT ![t] = m]
LeavesBehind(t) ==
    /\ jar' = jar /\ lost < MaxLost
    /\ \E o \in {NoMsg, msg[t]} : o.reply = Pending /\
          msg' = [msg EXCEPT ![t] = NoMsg, ![Orphan] = o]

Pages(t) == PageStep(t) \/ LockStep(t) \/ UserStep(t) \/ RequestFails(t)

PageTypes(t) ==
    /\ UNCHANGED <<row, grace>> /\ holder' \in {holder, t, NoTab}
    /\ trips' \in 0 .. MaxTrips /\ lost' \in 0 .. MaxLost
    /\ \E T \in Tab : /\ tab' = [tab EXCEPT ![t] = T]
                      /\ T.pc = "pause" => T.attempt < MaxAttempts
    /\ UNCHANGED <<jar, msg>> \/ Sends(t) \/ Takes(t) \/ LeavesBehind(t)

\* A refresh that succeeded names the account it refreshed.
ActiveInv == \A c \in Clients : msg[c].kind = "refresh" /\ msg[c].reply.status = 200 =>
                                    msg[c].reply.active \in Slots

\* The states a page goes to.
LEMMA TabIs ==
    ASSUME RefreshAssumption
    PROVE  /\ \A p \in {"app", "login"} : Loading(p) \in Tab /\ Loading(p).pc = "load"
           /\ \A s \in Tab, w \in {"load", "call", "leave"} :
                 Asking(s, w) \in Tab /\ Asking(s, w).pc \in {"lock", "send"}
           /\ \A s \in Tab, ok \in BOOLEAN :
                 AfterRefresh(s, ok) \in Tab /\
                   AfterRefresh(s, ok).pc \in {"out", "load", "call", "ready"}
<1>1. \A p \in {"app", "login"} : Loading(p) \in Tab /\ Loading(p).pc = "load"
  BY DEF Loading, Tab, RefreshAssumption
<1>2. ASSUME NEW s \in Tab, NEW w \in {"load", "call", "leave"}
      PROVE  Asking(s, w) \in Tab /\ Asking(s, w).pc \in {"lock", "send"}
  <2>1. 1 \in 0 .. MaxAttempts
    BY DEF RefreshAssumption
  <2> QED BY <2>1 DEF Asking, Tab
<1>3. ASSUME NEW s \in Tab, NEW ok \in BOOLEAN
      PROVE  AfterRefresh(s, ok) \in Tab /\
             AfterRefresh(s, ok).pc \in {"out", "load", "call", "ready"}
  <2>1. /\ [s EXCEPT !.pc = "out"] \in Tab /\ [s EXCEPT !.pc = "out"].pc = "out"
        /\ [s EXCEPT !.pc = "ready"] \in Tab /\ [s EXCEPT !.pc = "ready"].pc = "ready"
        /\ [s EXCEPT !.pc = "call", !.retried = TRUE] \in Tab
        /\ [s EXCEPT !.pc = "call", !.retried = TRUE].pc = "call"
    BY DEF Tab, Kinds
  <2>2. CASE ~ok
    BY <1>1, <2>1, <2>2 DEF AfterRefresh
  <2>3. CASE ok /\ s.why = "call"
    BY <1>1, <2>1, <2>3 DEF AfterRefresh
  <2>4. CASE ok /\ s.why # "call"
    BY <1>1, <2>1, <2>4 DEF AfterRefresh
  <2> QED BY <2>2, <2>3, <2>4
<1> QED BY <1>1, <1>2, <1>3

\* Every step of a page does one of these, and stays within its types.
LEMMA PageMoves ==
    ASSUME RefreshAssumption, TypeOK, PauseInv, ActiveInv, NEW t \in Tabs, Pages(t)
    PROVE  PageTypes(t)
<1>0. /\ tab[t] \in Tab /\ msg[t] \in Msg /\ msg[t].reply \in Reply /\ jar \in Jar
      /\ trips \in 0 .. MaxTrips /\ lost \in 0 .. MaxLost
  BY DEF TypeOK, Msg
<1>1. \A T \in Tab : T.pc # "pause" =>
          (\E U \in Tab : [tab EXCEPT ![t] = T] = [tab EXCEPT ![t] = U]
                          /\ (U.pc = "pause" => U.attempt < MaxAttempts))
  OBVIOUS
<1>2. Request(NoMsg) /\ NoMsg \in Msg /\ NoMsg.jar = NoJar
  BY MsgIs DEF Request
<1>3. ASSUME NEW T \in Tab, T.pc # "pause", tab' = [tab EXCEPT ![t] = T], UNCHANGED <<row, grace>>,
             holder' \in {holder, t, NoTab}, trips' \in 0 .. MaxTrips, lost' \in 0 .. MaxLost,
             UNCHANGED <<jar, msg>> \/ Sends(t) \/ Takes(t) \/ LeavesBehind(t)
      PROVE  PageTypes(t)
  BY <1>3 DEF PageTypes
<1>4. ASSUME NEW kind \in Kinds, NEW slot \in Slots \cup {0}, Send(t, kind, slot), jar' = jar,
             kind \in {"switch", "remove"} => slot \in Slots
      PROVE  Sends(t)
  <2> DEFINE m == Asked(kind, slot, jar)
  <2>1. m \in Msg /\ m.reply = Pending /\ m.jar = jar /\ m.kind = kind /\ m.slot = slot
    <3>1. jar \in Jar
      BY <1>0
    <3>2. \A i \in Slots \cup {0} : \A j \in Jar :
              LET n == Asked(kind, i, j)
              IN  n \in Msg /\ n.reply = Pending /\ n.jar = j /\ n.kind = kind /\ n.slot = i
      BY MsgIs
    <3> QED BY <3>1, <3>2
  <2>2. msg' = [msg EXCEPT ![t] = m]
    BY <1>4 DEF Send, Asked
  <2> HIDE DEF m
  <2> QED BY <1>4, <2>1, <2>2 DEF Sends, Request
<1>5. ASSUME NEW kind, Arrived(t, kind), msg' = [msg EXCEPT ![t] = NoMsg]
      PROVE  Takes(t)
  BY <1>2, <1>5 DEF Arrived, Takes
<1>6. ASSUME GiveUp(t)
      PROVE  lost < MaxLost /\ lost' \in 0 .. MaxLost /\ (jar' = jar => LeavesBehind(t))
  <2>1. lost < MaxLost /\ lost' = lost + 1
        /\ msg' = [msg EXCEPT ![t] = NoMsg,
                              ![Orphan] = IF msg[t].reply = Pending THEN msg[t] ELSE NoMsg]
    BY <1>6 DEF GiveUp
  <2>2. lost' \in 0 .. MaxLost
    BY <1>0, <2>1 DEF RefreshAssumption
  <2> QED BY <2>1, <2>2, MsgIs DEF LeavesBehind
<1>7. Release(t) => holder' \in {holder, t, NoTab}
  BY DEF Release
<1>8. CASE Bootstrap(t)
  <2>1. Asking(tab[t], "load") \in Tab /\ Asking(tab[t], "load").pc # "pause"
    BY <1>0, TabIs
  <2> QED BY <1>0, <1>3, <1>8, <2>1 DEF Bootstrap
<1>9. CASE SendRefresh(t)
  <2>1. [tab[t] EXCEPT !.pc = "refresh"] \in Tab /\ [tab[t] EXCEPT !.pc = "refresh"].pc # "pause"
    BY <1>0 DEF Tab, Kinds
  <2>2. tab' = [tab EXCEPT ![t] = [tab[t] EXCEPT !.pc = "refresh"]]
    BY <1>9 DEF SendRefresh
  <2>3. UNCHANGED <<row, grace, jar, holder, trips, lost>> /\ Send(t, "refresh", 0)
    BY <1>9 DEF SendRefresh
  <2>4. Sends(t)
    <3>1. "refresh" \in Kinds /\ 0 \in Slots \cup {0}
      BY DEF Kinds
    <3> QED BY <1>4, <2>3, <3>1
  <2> QED BY <1>0, <1>3, <2>1, <2>2, <2>3, <2>4
<1>10. CASE RetryRefresh(t)
  <2> DEFINE T == [tab[t] EXCEPT !.pc = "send", !.attempt = @ + 1]
  <2>1. T \in Tab /\ T.pc # "pause"
    <3>1. tab[t].attempt + 1 \in 0 .. MaxAttempts
      <4>1. tab[t].attempt < MaxAttempts /\ tab[t].attempt \in 0 .. MaxAttempts
        BY <1>0, <1>10 DEF RetryRefresh, PauseInv, Tab
      <4> QED BY <4>1 DEF RefreshAssumption
    <3> QED BY <1>0, <3>1 DEF Tab
  <2>2. tab' = [tab EXCEPT ![t] = T] /\ UNCHANGED <<row, grace, jar, holder, msg, trips, lost>>
    BY <1>10 DEF RetryRefresh
  <2> HIDE DEF T
  <2> QED BY <1>0, <1>3, <2>1, <2>2
<1>11. CASE RefreshReply(t)
  <2> DEFINE r == msg[t].reply
             seen == IF r.status = 200 THEN [tab[t] EXCEPT !.mine = r.active] ELSE tab[t]
             next == AfterRefresh(seen, r.status = 200)
  <2>0. Arrived(t, "refresh") /\ UNCHANGED <<row, grace, trips, lost>>
    BY <1>11 DEF RefreshReply
  <2>1. CASE TriesAgain(t)
    <3>1. /\ tab' = [tab EXCEPT ![t] = [tab[t] EXCEPT !.pc = "pause"]]
          /\ msg' = [msg EXCEPT ![t] = NoMsg] /\ UNCHANGED holder
      BY <1>11, <2>1 DEF RefreshReply
    <3>2. [tab[t] EXCEPT !.pc = "pause"] \in Tab /\
          [tab[t] EXCEPT !.pc = "pause"].attempt < MaxAttempts
      BY <1>0, <2>1 DEF TriesAgain, Tab
    <3>3. Takes(t)
      BY <1>5, <2>0, <3>1
    <3> QED BY <1>0, <2>0, <3>1, <3>2, <3>3 DEF PageTypes
  <2>2. CASE ~TriesAgain(t)
    <3>1. /\ tab' = [tab EXCEPT ![t] = next] /\ Release(t)
          /\ msg' = IF next.pc = "call"
                    THEN [msg EXCEPT ![t] = [NoMsg EXCEPT !.kind = "call", !.jar = Applied(jar, r)]]
                    ELSE [msg EXCEPT ![t] = NoMsg]
      BY <1>11, <2>2 DEF RefreshReply
    <3>2. next \in Tab /\ next.pc # "pause"
      <4>1. seen \in Tab
        <5>1. CASE r.status = 200
          <6>1. msg[t].kind = "refresh" /\ t \in Clients
            BY <2>0 DEF Arrived, Clients
          <6>2. r.active \in Slots \cup {0}
            BY <5>1, <6>1 DEF ActiveInv
          <6> QED BY <1>0, <5>1, <6>2 DEF Tab
        <5> QED BY <1>0, <5>1
      <4> QED BY <4>1, TabIs
    <3>3. Takes(t)
      <4>1. CASE next.pc = "call"
        <5> DEFINE m == [NoMsg EXCEPT !.kind = "call", !.jar = Applied(jar, r)]
        <5>1. Applied(jar, r) \in Jar /\ "call" \in Kinds
          BY <1>0, AppliedIs DEF Kinds
        <5>2. m \in Msg /\ m.reply = Pending /\ m.jar = Applied(jar, r) /\ m.kind = "call"
          BY <5>1, MsgIs
        <5>3. msg' = [msg EXCEPT ![t] = m] /\ jar' = Applied(jar, r) /\ r # Pending
          BY <2>0, <3>1, <4>1 DEF Arrived
        <5> HIDE DEF m
        <5> QED BY <5>2, <5>3 DEF Takes, Request
      <4>2. CASE next.pc # "call"
        BY <1>5, <2>0, <3>1, <4>2
      <4> QED BY <4>1, <4>2
    <3> HIDE DEF next
    <3> QED BY <1>0, <1>3, <1>7, <2>0, <3>1, <3>2, <3>3
  <2> QED BY <2>1, <2>2
<1>12. CASE CallReply(t)
  <2> DEFINE T == IF msg[t].reply.status = 401 /\ ~tab[t].retried THEN Asking(tab[t], "call")
                  ELSE [tab[t] EXCEPT !.pc = "ready", !.retried = FALSE]
  <2>1. T \in Tab /\ T.pc # "pause"
    <3>1. [tab[t] EXCEPT !.pc = "ready", !.retried = FALSE] \in Tab
          /\ [tab[t] EXCEPT !.pc = "ready", !.retried = FALSE].pc = "ready"
      BY <1>0 DEF Tab
    <3>2. Asking(tab[t], "call") \in Tab /\ Asking(tab[t], "call").pc # "pause"
      BY <1>0, TabIs
    <3> QED BY <3>1, <3>2
  <2>2. /\ tab' = [tab EXCEPT ![t] = T] /\ UNCHANGED <<row, grace, holder, trips, lost>>
        /\ Arrived(t, "call") /\ msg' = [msg EXCEPT ![t] = NoMsg]
    BY <1>12 DEF CallReply
  <2> HIDE DEF T
  <2> QED BY <1>0, <1>3, <1>5, <2>1, <2>2
<1>13. CASE SwitchReply(t)
  <2> DEFINE T == IF msg[t].reply.status = 200 THEN Loading("app")
                  ELSE [tab[t] EXCEPT !.pc = "ready"]
  <2>1. T \in Tab /\ T.pc # "pause"
    <3>1. [tab[t] EXCEPT !.pc = "ready"] \in Tab /\ [tab[t] EXCEPT !.pc = "ready"].pc = "ready"
      BY <1>0 DEF Tab
    <3>2. Loading("app") \in Tab /\ Loading("app").pc # "pause"
      BY TabIs
    <3> QED BY <3>1, <3>2
  <2>2. /\ tab' = [tab EXCEPT ![t] = T] /\ UNCHANGED <<row, grace, holder, trips, lost>>
        /\ Arrived(t, "switch") /\ msg' = [msg EXCEPT ![t] = NoMsg]
    BY <1>13 DEF SwitchReply
  <2> HIDE DEF T
  <2> QED BY <1>0, <1>3, <1>5, <2>1, <2>2
<1>14. CASE LogoutReply(t)
  <2> DEFINE T == IF msg[t].reply.status = 200 THEN Asking(tab[t], "leave") ELSE Loading("login")
  <2>1. T \in Tab /\ T.pc # "pause"
    BY <1>0, TabIs
  <2>2. /\ tab' = [tab EXCEPT ![t] = T] /\ UNCHANGED <<row, grace, holder, trips, lost>>
        /\ Arrived(t, "logout") /\ msg' = [msg EXCEPT ![t] = NoMsg]
    BY <1>14 DEF LogoutReply
  <2> HIDE DEF T
  <2> QED BY <1>0, <1>3, <1>5, <2>1, <2>2
<1>15. CASE RemoveReply(t)
  <2> DEFINE T == IF msg[t].reply.status = 200 /\ msg[t].slot = tab[t].mine
                  THEN Asking(tab[t], "leave") ELSE [tab[t] EXCEPT !.pc = "ready"]
  <2>1. T \in Tab /\ T.pc # "pause"
    <3>1. [tab[t] EXCEPT !.pc = "ready"] \in Tab /\ [tab[t] EXCEPT !.pc = "ready"].pc = "ready"
      BY <1>0 DEF Tab
    <3>2. Asking(tab[t], "leave") \in Tab /\ Asking(tab[t], "leave").pc # "pause"
      BY <1>0, TabIs
    <3> QED BY <3>1, <3>2
  <2>2. /\ tab' = [tab EXCEPT ![t] = T] /\ UNCHANGED <<row, grace, holder, trips, lost>>
        /\ Arrived(t, "remove") /\ msg' = [msg EXCEPT ![t] = NoMsg]
    BY <1>15 DEF RemoveReply
  <2> HIDE DEF T
  <2> QED BY <1>0, <1>3, <1>5, <2>1, <2>2
<1>16. CASE LockGranted(t) \/ LockTimesOut(t)
  <2>1. [tab[t] EXCEPT !.pc = "send"] \in Tab /\ [tab[t] EXCEPT !.pc = "send"].pc # "pause"
    BY <1>0 DEF Tab
  <2>2. /\ tab' = [tab EXCEPT ![t] = [tab[t] EXCEPT !.pc = "send"]]
        /\ UNCHANGED <<row, grace, jar, msg, trips, lost>> /\ holder' \in {holder, t}
    BY <1>16 DEF LockGranted, LockTimesOut
  <2> QED BY <1>0, <1>3, <2>1, <2>2
<1>17. ASSUME NEW kind \in {"call", "logout", "switch", "remove"}, NEW slot \in Slots \cup {0},
              UserAsks(t, kind, slot), kind \in {"switch", "remove"} => slot \in Slots
       PROVE  PageTypes(t)
  <2>1. [tab[t] EXCEPT !.pc = kind] \in Tab /\ [tab[t] EXCEPT !.pc = kind].pc # "pause"
    BY <1>0 DEF Tab, Kinds
  <2>2. /\ tab' = [tab EXCEPT ![t] = [tab[t] EXCEPT !.pc = kind]] /\ Send(t, kind, slot)
        /\ UNCHANGED <<row, grace, jar, holder, lost>> /\ trips < MaxTrips /\ trips' = trips + 1
    BY <1>17 DEF UserAsks
  <2>3. trips' \in 0 .. MaxTrips
    BY <1>0, <2>2 DEF RefreshAssumption
  <2>4. Sends(t)
    <3>1. kind \in Kinds
      BY DEF Kinds
    <3> QED BY <1>4, <1>17, <2>2, <3>1
  <2> QED BY <1>0, <1>3, <2>1, <2>2, <2>3, <2>4
<1>18. CASE Reload(t)
  <2>1. Loading(tab[t].page) \in Tab /\ Loading(tab[t].page).pc # "pause"
    BY <1>0, TabIs DEF Tab
  <2>2. /\ tab' = [tab EXCEPT ![t] = Loading(tab[t].page)] /\ Release(t)
        /\ UNCHANGED <<row, grace, jar>> /\ trips < MaxTrips /\ trips' = trips + 1
        /\ UNCHANGED <<msg, lost>> \/ GiveUp(t)
    BY <1>18 DEF Reload
  <2>3. trips' \in 0 .. MaxTrips
    BY <1>0, <2>2 DEF RefreshAssumption
  <2> QED BY <1>0, <1>3, <1>6, <1>7, <2>1, <2>2, <2>3
<1>19. CASE RequestFails(t)
  <2> DEFINE T == CASE tab[t].pc = "refresh" -> AfterRefresh(tab[t], FALSE)
                    [] tab[t].pc = "logout"  -> Loading("login")
                    [] OTHER -> [tab[t] EXCEPT !.pc = "ready", !.retried = FALSE]
  <2>1. T \in Tab /\ T.pc # "pause"
    <3>1. [tab[t] EXCEPT !.pc = "ready", !.retried = FALSE] \in Tab
          /\ [tab[t] EXCEPT !.pc = "ready", !.retried = FALSE].pc = "ready"
      BY <1>0 DEF Tab
    <3>2. AfterRefresh(tab[t], FALSE) \in Tab /\ AfterRefresh(tab[t], FALSE).pc # "pause"
      BY <1>0, TabIs
    <3>3. Loading("login") \in Tab /\ Loading("login").pc # "pause"
      BY TabIs
    <3>4. CASE tab[t].pc = "refresh"
      BY <3>2, <3>4
    <3>5. CASE tab[t].pc = "logout"
      BY <3>3, <3>5
    <3>6. CASE tab[t].pc \notin {"refresh", "logout"}
      BY <3>1, <3>6
    <3> QED BY <3>4, <3>5, <3>6
  <2>2. tab' = [tab EXCEPT ![t] = T]
    BY <1>19 DEF RequestFails
  <2>3. GiveUp(t) /\ Release(t) /\ UNCHANGED <<row, grace, jar, trips>>
    BY <1>19 DEF RequestFails
  <2> HIDE DEF T
  <2> QED BY <1>0, <1>3, <1>6, <1>7, <2>1, <2>2, <2>3
<1>20. CASE UserStep(t)
  <2>1. \A kind \in {"call", "logout"} : kind \notin {"switch", "remove"}
    OBVIOUS
  <2>2. ASSUME NEW kind \in {"call", "logout"}, UserAsks(t, kind, 0) PROVE PageTypes(t)
    BY <1>17, <2>2
  <2>3. ASSUME NEW k \in Slots, NEW kind \in {"switch", "remove"}, UserAsks(t, kind, k)
        PROVE  PageTypes(t)
    BY <1>17, <2>3
  <2> QED BY <1>18, <1>20, <2>2, <2>3 DEF UserStep
<1> QED BY <1>8, <1>9, <1>10, <1>11, <1>12, <1>13, <1>14, <1>15, <1>16, <1>19, <1>20
        DEF Pages, PageStep, LockStep, ReplyArrives

-----------------------------------------------------------------------------
(* A token is set once.                                                    *)

Sets(c, k) == msg[c].reply.tok[k] \notin {0, Keep}

\* A token on its way to the browser is the only one of its slot that is, and newer than
\* every one the browser has had: none of its requests can have carried it.  The
\* browser never has a newer token than the server.
FreshInv == \A k \in Slots :
    /\ \A c \in Clients : Sets(c, k) =>
          /\ row[k] \in {0, msg[c].reply.tok[k]} /\ jar.tok[k] < msg[c].reply.tok[k]
          /\ \A d \in Clients : msg[d].jar.tok[k] < msg[c].reply.tok[k]
          /\ \A d \in Clients : Sets(d, k) => d = c
    /\ row[k] # 0 => /\ jar.tok[k] <= row[k]
                     /\ \A d \in Clients : msg[d].jar.tok[k] <= row[k]

RefreshInv == TypeOK /\ SlotInv /\ PauseInv /\ ActiveInv /\ FreshInv

\* A page that asks nothing carries no token.
LEMMA NoMsgIs == /\ NoMsg \in Msg /\ NoMsg.kind = "none" /\ NoMsg.reply = Pending
                 /\ NoMsg.reply.status = 0 /\ Pending.status = 0 /\ NoMsg.jar = NoJar
                 /\ \A k \in Slots : /\ NoJar.tok[k] = 0 /\ NoMsg.jar.tok[k] = 0
                                       /\ NoMsg.reply.tok[k] = Keep /\ Pending.tok[k] = Keep
  BY MsgIs

\* Tokens are numbers, and the ones a reply sets as well.
LEMMA Tokens ==
    ASSUME TypeOK
    PROVE  \A k \in Slots : /\ row[k] \in Nat /\ jar.tok[k] \in Nat
                            /\ \A c \in Clients : /\ msg[c] \in Msg /\ msg[c].reply \in Reply
                                                  /\ msg[c].jar.tok[k] \in Nat
                                                  /\ msg[c].reply.tok[k] \in Nat \cup {Keep}
<1>1. \A c \in Clients : msg[c] \in Msg
  BY DEF TypeOK, Clients
<1>2. \A m \in Msg : m.jar \in Jar /\ m.reply \in Reply
  BY DEF Msg
<1>3. \A j \in Jar : \A k \in Slots : j.tok[k] \in Nat
  BY DEF Jar
<1>4. \A r \in Reply : \A k \in Slots : r.tok[k] \in Nat \cup {Keep}
  BY DEF Reply
<1>5. jar \in Jar /\ \A k \in Slots : row[k] \in Nat
  BY DEF TypeOK
<1> QED BY <1>1, <1>2, <1>3, <1>4, <1>5

\* The server answers.
LEMMA ServerKeeps ==
    ASSUME RefreshInv, NEW c \in Clients, ServerStep(c)
    PROVE  RefreshInv'
<1>0. TypeOK /\ SlotInv /\ PauseInv /\ ActiveInv /\ FreshInv
  BY DEF RefreshInv
<1>1. /\ UNCHANGED <<jar, tab, holder, trips, lost>>
      /\ msg[c].reply = Pending /\ msg[c].kind \in Kinds
  BY <1>0, ServerMoves
<1>2. PICK r \in Reply : /\ Served(c, r) /\ r.status # 0
                         /\ \/ /\ Plain(r) /\ Deletes
                               /\ msg[c].kind = "refresh" => r.status # 200
                            \/ \E k \in Slots : Rotates(c, k, r)
  BY <1>0, ServerMoves
<1>3. /\ \A d \in Clients \ {c} : msg'[d] = msg[d]
      /\ msg'[c] = IF c = Orphan THEN NoMsg ELSE [msg[c] EXCEPT !.reply = r]
      /\ msg' \in [Clients -> Msg]
  <2>1. msg \in [Clients -> Msg] /\ msg[c] \in Msg
    BY <1>0 DEF TypeOK, Clients
  <2>2. [msg[c] EXCEPT !.reply = r] \in Msg /\ NoMsg \in Msg
    BY <2>1, MsgIs
  <2> QED BY <1>2, <2>1, <2>2 DEF Served
<1>4. \/ msg'[c] = NoMsg
      \/ /\ msg'[c].kind = msg[c].kind /\ msg'[c].slot = msg[c].slot
         /\ msg'[c].jar = msg[c].jar /\ msg'[c].reply = r
  <2>1. msg[c] \in Msg
    BY <1>0 DEF TypeOK, Clients
  <2> QED BY <1>3, <2>1 DEF Msg
<1>5. TypeOK'
  <2>1. row' \in [Slots -> Nat] /\ grace' \in [Slots -> SUBSET Nat]
    <3>1. CASE Deletes
      BY <3>1 DEF Deletes
    <3>2. ASSUME NEW k \in Slots, Rotates(c, k, r)
          PROVE  row' \in [Slots -> Nat] /\ grace' \in [Slots -> SUBSET Nat]
      <4>1. /\ row' = [row EXCEPT ![k] = row[k] + 1] /\
                  grace' = [grace EXCEPT ![k] = grace[k] \cup {row[k]}]
        BY <3>2 DEF Rotates
      <4>2. row \in [Slots -> Nat] /\ grace \in [Slots -> SUBSET Nat] /\ row[k] + 1 \in Nat
            /\ grace[k] \cup {row[k]} \in SUBSET Nat
        BY <1>0 DEF TypeOK
      <4> QED BY <4>1, <4>2
    <3> QED BY <1>2, <3>1, <3>2
  <2> QED BY <1>0, <1>1, <1>3, <2>1 DEF TypeOK, Clients
<1>6. SlotInv' /\ PauseInv'
  BY <1>0, <1>1, <1>3, <1>4, MsgIs DEF SlotInv, PauseInv
<1>7. ActiveInv'
  <2>1. msg'[c].kind = "refresh" /\ msg'[c].reply.status = 200 => msg'[c].reply.active \in Slots
    <3>1. CASE msg'[c] = NoMsg
      BY <3>1, MsgIs
    <3>2. CASE msg'[c].kind = msg[c].kind /\ msg'[c].reply = r
      <4>1. ASSUME NEW k \in Slots, Rotates(c, k, r) PROVE r.active \in Slots
        <5>1. msg[c].jar \in Jar
          BY <1>0 DEF TypeOK, Clients, Msg
        <5> QED BY <1>0, <4>1, <5>1, IssuedIs DEF Rotates
      <4> QED BY <1>2, <3>2, <4>1
    <3> QED BY <1>4, <3>1, <3>2
  <2>2. \A d \in Clients : d # c => msg'[d] = msg[d]
    BY <1>3
  <2>3. ASSUME NEW d \in Clients, msg'[d].kind = "refresh", msg'[d].reply.status = 200
        PROVE  msg'[d].reply.active \in Slots
    <3>1. CASE d = c
      BY <2>1, <2>3, <3>1
    <3>2. CASE d # c
      BY <1>0, <2>2, <2>3, <3>2 DEF ActiveInv
    <3> QED BY <3>1, <3>2
  <2> QED BY <2>3 DEF ActiveInv
<1>8. FreshInv'
  <2>1. \A k \in Slots, d \in Clients : /\ msg'[d].jar.tok[k] \in {0, msg[d].jar.tok[k]}
                                        /\ d # c => (Sets(d, k)' <=> Sets(d, k))
                                        /\ d # c => msg'[d].reply = msg[d].reply
    <3>1. \A d \in Clients : d # c => msg'[d] = msg[d]
      BY <1>3
    <3>2. \A k \in Slots : msg'[c].jar.tok[k] \in {0, msg[c].jar.tok[k]}
      BY <1>4, NoMsgIs
    <3>3. \A k \in Slots, d \in Clients : d # c => (Sets(d, k)' <=> Sets(d, k))
      BY <3>1 DEF Sets
    <3> QED BY <3>1, <3>2, <3>3
  <2>2. CASE Plain(r) /\ Deletes
    <3>1. \A k \in Slots : ~Sets(c, k)'
      BY <1>4, <2>2, NoMsgIs DEF Sets, Plain
    <3>2. \A k \in Slots : row'[k] \in {0, row[k]}
      BY <2>2 DEF Deletes
    <3>3. \A k \in Slots, d \in Clients : Sets(d, k)' => d # c /\ Sets(d, k)
      BY <2>1, <3>1
    <3>4. ASSUME NEW k \in Slots, NEW d \in Clients, Sets(d, k)'
          PROVE  /\ row'[k] \in {0, msg'[d].reply.tok[k]} /\ jar'.tok[k] < msg'[d].reply.tok[k]
                 /\ \A e \in Clients : msg'[e].jar.tok[k] < msg'[d].reply.tok[k]
                 /\ \A e \in Clients : Sets(e, k)' => e = d
      <4>1. Sets(d, k) /\ d # c /\ msg'[d].reply = msg[d].reply
        BY <2>1, <3>3, <3>4
      <4>2. /\ row[k] \in {0, msg[d].reply.tok[k]} /\ jar.tok[k] < msg[d].reply.tok[k]
            /\ \A e \in Clients : msg[e].jar.tok[k] < msg[d].reply.tok[k]
            /\ \A e \in Clients : Sets(e, k) => e = d
        BY <1>0, <4>1 DEF FreshInv
      <4>3. jar.tok[k] \in Nat /\ msg[d].reply.tok[k] \in Nat \cup {Keep}
        BY <1>0, Tokens
      <4>4. \A e \in Clients : msg'[e].jar.tok[k] < msg[d].reply.tok[k]
        BY <2>1, <4>2, <4>3 DEF Keep
      <4> QED BY <1>1, <3>2, <3>3, <4>1, <4>2, <4>4
    <3>5. ASSUME NEW k \in Slots, row'[k] # 0
          PROVE  jar'.tok[k] <= row'[k] /\ \A d \in Clients : msg'[d].jar.tok[k] <= row'[k]
      <4>1. row'[k] = row[k] /\ row[k] # 0
        BY <3>2, <3>5
      <4>2. jar.tok[k] <= row[k] /\ \A d \in Clients : msg[d].jar.tok[k] <= row[k]
        BY <1>0, <4>1 DEF FreshInv
      <4>3. row[k] \in Nat
        BY <1>0, Tokens
      <4> QED BY <1>1, <2>1, <4>1, <4>2, <4>3
    <3> QED BY <3>4, <3>5 DEF FreshInv
  <2>3. ASSUME NEW k \in Slots, Rotates(c, k, r) PROVE FreshInv'
    <3>1. /\ msg[c].jar \in Jar /\ r.tok[k] = row[k] + 1 /\ row[k] # 0 /\ row[k] = msg[c].jar.tok[k]
          /\ row' = [row EXCEPT ![k] = row[k] + 1]
          /\ \A i \in Slots \ {k} : r.tok[i] \in {0, Keep}
      <4>1. msg[c].jar \in Jar
        BY <1>0 DEF TypeOK, Clients, Msg
      <4>2. r = Issued(msg[c].jar, k)
        BY <2>3 DEF Rotates
      <4> QED BY <1>0, <2>3, <4>1, <4>2, IssuedIs DEF Rotates
    <3>2. row'[k] = row[k] + 1 /\ \A i \in Slots \ {k} : row'[i] = row[i]
      BY <1>0, <3>1 DEF TypeOK
    <3>3. \A d \in Clients : ~Sets(d, k)
      <4>1. ASSUME NEW d \in Clients, Sets(d, k) PROVE FALSE
        <5>1. row[k] \in {0, msg[d].reply.tok[k]} /\ msg[c].jar.tok[k] < msg[d].reply.tok[k]
          BY <1>0, <4>1 DEF FreshInv
        <5>2. row[k] \in Nat /\ msg[c].jar.tok[k] \in Nat /\ msg[d].reply.tok[k] \in Nat \cup {Keep}
          BY <1>0, Tokens
        <5> QED BY <3>1, <5>1, <5>2 DEF Keep
      <4> QED BY <4>1
    <3>4. \A i \in Slots \ {k} : ~Sets(c, i)'
      BY <1>4, <3>1, NoMsgIs DEF Sets
    <3>5. \A i \in Slots \ {k} : \A d \in Clients : Sets(d, i)' => d # c /\ Sets(d, i)
      BY <2>1, <3>4
    <3>6. ASSUME NEW i \in Slots \ {k}
          PROVE  /\ \A d \in Clients : Sets(d, i)' =>
                      /\ row'[i] \in {0, msg'[d].reply.tok[i]} /\ jar'.tok[i] < msg'[d].reply.tok[i]
                      /\ \A e \in Clients : msg'[e].jar.tok[i] < msg'[d].reply.tok[i]
                      /\ \A e \in Clients : Sets(e, i)' => e = d
                 /\ row'[i] # 0 => /\ jar'.tok[i] <= row'[i]
                                   /\ \A d \in Clients : msg'[d].jar.tok[i] <= row'[i]
      <4>1. row'[i] = row[i] /\ jar' = jar
        BY <1>1, <3>2
      <4>2. ASSUME NEW d \in Clients, Sets(d, i)'
            PROVE  /\ row'[i] \in {0, msg'[d].reply.tok[i]} /\ jar'.tok[i] < msg'[d].reply.tok[i]
                   /\ \A e \in Clients : msg'[e].jar.tok[i] < msg'[d].reply.tok[i]
                   /\ \A e \in Clients : Sets(e, i)' => e = d
        <5>1. Sets(d, i) /\ d # c /\ msg'[d].reply = msg[d].reply
          BY <2>1, <3>5, <4>2
        <5>2. /\ row[i] \in {0, msg[d].reply.tok[i]} /\ jar.tok[i] < msg[d].reply.tok[i]
              /\ \A e \in Clients : msg[e].jar.tok[i] < msg[d].reply.tok[i]
              /\ \A e \in Clients : Sets(e, i) => e = d
          BY <1>0, <5>1 DEF FreshInv
        <5>3. msg[d].reply.tok[i] \in Nat \cup {Keep} /\ jar.tok[i] \in Nat
          BY <1>0, Tokens
        <5>4. \A e \in Clients : msg'[e].jar.tok[i] < msg[d].reply.tok[i]
          BY <2>1, <5>2, <5>3 DEF Keep
        <5> QED BY <3>5, <4>1, <5>1, <5>2, <5>4
      <4>3. ASSUME row'[i] # 0, NEW d \in Clients
            PROVE  jar'.tok[i] <= row'[i] /\ msg'[d].jar.tok[i] <= row'[i]
        <5>1. jar.tok[i] <= row[i] /\ msg[d].jar.tok[i] <= row[i]
          BY <1>0, <4>1, <4>3 DEF FreshInv
        <5>2. row[i] \in Nat /\ msg'[d].jar.tok[i] \in {0, msg[d].jar.tok[i]}
          BY <1>0, <2>1, Tokens
        <5> QED BY <4>1, <5>1, <5>2
      <4>4. row'[i] # 0 => jar'.tok[i] <= row'[i]
        BY <1>0, <4>1 DEF FreshInv
      <4> QED BY <4>2, <4>3, <4>4
    <3>7. /\ jar'.tok[k] <= row[k] /\ \A d \in Clients : msg'[d].jar.tok[k] <= row[k]
      <4>1. jar.tok[k] <= row[k] /\ \A d \in Clients : msg[d].jar.tok[k] <= row[k]
        BY <1>0, <3>1 DEF FreshInv
      <4>2. row[k] \in Nat
        BY <1>0, Tokens
      <4> QED BY <1>1, <2>1, <4>1, <4>2
    <3>8. /\ \A d \in Clients : Sets(d, k)' => d = c /\ msg'[c].reply.tok[k] = row[k] + 1
      <4>1. \A d \in Clients : Sets(d, k)' => d = c
        BY <2>1, <3>3
      <4>2. Sets(c, k)' => msg'[c].reply.tok[k] = row[k] + 1
        BY <1>4, <3>1, NoMsgIs DEF Sets
      <4> QED BY <4>1, <4>2
    <3>9. /\ jar'.tok[k] < row[k] + 1 /\ \A d \in Clients : msg'[d].jar.tok[k] < row[k] + 1
          /\ jar'.tok[k] <= row[k] + 1 /\ \A d \in Clients : msg'[d].jar.tok[k] <= row[k] + 1
      <4>1. row[k] \in Nat /\ jar'.tok[k] \in Nat /\ \A d \in Clients : msg'[d].jar.tok[k] \in Nat
        BY <1>0, <1>1, <2>1, Tokens
      <4> QED BY <3>7, <4>1
    <3> QED BY <3>2, <3>6, <3>8, <3>9 DEF FreshInv
  <2> QED BY <1>2, <2>2, <2>3
<1> QED BY <1>5, <1>6, <1>7, <1>8 DEF RefreshInv

\* A grace ends.
LEMMA GraceKeeps ==
    ASSUME RefreshInv, NEW k \in Slots, NEW g \in grace[k], GraceEnds(k, g)
    PROVE  RefreshInv'
<1>1. /\ UNCHANGED <<row, jar, tab, holder, msg, trips, lost>>
      /\ grace' = [grace EXCEPT ![k] = grace[k] \ {g}]
  BY DEF GraceEnds
<1>2. TypeOK'
  BY <1>1 DEF RefreshInv, TypeOK
<1> QED BY <1>1, <1>2 DEF RefreshInv, SlotInv, PauseInv, ActiveInv, FreshInv, Sets

\* What a page takes of a reply: its token is new, and that of no other reply.
LEMMA TakenIs ==
    ASSUME RefreshInv, NEW t \in Tabs, jar' = Applied(jar, msg[t].reply)
    PROVE  \A k \in Slots :
              \/ ~Sets(t, k) /\ jar'.tok[k] \in {0, jar.tok[k]}
              \/ Sets(t, k) /\ jar'.tok[k] = msg[t].reply.tok[k]
<1>1. jar \in Jar /\ msg[t].reply \in Reply /\ jar' = Applied(jar, msg[t].reply)
  BY DEF RefreshInv, TypeOK, Msg
<1>2. \A k \in Slots : jar'.tok[k] = IF msg[t].reply.tok[k] = Keep THEN jar.tok[k]
                                     ELSE msg[t].reply.tok[k]
  BY <1>1, AppliedIs
<1> QED BY <1>2 DEF Sets

\* The steps of a page keep what the requests and the jar carry.
LEMMA PageKeepsFresh ==
    ASSUME RefreshInv, NEW t \in Tabs, row' = row,
           (jar' = jar /\ msg' = msg) \/ Sends(t) \/ Takes(t) \/ LeavesBehind(t)
    PROVE  FreshInv'
<1>0. TypeOK /\ FreshInv /\ t \in Clients
  BY DEF RefreshInv, Clients
<1>1. CASE jar' = jar /\ msg' = msg
  BY <1>0, <1>1 DEF FreshInv, Sets
<1>2. CASE Sends(t)
  <2>1. PICK m \in Msg : Request(m) /\ m.jar = jar /\ msg' = [msg EXCEPT ![t] = m] /\ jar' = jar
    BY <1>2 DEF Sends
  <2>2. /\ msg'[t] = m /\ \A d \in Clients : d # t => msg'[d] = msg[d]
    BY <1>0, <2>1 DEF TypeOK, Clients
  <2>3. \A k \in Slots : ~Sets(t, k)'
    BY <2>1, <2>2, NoMsgIs DEF Sets, Request
  <2>4. \A k \in Slots, d \in Clients : Sets(d, k)' => d # t /\ Sets(d, k)
    <3>1. \A k \in Slots, d \in Clients : d # t => (Sets(d, k)' <=> Sets(d, k))
      BY <2>2 DEF Sets
    <3> QED BY <2>3, <3>1
  <2>5. \A k \in Slots, d \in Clients : msg'[d].jar.tok[k] \in {jar.tok[k], msg[d].jar.tok[k]}
    BY <2>1, <2>2
  <2>6. ASSUME NEW k \in Slots, NEW d \in Clients, Sets(d, k)'
        PROVE  /\ row'[k] \in {0, msg'[d].reply.tok[k]} /\ jar'.tok[k] < msg'[d].reply.tok[k]
               /\ \A e \in Clients : msg'[e].jar.tok[k] < msg'[d].reply.tok[k]
               /\ \A e \in Clients : Sets(e, k)' => e = d
    <3>1. Sets(d, k) /\ msg'[d] = msg[d]
      BY <2>2, <2>4, <2>6
    <3>2. /\ row[k] \in {0, msg[d].reply.tok[k]} /\ jar.tok[k] < msg[d].reply.tok[k]
          /\ \A e \in Clients : msg[e].jar.tok[k] < msg[d].reply.tok[k]
          /\ \A e \in Clients : Sets(e, k) => e = d
      BY <1>0, <3>1 DEF FreshInv
    <3> QED BY <2>1, <2>4, <2>5, <3>1, <3>2
  <2>7. ASSUME NEW k \in Slots, row'[k] # 0
        PROVE  jar'.tok[k] <= row'[k] /\ \A d \in Clients : msg'[d].jar.tok[k] <= row'[k]
    <3>1. jar.tok[k] <= row[k] /\ \A d \in Clients : msg[d].jar.tok[k] <= row[k]
      BY <1>0, <2>7 DEF FreshInv
    <3> QED BY <2>1, <2>5, <3>1
  <2> QED BY <2>6, <2>7 DEF FreshInv
<1>3. CASE Takes(t)
  <2>1. PICK m \in Msg : Request(m) /\ m.jar \in {NoJar, jar'} /\ msg' = [msg EXCEPT ![t] = m]
    BY <1>3 DEF Takes
  <2>2. /\ msg'[t] = m /\ \A d \in Clients : d # t => msg'[d] = msg[d]
    BY <1>0, <2>1 DEF TypeOK, Clients
  <2>3. \A k \in Slots : ~Sets(t, k)'
    BY <2>1, <2>2, NoMsgIs DEF Sets, Request
  <2>4. \A k \in Slots, d \in Clients : Sets(d, k)' => d # t /\ Sets(d, k)
    <3>1. \A k \in Slots, d \in Clients : d # t => (Sets(d, k)' <=> Sets(d, k))
      BY <2>2 DEF Sets
    <3> QED BY <2>3, <3>1
  <2>5. \A k \in Slots, d \in Clients : msg'[d].jar.tok[k] \in {0, jar'.tok[k], msg[d].jar.tok[k]}
    <3>1. \A k \in Slots : m.jar.tok[k] \in {0, jar'.tok[k]}
      BY <2>1, NoMsgIs
    <3> QED BY <2>2, <3>1
  <2>6. ASSUME NEW k \in Slots, NEW d \in Clients, Sets(d, k)'
        PROVE  /\ row'[k] \in {0, msg'[d].reply.tok[k]} /\ jar'.tok[k] < msg'[d].reply.tok[k]
               /\ \A e \in Clients : msg'[e].jar.tok[k] < msg'[d].reply.tok[k]
               /\ \A e \in Clients : Sets(e, k)' => e = d
    <3>1. Sets(d, k) /\ d # t /\ msg'[d] = msg[d]
      BY <2>2, <2>4, <2>6
    <3>2. /\ row[k] \in {0, msg[d].reply.tok[k]} /\ jar.tok[k] < msg[d].reply.tok[k]
          /\ \A e \in Clients : msg[e].jar.tok[k] < msg[d].reply.tok[k]
          /\ \A e \in Clients : Sets(e, k) => e = d
      BY <1>0, <3>1 DEF FreshInv
    <3>3. jar'.tok[k] \in {0, jar.tok[k]}
      BY <1>0, <1>3, <3>1, <3>2, TakenIs DEF Takes
    <3>4. jar.tok[k] \in Nat /\ msg[d].reply.tok[k] \in Nat \cup {Keep}
      BY <1>0, Tokens
    <3>5. 0 < msg[d].reply.tok[k] /\ jar'.tok[k] < msg[d].reply.tok[k]
      BY <3>2, <3>3, <3>4 DEF Keep
    <3>6. \A e \in Clients : msg'[e].jar.tok[k] < msg'[d].reply.tok[k]
      BY <2>5, <3>1, <3>2, <3>5
    <3>7. \A e \in Clients : Sets(e, k)' => e = d
      BY <2>4, <3>2
    <3> QED BY <3>1, <3>2, <3>5, <3>6, <3>7
  <2>7. ASSUME NEW k \in Slots, row'[k] # 0
        PROVE  jar'.tok[k] <= row'[k] /\ \A d \in Clients : msg'[d].jar.tok[k] <= row'[k]
    <3>1. jar.tok[k] <= row[k] /\ \A d \in Clients : msg[d].jar.tok[k] <= row[k]
      BY <1>0, <2>7 DEF FreshInv
    <3>2. row[k] \in Nat
      BY <1>0, Tokens
    <3>3. jar'.tok[k] <= row[k]
      <4>1. CASE Sets(t, k)
        <5>1. jar'.tok[k] = msg[t].reply.tok[k]
          BY <1>3, <4>1, TakenIs DEF Takes
        <5>2. row[k] = msg[t].reply.tok[k]
          BY <1>0, <2>7, <4>1 DEF FreshInv
        <5> QED BY <3>2, <5>1, <5>2
      <4>2. CASE ~Sets(t, k)
        <5>1. jar'.tok[k] \in {0, jar.tok[k]}
          BY <1>3, <4>2, TakenIs DEF Takes
        <5> QED BY <3>1, <3>2, <5>1
      <4> QED BY <4>1, <4>2
    <3> QED BY <2>5, <3>1, <3>2, <3>3
  <2> QED BY <2>6, <2>7 DEF FreshInv
<1>4. CASE LeavesBehind(t)
  <2>1. PICK o \in {NoMsg, msg[t]} : o.reply = Pending /\
        msg' = [msg EXCEPT ![t] = NoMsg, ![Orphan] = o]
    BY <1>4 DEF LeavesBehind
  <2>2. \A d \in Clients : msg'[d] \in {msg[d], NoMsg, o}
    BY <1>0, <2>1 DEF TypeOK, Clients
  <2>3. \A k \in Slots, d \in Clients : Sets(d, k)' => Sets(d, k) /\ msg'[d].reply = msg[d].reply
    BY <2>1, <2>2, NoMsgIs DEF Sets
  <2>4. \A k \in Slots, d \in Clients :
            msg'[d].jar.tok[k] \in {0, msg[d].jar.tok[k], msg[t].jar.tok[k]}
    BY <2>1, <2>2, NoMsgIs
  <2>5. jar' = jar
    BY <1>4 DEF LeavesBehind
  <2>6. ASSUME NEW k \in Slots, NEW d \in Clients, Sets(d, k)'
        PROVE  /\ row'[k] \in {0, msg'[d].reply.tok[k]} /\ jar'.tok[k] < msg'[d].reply.tok[k]
               /\ \A e \in Clients : msg'[e].jar.tok[k] < msg'[d].reply.tok[k]
               /\ \A e \in Clients : Sets(e, k)' => e = d
    <3>1. Sets(d, k) /\ msg'[d].reply = msg[d].reply
      BY <2>3, <2>6
    <3>2. /\ row[k] \in {0, msg[d].reply.tok[k]} /\ jar.tok[k] < msg[d].reply.tok[k]
          /\ \A e \in Clients : msg[e].jar.tok[k] < msg[d].reply.tok[k]
          /\ \A e \in Clients : Sets(e, k) => e = d
      BY <1>0, <3>1 DEF FreshInv
    <3>3. 0 < msg[d].reply.tok[k]
      <4>1. jar.tok[k] \in Nat /\ msg[d].reply.tok[k] \in Nat \cup {Keep}
        BY <1>0, Tokens
      <4> QED BY <3>2, <4>1 DEF Keep
    <3>4. \A e \in Clients : msg'[e].jar.tok[k] < msg'[d].reply.tok[k]
      BY <1>0, <2>4, <3>1, <3>2, <3>3
    <3> QED BY <2>3, <2>5, <3>1, <3>2, <3>4
  <2>7. ASSUME NEW k \in Slots, row'[k] # 0
        PROVE  jar'.tok[k] <= row'[k] /\ \A d \in Clients : msg'[d].jar.tok[k] <= row'[k]
    <3>1. jar.tok[k] <= row[k] /\ \A d \in Clients : msg[d].jar.tok[k] <= row[k]
      BY <1>0, <2>7 DEF FreshInv
    <3>2. row[k] \in Nat
      BY <1>0, Tokens
    <3> QED BY <1>0, <2>4, <2>5, <3>1, <3>2
  <2> QED BY <2>6, <2>7 DEF FreshInv
<1> QED BY <1>1, <1>2, <1>3, <1>4

\* A page sends, reads a reply, or goes away.
LEMMA PageKeeps ==
    ASSUME RefreshAssumption, RefreshInv, NEW t \in Tabs, Pages(t)
    PROVE  RefreshInv'
<1>0. TypeOK /\ SlotInv /\ PauseInv /\ ActiveInv /\ t \in Clients /\ jar \in Jar
  BY DEF RefreshInv, Clients, TypeOK
<1>1. PageTypes(t)
  BY <1>0, PageMoves
<1>2. FreshInv'
  BY <1>1, PageKeepsFresh DEF PageTypes
<1>3. PICK T \in Tab : tab' = [tab EXCEPT ![t] = T] /\ (T.pc = "pause" => T.attempt < MaxAttempts)
  BY <1>1 DEF PageTypes
<1>4. PauseInv' /\ tab' \in [Tabs -> Tab]
  BY <1>0, <1>3 DEF PauseInv, TypeOK
<1>5. /\ jar' \in Jar /\ msg' \in [Clients -> Msg]
      /\ \A d \in Clients : \/ msg'[d] = msg[d]
                            \/ msg'[d].reply = Pending /\ (msg'[d].kind \in {"switch", "remove"}
                                                              => msg'[d].slot \in Slots)
  <2>0. msg \in [Clients -> Msg]
    BY <1>0 DEF TypeOK, Clients
  <2>1. CASE UNCHANGED <<jar, msg>>
    BY <1>0, <2>0, <2>1
  <2>2. CASE Sends(t) \/ Takes(t)
    <3>1. PICK m \in Msg : Request(m) /\ msg' = [msg EXCEPT ![t] = m]
      BY <2>2 DEF Sends, Takes
    <3>2. jar' \in Jar
      <4>1. msg[t].reply \in Reply
        BY <1>0, <2>0 DEF Msg
      <4> QED BY <1>0, <2>2, <4>1, AppliedIs DEF Sends, Takes
    <3> QED BY <1>0, <2>0, <3>1, <3>2 DEF Request
  <2>3. CASE LeavesBehind(t)
    <3>1. PICK o \in {NoMsg, msg[t]} : o.reply = Pending /\
          msg' = [msg EXCEPT ![t] = NoMsg, ![Orphan] = o]
      BY <2>3 DEF LeavesBehind
    <3>2. NoMsg \in Msg /\ o \in Msg
      BY <1>0, <2>0, <3>1, NoMsgIs
    <3>3. o.kind \in {"switch", "remove"} => o.slot \in Slots
      BY <1>0, <3>1, NoMsgIs DEF SlotInv
    <3> QED BY <1>0, <2>0, <2>3, <3>1, <3>2, <3>3, NoMsgIs DEF LeavesBehind
  <2> QED BY <1>1, <2>1, <2>2, <2>3 DEF PageTypes
<1>6. TypeOK'
  <2>1. /\ UNCHANGED <<row, grace>> /\ holder' \in {holder, t, NoTab}
        /\ trips' \in 0 .. MaxTrips /\ lost' \in 0 .. MaxLost
    BY <1>1 DEF PageTypes
  <2> QED BY <1>0, <1>4, <1>5, <2>1 DEF TypeOK, Clients
<1>7. SlotInv' /\ ActiveInv'
  <2>1. Pending.status # 200
    BY NoMsgIs
  <2> QED BY <1>0, <1>5, <2>1 DEF SlotInv, ActiveInv
<1> QED BY <1>2, <1>4, <1>6, <1>7 DEF RefreshInv

\* The start: every session has its first token, and the browser has it.
LEMMA RefreshStarts == RefreshAssumption /\ Init => RefreshInv
<1>a. SUFFICES ASSUME RefreshAssumption, Init PROVE RefreshInv
  OBVIOUS
<1>1. /\ row = [k \in Slots |-> 1] /\ grace = [k \in Slots |-> {}] /\ 1 \in Slots
      /\ jar = [tok |-> row, active |-> 1, access |-> NoAccess]
      /\ tab = [t \in Tabs |-> Loading("app")] /\ holder = NoTab
      /\ msg = [c \in Clients |-> NoMsg] /\ trips = 0 /\ lost = 0
  BY <1>a DEF Init, RefreshAssumption, Clients
<1>2. NoAccess \in Access
  BY DEF Access
<1>3. jar \in Jar /\ \A k \in Slots : jar.tok[k] = 1 /\ row[k] = 1
  BY <1>1, <1>2 DEF Jar
<1>4. Loading("app") \in Tab /\ Loading("app").pc = "load"
  BY <1>a, TabIs
<1>5. TypeOK
  <2>1. tab \in [Tabs -> Tab] /\ msg \in [Clients -> Msg]
    BY <1>1, <1>4, NoMsgIs
  <2>2. trips \in 0 .. MaxTrips /\ lost \in 0 .. MaxLost
    BY <1>a, <1>1 DEF RefreshAssumption
  <2>3. row \in [Slots -> Nat] /\ grace \in [Slots -> SUBSET Nat]
    BY <1>1
  <2> QED BY <1>1, <1>3, <2>1, <2>2, <2>3 DEF TypeOK, Clients
<1>6. SlotInv /\ ActiveInv
  BY <1>1, NoMsgIs DEF SlotInv, ActiveInv
<1>7. PauseInv
  BY <1>1, <1>4 DEF PauseInv
<1>8. FreshInv
  <2>1. \A k \in Slots, c \in Clients : ~Sets(c, k) /\ msg[c].jar.tok[k] = 0
    BY <1>1, NoMsgIs DEF Sets
  <2>2. ASSUME NEW k \in Slots
        PROVE  jar.tok[k] <= row[k] /\ \A d \in Clients : msg[d].jar.tok[k] <= row[k]
    <3>1. jar.tok[k] = 1 /\ row[k] = 1 /\ \A d \in Clients : msg[d].jar.tok[k] = 0
      BY <1>3, <2>1
    <3> QED BY <3>1
  <2> QED BY <2>1, <2>2 DEF FreshInv
<1> QED BY <1>5, <1>6, <1>7, <1>8 DEF RefreshInv

LEMMA RefreshStep == RefreshAssumption /\ RefreshInv /\ [Next]_vars => RefreshInv'
<1>a. SUFFICES ASSUME RefreshAssumption, RefreshInv, [Next]_vars PROVE RefreshInv'
  OBVIOUS
<1>1. CASE UNCHANGED vars
  BY <1>a, <1>1 DEF vars, RefreshInv, TypeOK, SlotInv, PauseInv, ActiveInv, FreshInv, Sets
<1>2. ASSUME NEW c \in Clients, ServerStep(c) PROVE RefreshInv'
  BY <1>a, <1>2, ServerKeeps
<1>3. ASSUME NEW k \in Slots, NEW g \in grace[k], GraceEnds(k, g) PROVE RefreshInv'
  BY <1>a, <1>3, GraceKeeps
<1>4. ASSUME NEW t \in Tabs, Pages(t) PROVE RefreshInv'
  BY <1>a, <1>4, PageKeeps
<1> QED BY <1>a, <1>1, <1>2, <1>3, <1>4 DEF Next, Clients, Pages

\* The token of a slot does not go back.
LEMMA JarStep ==
    RefreshAssumption /\ RefreshInv /\ [Next]_vars
        => \A k \in Slots : jar'.tok[k] # 0 => jar'.tok[k] >= jar.tok[k]
<1>a. SUFFICES ASSUME RefreshAssumption, RefreshInv, [Next]_vars,
                      NEW k \in Slots, jar'.tok[k] # 0
               PROVE  jar'.tok[k] >= jar.tok[k]
  OBVIOUS
<1>0. TypeOK /\ SlotInv /\ PauseInv /\ ActiveInv /\ FreshInv /\ jar.tok[k] \in Nat
  BY <1>a, Tokens DEF RefreshInv
<1>1. CASE jar' = jar
  BY <1>0, <1>1
<1>2. ASSUME NEW c \in Clients, ServerStep(c) PROVE jar' = jar
  BY <1>0, <1>2, ServerMoves
<1>3. ASSUME NEW t \in Tabs, Pages(t) PROVE jar'.tok[k] >= jar.tok[k]
  <2>1. PageTypes(t) /\ t \in Clients
    BY <1>a, <1>0, <1>3, PageMoves DEF Clients
  <2>2. CASE Takes(t)
    <3>1. CASE Sets(t, k)
      <4>1. jar'.tok[k] = msg[t].reply.tok[k] /\ jar.tok[k] < msg[t].reply.tok[k]
        BY <1>a, <1>0, <2>1, <2>2, <3>1, TakenIs DEF Takes, FreshInv
      <4>2. msg[t].reply.tok[k] \in Nat \cup {Keep}
        BY <1>0, <2>1, Tokens
      <4> QED BY <1>0, <4>1, <4>2 DEF Keep
    <3>2. CASE ~Sets(t, k)
      BY <1>a, <1>0, <2>2, <3>2, TakenIs DEF Takes
    <3> QED BY <3>1, <3>2
  <2>3. CASE jar' = jar
    BY <1>1, <2>3
  <2> QED BY <2>1, <2>2, <2>3 DEF PageTypes, Sends, LeavesBehind
<1>4. ASSUME NEW i \in Slots, NEW g \in grace[i], GraceEnds(i, g) PROVE jar' = jar
  BY <1>4 DEF GraceEnds
<1>5. UNCHANGED vars => jar' = jar
  BY DEF vars
<1> QED BY <1>a, <1>1, <1>2, <1>3, <1>4, <1>5 DEF Next, Clients, Pages

\* Every reachable state of the browser and the server has its type.
THEOREM RefreshTypes == ASSUME RefreshAssumption PROVE Spec => []TypeOK
<1>1. Init => RefreshInv
  BY RefreshStarts
<1>2. RefreshInv /\ [Next]_vars => RefreshInv'
  BY RefreshStep
<1>3. RefreshInv => TypeOK
  BY DEF RefreshInv
<1> QED BY <1>1, <1>2, <1>3, PTL DEF Spec

\* Through races, late replies, reloads and lost requests the refresh cookie of a slot never
\* goes back to an earlier token (resolve_refresh_token_for_rotation, auth/models.py:267).
THEOREM JarKept == ASSUME RefreshAssumption PROVE Spec => JarNeverGoesBack
<1>1. Init => RefreshInv
  BY RefreshStarts
<1>2. RefreshInv /\ [Next]_vars => RefreshInv'
  BY RefreshStep
<1>3. RefreshInv /\ [Next]_vars
          => [\A k \in Slots : jar'.tok[k] # 0 => jar'.tok[k] >= jar.tok[k]]_vars
  BY JarStep
<1> QED BY <1>1, <1>2, <1>3, PTL DEF Spec, JarNeverGoesBack

-----------------------------------------------------------------------------
(* When no request is given up.                                            *)

\* A page waits for the reply to the one request it made, and nobody else has one.
PcInv == /\ msg[Orphan] = NoMsg
         /\ \A t \in Tabs : IF tab[t].pc \in Kinds THEN msg[t].kind = tab[t].pc
                            ELSE msg[t] = NoMsg

\* The steps of a refresh: with Web Locks and no timeout, those of the lock's holder.
Inside == {"send", "refresh", "pause"}

\* A page that waits for nothing may send a request with the cookies of the jar; one that
\* waits takes the reply, after which it may send its call again.
PageTurns(t) ==
    /\ \E T \in Tab, m \in Msg :
          /\ tab' = [tab EXCEPT ![t] = T] /\ msg' = [msg EXCEPT ![t] = m] /\ m.reply = Pending
          /\ \/ T.pc \notin Kinds /\ m = NoMsg
             \/ T.pc \in Kinds /\ T.pc = m.kind /\ m.kind \in Requests \cup {"refresh", "call"}
          /\ m.kind # "none" => m.jar = jar'
          /\ m.kind = "refresh" => tab[t].pc = "send"
    /\ \/ jar' = jar /\ msg[t] = NoMsg
       \/ tab[t].pc \in Kinds /\ jar' = Applied(jar, msg[t].reply)

LockTurns(t) ==
    \/ holder' = holder /\ (tab'[t].pc \in Inside => tab[t].pc \in Inside)
    \/ holder = NoTab /\ holder' = t
    \/ Release(t) /\ tab'[t].pc \notin Inside

\* Every step of a page does one of these when nothing can be given up.
LEMMA PageSays ==
    ASSUME RefreshAssumption, MaxLost = 0, TypeOK, SlotInv, PauseInv, ActiveInv, PcInv,
           NEW t \in Tabs, Pages(t)
    PROVE  PageTurns(t) /\ (WebLocks /\ ~LockTimeouts => LockTurns(t))
<1>0. /\ tab[t] \in Tab /\ msg[t] \in Msg /\ jar \in Jar /\ msg[t].reply \in Reply
      /\ tab \in [Tabs -> Tab] /\ t \in Tabs \cup {Orphan} /\ lost = 0
  BY DEF TypeOK, Msg
<1>1. ~GiveUp(t)
  BY <1>0 DEF GiveUp
<1>2. NoMsg \in Msg /\ NoMsg.kind = "none" /\ NoMsg.reply = Pending
  BY NoMsgIs
\* Nothing is sent or received.
<1>3. ASSUME NEW T \in Tab, tab' = [tab EXCEPT ![t] = T], T.pc \notin Kinds, UNCHANGED <<jar, msg>>,
             msg[t] = NoMsg
      PROVE  PageTurns(t) /\ tab'[t].pc = T.pc
  <2>1. msg' = [msg EXCEPT ![t] = NoMsg]
    BY <1>0, <1>3 DEF TypeOK
  <2> QED BY <1>0, <1>2, <1>3, <2>1 DEF PageTurns
\* A request is sent.
<1>4. ASSUME NEW kind \in Requests \cup {"refresh"}, NEW slot \in Slots \cup {0},
             Send(t, kind, slot),
             jar' = jar, tab' = [tab EXCEPT ![t] = [tab[t] EXCEPT !.pc = kind]], msg[t] = NoMsg,
             kind = "refresh" => tab[t].pc = "send"
      PROVE  PageTurns(t) /\ tab'[t].pc = kind
  <2> DEFINE m == Asked(kind, slot, jar)
             T == [tab[t] EXCEPT !.pc = kind]
  <2>1. m \in Msg /\ m.reply = Pending /\ m.jar = jar /\ m.kind = kind
    <3>1. \A q \in Kinds : \A i \in Slots \cup {0} : \A j \in Jar :
              LET n == Asked(q, i, j)
              IN  n \in Msg /\ n.reply = Pending /\ n.jar = j /\ n.kind = q /\ n.slot = i
      BY MsgIs
    <3>2. kind \in Kinds
      BY DEF RefreshAssumption, Kinds
    <3> QED BY <1>0, <3>1, <3>2
  <2>2. msg' = [msg EXCEPT ![t] = m]
    BY <1>4 DEF Send, Asked
  <2>3. T \in Tab /\ T.pc = kind /\ kind \in Kinds
    BY <1>0 DEF Tab, RefreshAssumption, Kinds
  <2>4. tab' = [tab EXCEPT ![t] = T]
    BY <1>4
  <2> HIDE DEF m, T
  <2> QED BY <1>0, <1>4, <2>1, <2>2, <2>3, <2>4 DEF PageTurns
\* A reply is taken.
<1>5. ASSUME NEW kind \in Kinds, Arrived(t, kind), NEW T \in Tab, T.pc \notin Kinds,
             tab' = [tab EXCEPT ![t] = T], msg' = [msg EXCEPT ![t] = NoMsg]
      PROVE  PageTurns(t) /\ tab'[t].pc = T.pc
  BY <1>0, <1>2, <1>5 DEF PageTurns, Arrived
<1>6. \A q \in {"send", "pause", "ready", "load", "lock", "out"} : q \notin Kinds
  BY DEF Kinds
<1>7. ASSUME tab[t].pc \in {"send", "pause", "ready", "load", "lock", "out"} PROVE msg[t] = NoMsg
  BY <1>6, <1>7 DEF PcInv
<1>8. CASE Bootstrap(t)
  <2>1. /\ Asking(tab[t], "load") \in Tab /\ Asking(tab[t], "load").pc \in {"lock", "send"}
        /\ WebLocks => Asking(tab[t], "load").pc = "lock"
    <3>1. WebLocks => Asking(tab[t], "load").pc = "lock"
      BY <1>0 DEF Asking, Tab
    <3> QED BY <1>0, <3>1, TabIs
  <2>2. /\ tab' = [tab EXCEPT ![t] = Asking(tab[t], "load")] /\ tab[t].pc = "load"
        /\ UNCHANGED <<jar, msg, holder>>
    BY <1>8 DEF Bootstrap
  <2>3. PageTurns(t) /\ tab'[t].pc = Asking(tab[t], "load").pc
    BY <1>3, <1>6, <1>7, <2>1, <2>2
  <2> QED BY <2>1, <2>2, <2>3 DEF LockTurns, Inside
<1>9. CASE SendRefresh(t)
  <2>1. /\ tab' = [tab EXCEPT ![t] = [tab[t] EXCEPT !.pc = "refresh"]] /\ tab[t].pc = "send"
        /\ Send(t, "refresh", 0) /\ UNCHANGED <<jar, holder>>
    BY <1>9 DEF SendRefresh
  <2>2. PageTurns(t)
    <3>1. "refresh" \in Requests \cup {"refresh"} /\ 0 \in Slots \cup {0}
      OBVIOUS
    <3> QED BY <1>4, <1>7, <2>1, <3>1
  <2> QED BY <2>1, <2>2 DEF LockTurns, Inside
<1>10. CASE RetryRefresh(t)
  <2> DEFINE T == [tab[t] EXCEPT !.pc = "send", !.attempt = @ + 1]
  <2>1. T \in Tab /\ T.pc = "send"
    <3>1. tab[t].attempt + 1 \in 0 .. MaxAttempts
      <4>1. tab[t].attempt < MaxAttempts /\ tab[t].attempt \in 0 .. MaxAttempts
        BY <1>0, <1>10 DEF RetryRefresh, PauseInv, Tab
      <4> QED BY <4>1 DEF RefreshAssumption
    <3> QED BY <1>0, <3>1 DEF Tab
  <2>2. tab' = [tab EXCEPT ![t] = T] /\ UNCHANGED <<jar, holder, msg>> /\ tab[t].pc = "pause"
    BY <1>10 DEF RetryRefresh
  <2> HIDE DEF T
  <2>3. PageTurns(t)
    BY <1>3, <1>6, <1>7, <2>1, <2>2
  <2> QED BY <2>2, <2>3 DEF LockTurns, Inside
<1>11. CASE RefreshReply(t)
  <2> DEFINE r == msg[t].reply
             seen == IF r.status = 200 THEN [tab[t] EXCEPT !.mine = r.active] ELSE tab[t]
             next == AfterRefresh(seen, r.status = 200)
  <2>0. Arrived(t, "refresh") /\ "refresh" \in Kinds
    BY <1>11 DEF RefreshReply, Kinds
  <2>1. CASE TriesAgain(t)
    <3>1. /\ tab' = [tab EXCEPT ![t] = [tab[t] EXCEPT !.pc = "pause"]]
          /\ msg' = [msg EXCEPT ![t] = NoMsg] /\ UNCHANGED holder
      BY <1>11, <2>1 DEF RefreshReply
    <3>2. [tab[t] EXCEPT !.pc = "pause"] \in Tab /\ [tab[t] EXCEPT !.pc = "pause"].pc = "pause"
      BY <1>0 DEF Tab
    <3>3. PageTurns(t)
      BY <1>5, <1>6, <2>0, <3>1, <3>2
    <3>4. tab[t].pc \in Inside
      BY <2>0 DEF Arrived, Inside
    <3> QED BY <3>1, <3>3, <3>4 DEF LockTurns
  <2>2. CASE ~TriesAgain(t)
    <3>1. /\ tab' = [tab EXCEPT ![t] = next] /\ Release(t)
          /\ msg' = IF next.pc = "call"
                    THEN [msg EXCEPT ![t] = [NoMsg EXCEPT !.kind = "call", !.jar = Applied(jar, r)]]
                    ELSE [msg EXCEPT ![t] = NoMsg]
      BY <1>11, <2>2 DEF RefreshReply
    <3>2. next \in Tab /\ next.pc \in {"out", "load", "call", "ready"}
      <4>1. seen \in Tab
        <5>1. CASE r.status = 200
          <6>1. msg[t].kind = "refresh" /\ t \in Clients
            BY <2>0 DEF Arrived, Clients
          <6>2. r.active \in Slots \cup {0}
            BY <5>1, <6>1 DEF ActiveInv
          <6> QED BY <1>0, <5>1, <6>2 DEF Tab
        <5> QED BY <1>0, <5>1
      <4> QED BY <4>1, TabIs
    <3> HIDE DEF next
    <3>3. tab'[t] = next
      BY <1>0, <3>1
    <3>4. PageTurns(t)
      <4>1. CASE next.pc = "call"
        <5> DEFINE m == [NoMsg EXCEPT !.kind = "call", !.jar = Applied(jar, r)]
        <5>1. Applied(jar, r) \in Jar /\ "call" \in Kinds
          BY <1>0, AppliedIs DEF Kinds
        <5>2. m \in Msg /\ m.reply = Pending /\ m.jar = Applied(jar, r) /\ m.kind = "call"
          BY <5>1, MsgIs
        <5>3. msg' = [msg EXCEPT ![t] = m] /\ jar' = Applied(jar, r) /\ tab[t].pc \in Kinds
          BY <2>0, <3>1, <4>1 DEF Arrived
        <5> HIDE DEF m
        <5> QED BY <3>1, <3>2, <4>1, <5>1, <5>2, <5>3 DEF PageTurns
      <4>2. CASE next.pc # "call"
        BY <1>5, <1>6, <2>0, <3>1, <3>2, <4>2
      <4> QED BY <4>1, <4>2
    <3> QED BY <3>1, <3>2, <3>3, <3>4 DEF LockTurns, Inside
  <2> QED BY <2>1, <2>2
<1>12. ASSUME NEW kind \in {"call", "switch", "logout", "remove"}, Arrived(t, kind),
              UNCHANGED holder,
              NEW T \in Tab, T.pc \in {"lock", "send", "ready", "load"}, WebLocks => T.pc # "send",
              tab' = [tab EXCEPT ![t] = T], msg' = [msg EXCEPT ![t] = NoMsg]
       PROVE  PageTurns(t) /\ (WebLocks /\ ~LockTimeouts => LockTurns(t))
  <2>1. PageTurns(t) /\ tab'[t].pc = T.pc
    <3>1. kind \in Kinds
      BY DEF Kinds
    <3> QED BY <1>5, <1>6, <1>12, <3>1
  <2> QED BY <1>12, <2>1 DEF LockTurns, Inside
<1>13. \A w \in {"load", "call", "leave"} :
           /\ Asking(tab[t], w) \in Tab /\ Asking(tab[t], w).pc \in {"lock", "send"}
           /\ WebLocks => Asking(tab[t], w).pc # "send"
  <2>1. \A w \in {"load", "call", "leave"} : WebLocks => Asking(tab[t], w).pc # "send"
    BY <1>0 DEF Asking, Tab
  <2> QED BY <1>0, <2>1, TabIs
<1>14. /\ [tab[t] EXCEPT !.pc = "ready"] \in Tab /\ [tab[t] EXCEPT !.pc = "ready"].pc = "ready"
       /\ [tab[t] EXCEPT !.pc = "ready", !.retried = FALSE] \in Tab
       /\ [tab[t] EXCEPT !.pc = "ready", !.retried = FALSE].pc = "ready"
  BY <1>0 DEF Tab
<1>15. \A p \in {"app", "login"} : Loading(p) \in Tab /\ Loading(p).pc = "load"
  BY TabIs
<1>16. CASE CallReply(t)
  <2> DEFINE T == IF msg[t].reply.status = 401 /\ ~tab[t].retried THEN Asking(tab[t], "call")
                  ELSE [tab[t] EXCEPT !.pc = "ready", !.retried = FALSE]
  <2>1. T \in Tab /\ T.pc \in {"lock", "send", "ready", "load"} /\ (WebLocks => T.pc # "send")
    BY <1>13, <1>14
  <2>2. /\ tab' = [tab EXCEPT ![t] = T] /\ UNCHANGED holder
        /\ Arrived(t, "call") /\ msg' = [msg EXCEPT ![t] = NoMsg]
    BY <1>16 DEF CallReply
  <2> HIDE DEF T
  <2> QED BY <1>12, <2>1, <2>2
<1>17. CASE SwitchReply(t)
  <2> DEFINE T == IF msg[t].reply.status = 200 THEN Loading("app")
                  ELSE [tab[t] EXCEPT !.pc = "ready"]
  <2>1. T \in Tab /\ T.pc \in {"lock", "send", "ready", "load"} /\ (WebLocks => T.pc # "send")
    BY <1>14, <1>15
  <2>2. /\ tab' = [tab EXCEPT ![t] = T] /\ UNCHANGED holder
        /\ Arrived(t, "switch") /\ msg' = [msg EXCEPT ![t] = NoMsg]
    BY <1>17 DEF SwitchReply
  <2> HIDE DEF T
  <2> QED BY <1>12, <2>1, <2>2
<1>18. CASE LogoutReply(t)
  <2> DEFINE T == IF msg[t].reply.status = 200 THEN Asking(tab[t], "leave") ELSE Loading("login")
  <2>1. T \in Tab /\ T.pc \in {"lock", "send", "ready", "load"} /\ (WebLocks => T.pc # "send")
    BY <1>13, <1>15
  <2>2. /\ tab' = [tab EXCEPT ![t] = T] /\ UNCHANGED holder
        /\ Arrived(t, "logout") /\ msg' = [msg EXCEPT ![t] = NoMsg]
    BY <1>18 DEF LogoutReply
  <2> HIDE DEF T
  <2> QED BY <1>12, <2>1, <2>2
<1>19. CASE RemoveReply(t)
  <2> DEFINE T == IF msg[t].reply.status = 200 /\ msg[t].slot = tab[t].mine
                  THEN Asking(tab[t], "leave") ELSE [tab[t] EXCEPT !.pc = "ready"]
  <2>1. T \in Tab /\ T.pc \in {"lock", "send", "ready", "load"} /\ (WebLocks => T.pc # "send")
    BY <1>13, <1>14
  <2>2. /\ tab' = [tab EXCEPT ![t] = T] /\ UNCHANGED holder
        /\ Arrived(t, "remove") /\ msg' = [msg EXCEPT ![t] = NoMsg]
    BY <1>19 DEF RemoveReply
  <2> HIDE DEF T
  <2> QED BY <1>12, <2>1, <2>2
<1>20. CASE LockGranted(t) \/ LockTimesOut(t)
  <2>1. [tab[t] EXCEPT !.pc = "send"] \in Tab /\ [tab[t] EXCEPT !.pc = "send"].pc = "send"
    BY <1>0 DEF Tab
  <2>2. /\ tab' = [tab EXCEPT ![t] = [tab[t] EXCEPT !.pc = "send"]] /\ tab[t].pc = "lock"
        /\ UNCHANGED <<jar, msg>> /\ (LockTimeouts \/ (holder = NoTab /\ holder' = t))
    BY <1>20 DEF LockGranted, LockTimesOut
  <2>3. PageTurns(t)
    BY <1>3, <1>6, <1>7, <2>1, <2>2
  <2> QED BY <2>2, <2>3 DEF LockTurns
<1>21. ASSUME NEW kind \in {"call", "logout", "switch", "remove"}, NEW slot \in Slots \cup {0},
              UserAsks(t, kind, slot)
       PROVE  PageTurns(t) /\ (WebLocks /\ ~LockTimeouts => LockTurns(t))
  <2>1. /\ tab' = [tab EXCEPT ![t] = [tab[t] EXCEPT !.pc = kind]] /\ Send(t, kind, slot)
        /\ UNCHANGED <<jar, holder>> /\ tab[t].pc = "ready" /\ kind \in Requests /\ kind # "refresh"
    BY <1>21 DEF UserAsks
  <2>2. PageTurns(t) /\ tab'[t].pc = kind
    BY <1>4, <1>7, <2>1
  <2> QED BY <1>21, <2>1, <2>2 DEF LockTurns, Inside
<1>22. CASE Reload(t)
  <2>1. Loading(tab[t].page) \in Tab /\ Loading(tab[t].page).pc = "load"
    BY <1>0, <1>15 DEF Tab
  <2>2. /\ tab' = [tab EXCEPT ![t] = Loading(tab[t].page)] /\ Release(t) /\ UNCHANGED <<jar, msg>>
        /\ msg[t] = NoMsg
    BY <1>1, <1>22 DEF Reload
  <2>3. PageTurns(t) /\ tab'[t].pc = "load"
    <3>1. PICK T \in Tab : T = Loading(tab[t].page)
      BY <2>1
    <3>2. tab' = [tab EXCEPT ![t] = T] /\ T.pc = "load" /\ T.pc \notin Kinds
      BY <1>6, <2>1, <2>2, <3>1
    <3> QED BY <1>3, <2>2, <3>2
  <2> QED BY <2>2, <2>3 DEF LockTurns, Inside
<1>23. ~RequestFails(t)
  BY <1>1 DEF RequestFails
<1>24. CASE UserStep(t)
  <2>1. ASSUME NEW kind \in {"call", "logout"}, UserAsks(t, kind, 0)
        PROVE  PageTurns(t) /\ (WebLocks /\ ~LockTimeouts => LockTurns(t))
    BY <1>21, <2>1
  <2>2. ASSUME NEW k \in Slots, NEW kind \in {"switch", "remove"}, UserAsks(t, kind, k)
        PROVE  PageTurns(t) /\ (WebLocks /\ ~LockTimeouts => LockTurns(t))
    BY <1>21, <2>2
  <2> QED BY <1>22, <1>24, <2>1, <2>2 DEF UserStep
<1> QED BY <1>8, <1>9, <1>10, <1>11, <1>16, <1>17, <1>18, <1>19, <1>20, <1>23, <1>24
        DEF Pages, PageStep, LockStep, ReplyArrives

\* What a page waits for is the request it made.
LEMMA PcStep ==
    ASSUME RefreshAssumption, MaxLost = 0, RefreshInv, PcInv, [Next]_vars
    PROVE  PcInv'
<1>0. TypeOK /\ SlotInv /\ PauseInv /\ ActiveInv
  BY DEF RefreshInv
<1>1. CASE UNCHANGED <<msg, tab>>
  BY <1>1 DEF PcInv
<1>2. ASSUME NEW c \in Clients, ServerStep(c) PROVE PcInv'
  <2>1. tab' = tab /\ msg[c].kind \in Kinds
    BY <1>0, <1>2, ServerMoves
  <2>2. PICK r \in Reply : Served(c, r)
    BY <1>0, <1>2, ServerMoves
  <2>3. c # Orphan
    BY <2>1, NoMsgIs DEF PcInv, Kinds
  <2>4. /\ \A d \in Clients : d # c => msg'[d] = msg[d]
        /\ msg'[c].kind = msg[c].kind
    <3>1. msg \in [Clients -> Msg] /\ msg[c] \in Msg
      BY <1>0 DEF TypeOK, Clients
    <3>2. msg' = [msg EXCEPT ![c] = [msg[c] EXCEPT !.reply = r]]
      BY <2>2, <2>3 DEF Served
    <3>3. [msg[c] EXCEPT !.reply = r].kind = msg[c].kind
      BY <3>1 DEF Msg
    <3> QED BY <3>1, <3>2, <3>3
  <2>5. msg[Orphan] = NoMsg /\ msg'[Orphan] = NoMsg
    BY <2>3, <2>4 DEF PcInv, Clients
  <2>6. \A t \in Tabs : IF tab[t].pc \in Kinds THEN msg'[t].kind = tab[t].pc ELSE msg'[t] = NoMsg
    <3>1. \A t \in Tabs : t = c => tab[t].pc \in Kinds
      BY <2>1, NoMsgIs DEF PcInv, Kinds
    <3> QED BY <2>4, <3>1 DEF PcInv, Clients
  <2> QED BY <2>1, <2>5, <2>6 DEF PcInv
<1>3. ASSUME NEW t \in Tabs, Pages(t) PROVE PcInv'
  <2>1. PICK T \in Tab, m \in Msg :
            /\ tab' = [tab EXCEPT ![t] = T] /\ msg' = [msg EXCEPT ![t] = m]
            /\ \/ T.pc \notin Kinds /\ m = NoMsg
               \/ T.pc \in Kinds /\ T.pc = m.kind
    BY <1>0, <1>3, PageSays DEF PageTurns
  <2>2. Orphan # t /\ tab \in [Tabs -> Tab] /\ msg \in [Tabs \cup {Orphan} -> Msg]
    BY <1>0 DEF RefreshAssumption, TypeOK
  <2> QED BY <2>1, <2>2 DEF PcInv
<1>4. ASSUME NEW i \in Slots, NEW g \in grace[i], GraceEnds(i, g) PROVE PcInv'
  BY <1>1, <1>4 DEF GraceEnds
<1> QED BY <1>1, <1>2, <1>3, <1>4 DEF Next, Clients, Pages, vars

-----------------------------------------------------------------------------
(* Refreshes under the lock.                                               *)

\* The holder of the lock is the one page that refreshes.
HolderInv == \A t \in Tabs : tab[t].pc \in Inside => holder = t

\* The browser has the current token of a slot, or the reply to the refresh under way has
\* it; and the request of a refresh that was not answered carries no older one.
LockInv == \A k \in Slots : row[k] # 0 =>
    /\ \/ jar.tok[k] \in {0, row[k]}
       \/ \E t \in Tabs : tab[t].pc = "refresh" /\ msg[t].reply.tok[k] = row[k]
    /\ \A t \in Tabs : tab[t].pc = "refresh" /\ msg[t].reply = Pending =>
          msg[t].jar.tok[k] \in {0, row[k]}

\* The server answers the page that holds the lock.
LEMMA LockServer ==
    ASSUME RefreshAssumption, RefreshInv, PcInv, HolderInv, LockInv, NEW c \in Clients,
           ServerStep(c)
    PROVE  HolderInv' /\ LockInv'
<1>0. TypeOK /\ SlotInv
  BY DEF RefreshInv
<1>1. /\ UNCHANGED <<jar, tab, holder>> /\ msg[c].reply = Pending /\ msg[c].kind \in Kinds
  BY <1>0, ServerMoves
<1>2. PICK r \in Reply : /\ Served(c, r) /\ r.status # 0
                         /\ \/ Plain(r) /\ Deletes
                            \/ \E k \in Slots : Rotates(c, k, r)
  BY <1>0, ServerMoves
<1>3. c \in Tabs /\ tab[c].pc = msg[c].kind
  <2>1. c # Orphan /\ msg[c] # NoMsg
    BY <1>1, NoMsgIs DEF PcInv, Kinds
  <2> QED BY <2>1 DEF PcInv, Clients
<1>4. /\ \A d \in Tabs : d # c => msg'[d] = msg[d]
      /\ msg'[c].reply = r /\ r # Pending
  <2>1. msg \in [Clients -> Msg] /\ msg[c] \in Msg /\ c # Orphan
    BY <1>0, <1>3 DEF TypeOK, Clients, RefreshAssumption
  <2>2. msg' = [msg EXCEPT ![c] = [msg[c] EXCEPT !.reply = r]]
    BY <1>2, <2>1 DEF Served
  <2>3. [msg[c] EXCEPT !.reply = r].reply = r
    BY <2>1 DEF Msg
  <2> QED BY <1>2, <2>1, <2>2, <2>3, NoMsgIs DEF Clients
<1>5. \A k \in Slots : row[k] \in Nat /\ Pending.tok[k] \notin Nat
  <2>1. \A k \in Slots : row[k] \in Nat /\ Pending.tok[k] = Keep
    BY <1>0, Tokens, NoMsgIs
  <2>2. Keep \notin Nat
    BY DEF Keep
  <2> QED BY <2>1, <2>2
<1>6. HolderInv'
  BY <1>1 DEF HolderInv
\* A slot whose session is left alone.
<1>7. ASSUME NEW k \in Slots, row'[k] = row[k], row'[k] # 0
      PROVE  /\ \/ jar'.tok[k] \in {0, row'[k]}
                \/ \E t \in Tabs : tab'[t].pc = "refresh" /\ msg'[t].reply.tok[k] = row'[k]
             /\ \A t \in Tabs : tab'[t].pc = "refresh" /\ msg'[t].reply = Pending =>
                   msg'[t].jar.tok[k] \in {0, row'[k]}
  <2>1. jar.tok[k] \in {0, row[k]} \/ \E t \in Tabs : tab[t].pc = "refresh" /\
        msg[t].reply.tok[k] = row[k]
    BY <1>7 DEF LockInv
  <2>2. ASSUME NEW t \in Tabs, tab[t].pc = "refresh", msg[t].reply.tok[k] = row[k]
        PROVE  tab'[t].pc = "refresh" /\ msg'[t].reply.tok[k] = row'[k]
    BY <1>1, <1>4, <1>5, <1>7, <2>2
  <2>3. ASSUME NEW t \in Tabs, tab'[t].pc = "refresh", msg'[t].reply = Pending
        PROVE  msg'[t].jar.tok[k] \in {0, row'[k]}
    BY <1>1, <1>4, <1>7, <2>3 DEF LockInv
  <2> QED BY <1>1, <1>7, <2>1, <2>2, <2>3
<1>8. CASE Plain(r) /\ Deletes
  <2>1. \A k \in Slots : row'[k] # 0 => row'[k] = row[k]
    BY <1>8 DEF Deletes
  <2> QED BY <1>6, <1>7, <2>1 DEF LockInv
<1>9. ASSUME NEW k \in Slots, Rotates(c, k, r) PROVE LockInv'
  <2>1. \A i \in Slots \ {k} : row'[i] = row[i]
    BY <1>0, <1>9 DEF Rotates, TypeOK
  <2>2. row'[k] = row[k] + 1 /\ r.tok[k] = row[k] + 1 /\ tab[c].pc = "refresh"
    <3>1. msg[c].jar \in Jar
      BY <1>0 DEF TypeOK, Clients, Msg
    <3>2. r = Issued(msg[c].jar, k) /\ row' = [row EXCEPT ![k] = row[k] + 1] /\
          tab[c].pc = "refresh"
      BY <1>3, <1>9 DEF Rotates
    <3> QED BY <1>0, <3>1, <3>2, IssuedIs DEF TypeOK
  <2>3. tab'[c].pc = "refresh" /\ msg'[c].reply.tok[k] = row'[k]
    BY <1>1, <1>4, <2>2
  <2>4. \A t \in Tabs : tab'[t].pc = "refresh" => t = c
    BY <1>1, <1>3, <2>2 DEF HolderInv, Inside
  <2>5. \A t \in Tabs : ~(tab'[t].pc = "refresh" /\ msg'[t].reply = Pending)
    BY <1>4, <2>4
  <2>6. \A i \in Slots : row'[i] # 0 => \/ jar'.tok[i] \in {0, row'[i]}
                                        \/ \E t \in Tabs : tab'[t].pc = "refresh" /\
                                              msg'[t].reply.tok[i] = row'[i]
    BY <1>3, <1>7, <2>1, <2>3
  <2> QED BY <2>5, <2>6 DEF LockInv
<1> QED BY <1>2, <1>6, <1>8, <1>9

\* A page sends under the lock, or gives the lock back.
LEMMA LockPage ==
    ASSUME RefreshAssumption, WebLocks, ~LockTimeouts, MaxLost = 0,
           RefreshInv, PcInv, HolderInv, LockInv, NEW t \in Tabs, Pages(t)
    PROVE  HolderInv' /\ LockInv'
<1>0. TypeOK /\ SlotInv /\ PauseInv /\ ActiveInv /\ FreshInv /\ t \in Clients
  BY DEF RefreshInv, Clients
<1>1. PageTurns(t) /\ LockTurns(t)
  BY <1>0, PageSays
<1>2. row' = row
  BY <1>0, PageMoves DEF PageTypes
<1>3. PICK T \in Tab, m \in Msg :
          /\ tab' = [tab EXCEPT ![t] = T] /\ msg' = [msg EXCEPT ![t] = m] /\ m.reply = Pending
          /\ \/ T.pc \notin Kinds /\ m = NoMsg
             \/ T.pc \in Kinds /\ T.pc = m.kind
          /\ m.kind # "none" => m.jar = jar'
          /\ m.kind = "refresh" => tab[t].pc = "send"
  BY <1>1 DEF PageTurns
<1>4. /\ tab'[t] = T /\ msg'[t] = m
      /\ \A u \in Tabs : u # t => tab'[u] = tab[u] /\ msg'[u] = msg[u]
  BY <1>0, <1>3 DEF TypeOK
<1>5. HolderInv'
  <2>1. ASSUME NEW u \in Tabs, u # t, tab'[u].pc \in Inside PROVE holder' = u
    <3>1. holder = u /\ u # NoTab
      BY <1>4, <2>1 DEF HolderInv, RefreshAssumption
    <3> QED BY <1>1, <2>1, <3>1 DEF LockTurns, Release
  <2>2. tab'[t].pc \in Inside => holder' = t
    BY <1>1 DEF LockTurns, HolderInv
  <2> QED BY <2>1, <2>2 DEF HolderInv
<1>6. ASSUME NEW k \in Slots, row'[k] # 0
      PROVE  \/ jar'.tok[k] \in {0, row'[k]}
             \/ \E u \in Tabs : tab'[u].pc = "refresh" /\ msg'[u].reply.tok[k] = row'[k]
  <2>1. row[k] \in Nat \ {0} /\ Keep \notin Nat
    BY <1>0, <1>2, <1>6, Tokens DEF Keep
  <2>2. ASSUME NEW u \in Tabs, u # t, tab[u].pc = "refresh", msg[u].reply.tok[k] = row[k]
        PROVE  tab'[u].pc = "refresh" /\ msg'[u].reply.tok[k] = row'[k]
    BY <1>2, <1>4, <2>2
  <2>3. CASE jar' = jar /\ msg[t] = NoMsg
    <3>1. msg[t].reply.tok[k] # row[k]
      BY <2>1, <2>3, NoMsgIs
    <3> QED BY <1>2, <1>6, <2>2, <2>3, <3>1 DEF LockInv
  <2>4. CASE jar' = Applied(jar, msg[t].reply)
    <3>1. CASE Sets(t, k)
      <4>1. jar'.tok[k] = msg[t].reply.tok[k] /\ row[k] \in {0, msg[t].reply.tok[k]}
        BY <1>0, <2>4, <3>1, TakenIs DEF FreshInv
      <4> QED BY <1>2, <1>6, <4>1
    <3>2. CASE ~Sets(t, k)
      <4>1. jar'.tok[k] \in {0, jar.tok[k]}
        BY <2>4, <3>2, TakenIs
      <4>2. msg[t].reply.tok[k] # row[k]
        BY <2>1, <3>2 DEF Sets
      <4> QED BY <1>2, <1>6, <2>2, <4>1, <4>2 DEF LockInv
    <3> QED BY <3>1, <3>2
  <2> QED BY <1>1, <2>3, <2>4 DEF PageTurns
<1>7. ASSUME NEW k \in Slots, row'[k] # 0, NEW u \in Tabs, tab'[u].pc = "refresh",
             msg'[u].reply = Pending
      PROVE  msg'[u].jar.tok[k] \in {0, row'[k]}
  <2>1. CASE u # t
    BY <1>2, <1>4, <1>7, <2>1 DEF LockInv
  <2>2. CASE u = t
    <3>1. tab[t].pc = "send" /\ m.jar = jar'
      <4>1. "refresh" \in Kinds
        BY DEF Kinds
      <4> QED BY <1>3, <1>4, <1>7, <2>2, <4>1
    <3>2. jar' = jar
      BY <1>1, <3>1 DEF PageTurns, Kinds
    <3>3. \A v \in Tabs : tab[v].pc # "refresh"
      BY <3>1 DEF HolderInv, Inside
    <3> QED BY <1>2, <1>4, <1>7, <2>2, <3>1, <3>2, <3>3 DEF LockInv
  <2> QED BY <2>1, <2>2
<1> QED BY <1>5, <1>6, <1>7 DEF LockInv

\* No step breaks the order of the lock.
LEMMA LockStays ==
    ASSUME RefreshAssumption, WebLocks, ~LockTimeouts, MaxLost = 0
    PROVE  RefreshInv /\ PcInv /\ HolderInv /\ LockInv /\ [Next]_vars => HolderInv' /\ LockInv'
<1>a. SUFFICES ASSUME RefreshInv, PcInv, HolderInv, LockInv, [Next]_vars
               PROVE  HolderInv' /\ LockInv'
  OBVIOUS
<1>1. CASE UNCHANGED <<row, jar, tab, holder, msg>>
  BY <1>a, <1>1 DEF HolderInv, LockInv
<1>2. ASSUME NEW c \in Clients, ServerStep(c) PROVE HolderInv' /\ LockInv'
  BY <1>a, <1>2, LockServer
<1>3. ASSUME NEW i \in Slots, NEW g \in grace[i], GraceEnds(i, g) PROVE HolderInv' /\ LockInv'
  BY <1>1, <1>3 DEF GraceEnds
<1>4. ASSUME NEW t \in Tabs, Pages(t) PROVE HolderInv' /\ LockInv'
  BY <1>a, <1>4, LockPage
<1> QED BY <1>a, <1>1, <1>2, <1>3, <1>4 DEF Next, Clients, Pages, vars

\* Every page loads, the lock is free, and the jar has the tokens of the sessions.
LEMMA LockStarts == RefreshAssumption /\ Init => PcInv /\ HolderInv /\ LockInv
<1>a. SUFFICES ASSUME RefreshAssumption, Init PROVE PcInv /\ HolderInv /\ LockInv
  OBVIOUS
<1>1. /\ row = [k \in Slots |-> 1] /\ jar = [tok |-> row, active |-> 1, access |-> NoAccess]
      /\ tab = [t \in Tabs |-> Loading("app")] /\ msg = [c \in Tabs \cup {Orphan} |-> NoMsg]
  BY <1>a DEF Init
<1>2. \A t \in Tabs : tab[t].pc = "load" /\ msg[t] = NoMsg
  BY <1>a, <1>1, TabIs
<1>3. PcInv /\ HolderInv
  BY <1>1, <1>2 DEF PcInv, HolderInv, Inside, Kinds
<1>4. \A k \in Slots : jar.tok[k] = row[k]
  BY <1>1
<1> QED BY <1>2, <1>3, <1>4 DEF LockInv

\* A request that carries no old token selects none.
LEMMA LockedIs ==
    ASSUME RefreshInv, PcInv, LockInv
    PROVE  LockedRefreshIsCurrent
<1>1. SUFFICES ASSUME NEW t \in Tabs, Received(t, "refresh"), NEW k \in Selected(msg[t].jar)
               PROVE  row[k] \in {0, msg[t].jar.tok[k]}
  BY DEF LockedRefreshIsCurrent
<1>2. msg[t].jar \in Jar /\ msg[t].kind = "refresh" /\ msg[t].reply = Pending
  BY <1>1 DEF RefreshInv, TypeOK, Msg, Received
<1>3. tab[t].pc = "refresh"
  BY <1>2, NoMsgIs DEF PcInv
<1>4. k \in Slots /\ (msg[t].jar.tok[k] # 0 \/ row[k] = msg[t].jar.tok[k])
  <2>1. CASE msg[t].jar.active # 0 /\ msg[t].jar.tok[msg[t].jar.active] # 0
    BY <1>1, <1>2, <2>1 DEF Selected, Jar
  <2>2. CASE ~(msg[t].jar.active # 0 /\ msg[t].jar.tok[msg[t].jar.active] # 0)
    BY <1>1, <2>2 DEF Selected, Known, Current
  <2> QED BY <2>1, <2>2
<1> QED BY <1>2, <1>3, <1>4 DEF LockInv

\* With Web Locks, when no wait for the lock times out and no request is given up, a refresh
\* carries the current token of every slot it may select (refreshToken, auth.js:823).
THEOREM LockedRefreshes ==
    ASSUME RefreshAssumption, WebLocks, ~LockTimeouts, MaxLost = 0
    PROVE  Spec => []LockedRefreshIsCurrent
<1>1. Init => RefreshInv /\ PcInv /\ HolderInv /\ LockInv
  BY RefreshStarts, LockStarts
<1>2. RefreshInv /\ PcInv /\ HolderInv /\ LockInv /\ [Next]_vars
          => (RefreshInv /\ PcInv /\ HolderInv /\ LockInv)'
  <2>1. RefreshInv /\ [Next]_vars => RefreshInv'
    BY RefreshStep
  <2>2. RefreshInv /\ PcInv /\ [Next]_vars => PcInv'
    BY PcStep
  <2> QED BY <2>1, <2>2, LockStays
<1>3. RefreshInv /\ PcInv /\ HolderInv /\ LockInv => LockedRefreshIsCurrent
  BY LockedIs
<1> QED BY <1>1, <1>2, <1>3, PTL DEF Spec

-----------------------------------------------------------------------------
(* A prompt server and users who do not sign out.                          *)

\* A token that still opens its session: the current one, or one consumed a moment ago.
Good(j, k) == j.tok[k] # 0 /\ (j.tok[k] = row[k] \/ j.tok[k] \in grace[k])

\* No request carries an old token or loses its account, and no reply clears a cookie.
CarriedInv ==
    /\ jar.active \in Slots /\ \A k \in Slots : row[k] # 0 /\ Good(jar, k)
    /\ \A c \in Clients :
          /\ msg[c].kind \in {"none", "refresh", "call", "switch"}
          /\ msg[c].kind # "none" => /\ msg[c].jar.active \in Slots
                                     /\ \A k \in Slots : Good(msg[c].jar, k)
          /\ msg[c].reply.active \in Slots \cup {Keep}
          /\ \A k \in Slots : msg[c].reply.tok[k] # 0

\* Such a request is served without touching another slot, and never refused as reused.
LEMMA ServedWell ==
    ASSUME RefreshAssumption, TypeOK, SlotInv, CarriedInv, NEW c \in Clients, ServerStep(c)
    PROVE  \E r \in Reply :
              /\ Served(c, r) /\ r.active \in Slots \cup {Keep} /\ r # Pending
              /\ \/ UNCHANGED <<row, grace>> /\ \A i \in Slots : r.tok[i] = Keep
                 \/ \E k \in Slots : Rotates(c, k, r) /\ \A i \in Slots \ {k} : r.tok[i] = Keep
<1>0. msg[c] \in Msg /\ msg[c].jar \in Jar /\ \A k \in Slots : row[k] \in Nat
  BY DEF TypeOK, Clients, Msg
<1>1. ASSUME NEW r \in Reply, Answer(c, r) PROVE Served(c, r)
  BY <1>1 DEF Answer, Served
<1>2. \A s \in {200, 401, 404, 409} :
          /\ Answering(s) \in Reply /\ Answering(s).active = Keep /\ Answering(s) # Pending
          /\ \A i \in Slots : Answering(s).tok[i] = Keep
  BY AnsweringIs, NoMsgIs DEF Plain
<1>3. ASSUME NEW s \in {200, 401, 404, 409}, Answer(c, Answering(s)), UNCHANGED <<row, grace>>
      PROVE  \E r \in Reply : /\ Served(c, r) /\ r.active \in Slots \cup {Keep} /\ r # Pending
                              /\ UNCHANGED <<row, grace>> /\ \A i \in Slots : r.tok[i] = Keep
  BY <1>1, <1>2, <1>3
<1>4. CASE ServerRefresh(c)
  <2> DEFINE j == msg[c].jar
             a == j.active
  <2>1. Received(c, "refresh")
    BY <1>4 DEF ServerRefresh
  <2>2. a \in Slots /\ Good(j, a) /\ a # 0
    <3>1. msg[c].kind = "refresh" /\ a \in Slots
      BY <2>1 DEF Received, CarriedInv
    <3>2. Good(j, a)
      BY <3>1 DEF CarriedInv
    <3> QED BY <3>1, <3>2 DEF RefreshAssumption
  <2>3. Selected(j) = {a} /\ ~FellBack(j)
    BY <2>2 DEF Selected, FellBack, Good
  <2>4. RefreshOf(c, a)
    BY <1>4, <2>3 DEF ServerRefresh
  <2>5. CASE Resolution(a, j.tok[a]) = "current"
    <3>1. row' = [row EXCEPT ![a] = @ + 1] /\ grace' = [grace EXCEPT ![a] = @ \cup {j.tok[a]}]
          /\ Answer(c, Issued(j, a))
      BY <2>4, <2>5 DEF RefreshOf
    <3>2. row[a] # 0 /\ row[a] = j.tok[a]
      BY <2>5, ResolutionIs
    <3>3. /\ Issued(j, a) \in Reply /\ Issued(j, a).status = 200 /\ Issued(j, a).active = a
          /\ \A i \in Slots \ {a} : Issued(j, a).tok[i] = Keep
      BY <1>0, <2>2, <2>3, IssuedIs
    <3>4. Rotates(c, a, Issued(j, a))
      BY <2>1, <2>3, <3>1, <3>2 DEF Rotates, Received
    <3>5. Issued(j, a) # Pending
      BY <3>3, NoMsgIs
    <3> QED BY <1>1, <2>2, <3>1, <3>3, <3>4, <3>5
  <2>6. CASE Resolution(a, j.tok[a]) = "race"
    <3>1. Answer(c, Answering(409)) /\ UNCHANGED <<row, grace>>
      BY <2>4, <2>6 DEF RefreshOf
    <3> QED BY <1>3, <3>1
  <2>7. Resolution(a, j.tok[a]) \in {"current", "race"}
    <3>1. row[a] # 0
      BY <2>2 DEF CarriedInv
    <3> QED BY <2>2, <3>1, ResolutionIs DEF Good
  <2> QED BY <2>5, <2>6, <2>7
<1>5. CASE ServerCall(c)
  BY <1>3, <1>5 DEF ServerCall
<1>6. CASE ServerSwitch(c)
  <2>1. UNCHANGED <<row, grace>> /\ Received(c, "switch")
    BY <1>6 DEF ServerSwitch
  <2>2. msg[c].slot \in Slots
    BY <2>1 DEF Received, SlotInv
  <2> DEFINE r == Activated(Answering(200), msg[c].slot)
  <2>3. Answer(c, r) \/ Answer(c, Answering(404))
    BY <1>6 DEF ServerSwitch, Activated
  <2>4. /\ r \in Reply /\ r.status = 200 /\ r.active = msg[c].slot
        /\ \A i \in Slots : r.tok[i] = Keep
    <3>1. Answering(200) \in Reply /\ \A i \in Slots : Answering(200).tok[i] = Keep
      BY <1>2
    <3>2. r.active = msg[c].slot
      BY <3>1 DEF Activated, Reply
    <3>3. Answering(200).status = 200
      BY AnsweringIs
    <3> QED BY <2>2, <3>1, <3>2, <3>3, ActivatedIs
  <2> HIDE DEF r
  <2>5. r # Pending
    BY <2>4, NoMsgIs
  <2> QED BY <1>1, <1>3, <2>1, <2>2, <2>3, <2>4, <2>5
<1>7. ~ServerLogout(c) /\ ~ServerRemove(c)
  BY DEF ServerLogout, ServerRemove, Received, CarriedInv
<1> QED BY <1>4, <1>5, <1>6, <1>7 DEF ServerStep

\* The current token of a slot is in the jar, or on its way there.
ArrivesInv == \A k \in Slots : \/ jar.tok[k] = row[k]
                               \/ \E t \in Tabs : msg[t].reply.tok[k] = row[k]

\* The server rotates or calls a race, and the token before is in its grace.
LEMMA CarriedServer ==
    ASSUME RefreshAssumption, RefreshInv, PcInv, CarriedInv, ArrivesInv,
           NEW c \in Clients, ServerStep(c)
    PROVE  CarriedInv' /\ ArrivesInv'
<1>0. TypeOK /\ SlotInv
  BY DEF RefreshInv
<1>1. jar' = jar /\ msg[c].reply = Pending /\ msg[c].kind \in Kinds
  BY <1>0, ServerMoves
<1>2. PICK r \in Reply :
          /\ Served(c, r) /\ r.active \in Slots \cup {Keep}
          /\ \/ UNCHANGED <<row, grace>> /\ \A i \in Slots : r.tok[i] = Keep
             \/ \E k \in Slots : Rotates(c, k, r) /\ \A i \in Slots \ {k} : r.tok[i] = Keep
  BY <1>0, ServedWell
<1>3. c \in Tabs
  BY <1>1, NoMsgIs DEF PcInv, Kinds, Clients
<1>4. /\ \A d \in Clients : d # c => msg'[d] = msg[d]
      /\ msg'[c].kind = msg[c].kind /\ msg'[c].jar = msg[c].jar /\ msg'[c].reply = r
  <2>1. msg \in [Clients -> Msg] /\ msg[c] \in Msg /\ c # Orphan
    BY <1>0, <1>3 DEF TypeOK, Clients, RefreshAssumption
  <2>2. msg' = [msg EXCEPT ![c] = [msg[c] EXCEPT !.reply = r]]
    BY <1>2, <2>1 DEF Served
  <2>3. LET m == [msg[c] EXCEPT !.reply = r]
        IN  m.kind = msg[c].kind /\ m.jar = msg[c].jar /\ m.reply = r
    BY <2>1 DEF Msg
  <2> QED BY <2>1, <2>2, <2>3
<1>5. \A k \in Slots : row[k] \in Nat /\ Pending.tok[k] = Keep
  BY <1>0, Tokens, NoMsgIs
<1>6. Keep # 0 /\ Keep \notin Nat
  BY DEF Keep
\* What the step does to the sessions and to the tokens of the reply.
<1>7. \A k \in Slots :
          /\ row'[k] # 0 /\ r.tok[k] # 0
          /\ \/ row'[k] = row[k] /\ grace'[k] = grace[k]
             \/ grace'[k] = grace[k] \cup {row[k]} /\ r.tok[k] = row'[k]
  <2>1. CASE UNCHANGED <<row, grace>> /\ \A i \in Slots : r.tok[i] = Keep
    BY <1>6, <2>1 DEF CarriedInv
  <2>2. ASSUME NEW k \in Slots, Rotates(c, k, r), \A i \in Slots \ {k} : r.tok[i] = Keep
        PROVE  \A i \in Slots :
                  /\ row'[i] # 0 /\ r.tok[i] # 0
                  /\ \/ row'[i] = row[i] /\ grace'[i] = grace[i]
                     \/ grace'[i] = grace[i] \cup {row[i]} /\ r.tok[i] = row'[i]
    <3>1. msg[c].jar \in Jar
      BY <1>0 DEF TypeOK, Clients, Msg
    <3>2. /\ row' = [row EXCEPT ![k] = row[k] + 1] /\
                grace' = [grace EXCEPT ![k] = grace[k] \cup {row[k]}]
          /\ r.tok[k] = row[k] + 1
      BY <1>0, <2>2, <3>1, IssuedIs DEF Rotates
    <3>3. row'[k] = row[k] + 1 /\ grace'[k] = grace[k] \cup {row[k]}
          /\ \A i \in Slots \ {k} : row'[i] = row[i] /\ grace'[i] = grace[i]
      BY <1>0, <3>2 DEF TypeOK
    <3>4. row[k] + 1 # 0
      BY <1>5
    <3> QED BY <1>6, <2>2, <3>2, <3>3, <3>4 DEF CarriedInv
  <2> QED BY <1>2, <2>1, <2>2
<1>10. ASSUME NEW k \in Slots PROVE Good(jar, k)'
  <2>1. Good(jar, k)
    BY DEF CarriedInv
  <2> QED BY <1>1, <1>7, <2>1 DEF Good
<1>11. CarriedInv'
  <2>1. \A d \in Clients : /\ msg'[d].kind = msg[d].kind /\ msg'[d].jar = msg[d].jar
                           /\ msg'[d].reply \in {msg[d].reply, r}
    BY <1>4
  <2>2. jar'.active \in Slots /\ \A k \in Slots : row'[k] # 0 /\ Good(jar, k)'
    BY <1>1, <1>7, <1>10 DEF CarriedInv
  <2>3. ASSUME NEW d \in Clients
        PROVE  /\ msg'[d].kind \in {"none", "refresh", "call", "switch"}
               /\ msg'[d].kind # "none" => msg'[d].jar.active \in Slots
               /\ msg'[d].reply.active \in Slots \cup {Keep}
               /\ \A k \in Slots : msg'[d].reply.tok[k] # 0
    BY <1>2, <1>7, <2>1 DEF CarriedInv
  <2>4. ASSUME NEW d \in Clients, msg'[d].kind # "none", NEW k \in Slots
        PROVE  Good(msg[d].jar, k)'
    <3>1. Good(msg[d].jar, k)
      BY <2>1, <2>4 DEF CarriedInv
    <3>2. msg'[d].jar = msg[d].jar
      BY <2>1
    <3> QED BY <1>7, <3>1, <3>2 DEF Good
  <2> QED BY <2>2, <2>3, <2>4 DEF CarriedInv
<1>12. ArrivesInv'
  <2>1. ASSUME NEW k \in Slots, row'[k] = row[k]
        PROVE  jar'.tok[k] = row'[k] \/ \E t \in Tabs : msg'[t].reply.tok[k] = row'[k]
    <3>1. ASSUME NEW t \in Tabs, msg[t].reply.tok[k] = row[k] PROVE msg'[t].reply.tok[k] = row'[k]
      <4>1. t # c
        BY <1>1, <1>5, <1>6, <3>1
      <4> QED BY <1>4, <2>1, <3>1, <4>1 DEF Clients
    <3> QED BY <1>1, <2>1, <3>1 DEF ArrivesInv
  <2>2. ASSUME NEW k \in Slots, r.tok[k] = row'[k]
        PROVE  \E t \in Tabs : msg'[t].reply.tok[k] = row'[k]
    BY <1>3, <1>4, <2>2
  <2> QED BY <1>7, <2>1, <2>2 DEF ArrivesInv
<1> QED BY <1>11, <1>12

\* A grace ends when no request and no jar has the token any more.
LEMMA CarriedGrace ==
    ASSUME Prompt, RefreshInv, CarriedInv, ArrivesInv,
           NEW i \in Slots, NEW g \in grace[i], GraceEnds(i, g)
    PROVE  CarriedInv' /\ ArrivesInv'
<1>1. /\ UNCHANGED <<row, jar, msg>> /\ grace' = [grace EXCEPT ![i] = grace[i] \ {g}]
      /\ jar.tok[i] # g /\ \A c \in Clients : msg[c].jar.tok[i] # g
  BY DEF GraceEnds, Clients
<1>2. \A k \in Slots : grace'[k] = IF k = i THEN grace[i] \ {g} ELSE grace[k]
  BY <1>1 DEF RefreshInv, TypeOK
<1>3. \A k \in Slots : Good(jar, k) => Good(jar, k)'
  BY <1>1, <1>2 DEF Good
<1>4. \A c \in Clients, k \in Slots : Good(msg[c].jar, k) => Good(msg[c].jar, k)'
  BY <1>1, <1>2 DEF Good
<1>5. CarriedInv'
  BY <1>1, <1>3, <1>4 DEF CarriedInv
<1>6. ArrivesInv'
  BY <1>1 DEF ArrivesInv
<1> QED BY <1>5, <1>6

\* A page sends the tokens of the jar, and takes the current one from its reply.
LEMMA CarriedPage ==
    ASSUME RefreshAssumption, MaxLost = 0, Requests \subseteq {"call", "switch"},
           RefreshInv, PcInv, CarriedInv, ArrivesInv, NEW t \in Tabs, Pages(t)
    PROVE  CarriedInv' /\ ArrivesInv'
<1>0. /\ TypeOK /\ SlotInv /\ PauseInv /\ ActiveInv /\ FreshInv /\ t \in Clients
      /\ jar \in Jar /\ msg[t].reply \in Reply
  BY DEF RefreshInv, Clients, TypeOK, Msg
<1>1. PageTurns(t)
  BY <1>0, PageSays
<1>2. row' = row /\ grace' = grace
  BY <1>0, PageMoves DEF PageTypes
<1>3. PICK m \in Msg :
          /\ msg' = [msg EXCEPT ![t] = m] /\ m.reply = Pending
          /\ m.kind \in {"none", "refresh", "call", "switch"} /\ (m.kind # "none" => m.jar = jar')
  BY <1>1, NoMsgIs DEF PageTurns
<1>4. msg'[t] = m /\ \A d \in Clients : d # t => msg'[d] = msg[d]
  BY <1>0, <1>3 DEF TypeOK, Clients
<1>5. Keep # 0 /\ Keep \notin Nat /\ \A k \in Slots : row[k] \in Nat /\ Pending.tok[k] = Keep
  BY <1>0, Tokens, NoMsgIs DEF Keep
\* The jar takes a new token, or keeps its own.
<1>6. \A k \in Slots : \/ jar'.tok[k] = row[k]
                       \/ jar'.tok[k] = jar.tok[k] /\ msg[t].reply.tok[k] # row[k]
  <2>1. CASE jar' = jar /\ msg[t] = NoMsg
    BY <1>5, <2>1, NoMsgIs
  <2>2. CASE jar' = Applied(jar, msg[t].reply)
    <3>1. ASSUME NEW k \in Slots, Sets(t, k) PROVE jar'.tok[k] = row[k]
      <4>1. jar'.tok[k] = msg[t].reply.tok[k]
        BY <2>2, <3>1, TakenIs
      <4>2. row[k] = msg[t].reply.tok[k]
        BY <1>0, <3>1 DEF FreshInv, CarriedInv
      <4> QED BY <4>1, <4>2
    <3>2. ASSUME NEW k \in Slots, ~Sets(t, k)
          PROVE  jar'.tok[k] = jar.tok[k] /\ msg[t].reply.tok[k] # row[k]
      <4>1. msg[t].reply.tok[k] = Keep
        BY <1>0, <3>2 DEF Sets, CarriedInv
      <4> QED BY <1>0, <1>5, <2>2, <4>1, AppliedIs
    <3> QED BY <3>1, <3>2
  <2> QED BY <1>1, <2>1, <2>2 DEF PageTurns
<1>7. jar'.active \in Slots
  <2>1. CASE jar' = jar
    BY <2>1 DEF CarriedInv
  <2>2. CASE jar' = Applied(jar, msg[t].reply)
    BY <1>0, <2>2 DEF Applied, CarriedInv
  <2> QED BY <1>1, <2>1, <2>2 DEF PageTurns
<1>8. \A k \in Slots : Good(jar, k)'
  BY <1>2, <1>6 DEF CarriedInv, Good
<1>9. \A d \in Clients, k \in Slots : d # t /\ Good(msg[d].jar, k) => Good(msg[d].jar, k)'
  BY <1>2, <1>4 DEF Good
<1>10. CarriedInv'
  <2>1. /\ msg'[t].kind # "none" => /\ msg'[t].jar.active \in Slots
                                    /\ \A k \in Slots : Good(msg[t].jar, k)'
    <3>1. msg'[t].kind # "none" => msg'[t].jar = jar'
      BY <1>3, <1>4
    <3> QED BY <1>7, <1>8, <3>1 DEF Good
  <2>2. Pending.active = Keep
    BY AnsweringIs DEF Pending
  <2>3. ASSUME NEW d \in Clients
        PROVE  /\ msg'[d].kind \in {"none", "refresh", "call", "switch"}
               /\ msg'[d].kind # "none" => /\ msg'[d].jar.active \in Slots
                                           /\ \A k \in Slots : Good(msg[d].jar, k)'
               /\ msg'[d].reply.active \in Slots \cup {Keep}
               /\ \A k \in Slots : msg'[d].reply.tok[k] # 0
    <3>1. CASE d = t
      BY <1>3, <1>4, <1>5, <2>1, <2>2, <3>1
    <3>2. CASE d # t
      BY <1>4, <1>9, <3>2 DEF CarriedInv
    <3> QED BY <3>1, <3>2
  <2>4. \A k \in Slots : row'[k] # 0
    BY <1>2 DEF CarriedInv
  <2> QED BY <1>7, <1>8, <2>3, <2>4 DEF CarriedInv
<1>11. ArrivesInv'
  <2>1. ASSUME NEW k \in Slots
        PROVE  jar'.tok[k] = row'[k] \/ \E u \in Tabs : msg'[u].reply.tok[k] = row'[k]
    <3>1. ASSUME NEW u \in Tabs, u # t, msg[u].reply.tok[k] = row[k]
          PROVE  msg'[u].reply.tok[k] = row'[k]
      BY <1>2, <1>4, <3>1 DEF Clients
    <3> QED BY <1>2, <1>6, <3>1 DEF ArrivesInv
  <2> QED BY <2>1 DEF ArrivesInv
<1> QED BY <1>10, <1>11

\* No step loses a session.
LEMMA CarriedStays ==
    ASSUME RefreshAssumption, Prompt, MaxLost = 0, Requests \subseteq {"call", "switch"}
    PROVE  RefreshInv /\ PcInv /\ CarriedInv /\ ArrivesInv /\ [Next]_vars
               => CarriedInv' /\ ArrivesInv'
<1>a. SUFFICES ASSUME RefreshInv, PcInv, CarriedInv, ArrivesInv, [Next]_vars
               PROVE  CarriedInv' /\ ArrivesInv'
  OBVIOUS
<1>1. CASE UNCHANGED vars
  BY <1>a, <1>1 DEF vars, CarriedInv, ArrivesInv, Good
<1>2. ASSUME NEW c \in Clients, ServerStep(c) PROVE CarriedInv' /\ ArrivesInv'
  BY <1>a, <1>2, CarriedServer
<1>3. ASSUME NEW i \in Slots, NEW g \in grace[i], GraceEnds(i, g) PROVE CarriedInv' /\ ArrivesInv'
  BY <1>a, <1>3, CarriedGrace
<1>4. ASSUME NEW t \in Tabs, Pages(t) PROVE CarriedInv' /\ ArrivesInv'
  BY <1>a, <1>4, CarriedPage
<1> QED BY <1>a, <1>1, <1>2, <1>3, <1>4 DEF Next, Clients, Pages

\* Every session starts with its token in the jar.
LEMMA CarriedStarts == RefreshAssumption /\ Init => CarriedInv /\ ArrivesInv
<1>a. SUFFICES ASSUME RefreshAssumption, Init PROVE CarriedInv /\ ArrivesInv
  OBVIOUS
<1>1. /\ row = [k \in Slots |-> 1] /\ jar = [tok |-> row, active |-> 1, access |-> NoAccess]
      /\ \A c \in Clients : msg[c] = NoMsg
  BY <1>a DEF Init, Clients
<1>2. \A k \in Slots : row[k] = 1 /\ jar.tok[k] = row[k] /\ Good(jar, k)
  <2>1. ASSUME NEW k \in Slots
        PROVE  row[k] = 1 /\ jar.tok[k] = row[k] /\ jar.tok[k] # 0
    BY <1>1
  <2> QED BY <2>1 DEF Good
<1>3. jar.active \in Slots
  BY <1>a, <1>1 DEF RefreshAssumption
<1>4. \A c \in Clients : /\ msg[c].kind = "none" /\ msg[c].reply.active = Keep
                         /\ \A k \in Slots : msg[c].reply.tok[k] # 0
  <2>1. Pending.active = Keep
    BY AnsweringIs DEF Pending
  <2>2. Keep # 0
    BY DEF Keep
  <2> QED BY <1>1, <2>1, <2>2, NoMsgIs
<1> QED BY <1>2, <1>3, <1>4 DEF CarriedInv, ArrivesInv

\* While users only call and switch accounts, no request is given up and a consumed token
\* is still in its grace when a request carries it, no session is deleted, and its current
\* token is in the jar or on its way there, with Web Locks or without.
THEOREM NoSessionIsLost ==
    ASSUME RefreshAssumption, Prompt, MaxLost = 0, Requests \subseteq {"call", "switch"}
    PROVE  Spec => []NoSessionLost
<1>1. Init => RefreshInv /\ PcInv /\ CarriedInv /\ ArrivesInv
  BY RefreshStarts, LockStarts, CarriedStarts
<1>2. RefreshInv /\ PcInv /\ CarriedInv /\ ArrivesInv /\ [Next]_vars
          => (RefreshInv /\ PcInv /\ CarriedInv /\ ArrivesInv)'
  <2>1. RefreshInv /\ [Next]_vars => RefreshInv'
    BY RefreshStep
  <2>2. RefreshInv /\ PcInv /\ [Next]_vars => PcInv'
    BY PcStep
  <2> QED BY <2>1, <2>2, CarriedStays
<1>3. CarriedInv /\ ArrivesInv => NoSessionLost
  BY DEF CarriedInv, ArrivesInv, NoSessionLost
<1> QED BY <1>1, <1>2, <1>3, PTL DEF Spec
=============================================================================
