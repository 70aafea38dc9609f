-------------------------- MODULE SplitQueueProofs --------------------------
(***************************************************************************)
(* Proofs about SplitQueue, for any number of messages and turns, any send *)
(* targets and any budget: types, no message is dropped, none leaves its   *)
(* chats, turns do not mix, no panel gets a message twice, a retry asks    *)
(* exactly the panels that lack a message, and nothing leaves the queue    *)
(* behind a break.  Every action is read once, into the kind of step it is *)
(* (Kind); what the later invariants need of a step follows from its kind. *)
(* Last, what the runs of MCQueue check of both queues of the web client.  *)
(***************************************************************************)
EXTENDS MCQueue, TLAPS, SequenceTheorems, WellFoundedInduction, FiniteSetTheorems

-----------------------------------------------------------------------------
(* Sequences, and the queue as a value. *)

\* The constants, and the plan the run keeps to.
Planned == SplitAssumption /\ plan \in Plans
LEMMA KeepsPlan == [Next /\ UNCHANGED plan]_<<vars, plan>>
                   => [Next]_vars /\ UNCHANGED plan /\ (Planned => Planned')
  BY DEF Planned
LEMMA HasPlan == SplitAssumption /\ Init => Planned
  BY DEF Planned, Init

\* What a sequence holds.
In(s) == {s[k] : k \in 1..Len(s)}
Distinct(s) == \A j, k \in 1..Len(s) : s[j].msg = s[k].msg => j = k

\* A set of numbers that is not empty has a least one.
LEMMA Least ==
  ASSUME NEW I \in SUBSET Nat, I # {}
  PROVE  Min(I) \in I
<1> DEFINE T == {1..i : i \in I}
           F == FiniteSubsetsOf(Nat)
<1>1. IsWellFoundedOn(StrictSubsetOrdering(Nat), F)
  BY FS_StrictSubsetOrderingWellFounded
<1>2. T \subseteq F
  BY FS_Interval DEF FiniteSubsetsOf
<1>3. PICK X \in T : \A Y \in T : <<Y, X>> \notin StrictSubsetOrdering(Nat)
  <2> HIDE DEF T, F
  <2>1. T # {} BY DEF T
  <2> QED BY <1>1, <1>2, <2>1, WFMin
<1>4. PICK x \in I : X = 1..x
  OBVIOUS
<1>5. ASSUME NEW y \in I, y < x PROVE FALSE
  <2>1. 1..y \subseteq 1..x /\ x \in 1..x /\ x \notin 1..y
    BY <1>5
  <2>2. <<1..y, 1..x>> \in StrictSubsetOrdering(Nat)
    BY <2>1 DEF StrictSubsetOrdering
  <2>3. 1..y \in T
    OBVIOUS
  <2> QED BY <1>3, <1>4, <2>2, <2>3 DEF StrictSubsetOrdering
<1>6. \A y \in I : x =< y BY <1>5
<1> QED BY <1>6 DEF Min

\* What is in a sequence after an element was appended.
LEMMA AppendIs ==
    ASSUME NEW S, NEW s \in Seq(S), NEW e \in S
    PROVE  /\ Append(s, e) \in Seq(S) /\ Len(Append(s, e)) = Len(s) + 1
           /\ In(Append(s, e)) = In(s) \cup {e}
           /\ \A k \in 1..Len(s) : Append(s, e)[k] = s[k]
           /\ Append(s, e)[Len(s) + 1] = e
           /\ Distinct(s) /\ (\A i \in In(s) : i.msg # e.msg) => Distinct(Append(s, e))
<1> DEFINE t == Append(s, e)
<1>1. /\ t \in Seq(S) /\ Len(t) = Len(s) + 1 /\ Len(s) \in Nat
      /\ t[Len(s) + 1] = e /\ \A k \in 1..Len(s) : t[k] = s[k]
  BY AppendProperties, LenProperties
<1>2. 1..Len(t) = 1..Len(s) \cup {Len(s) + 1}
  BY <1>1
<1> HIDE DEF t
<1>3. In(t) = In(s) \cup {e}
  <2>1. \A k \in 1..Len(t) : t[k] \in In(s) \cup {e}
    BY <1>1, <1>2 DEF In
  <2>2. \A k \in 1..Len(s) : s[k] \in In(t)
    BY <1>1, <1>2 DEF In
  <2>3. e \in In(t)
    BY <1>1, <1>2 DEF In
  <2> QED BY <2>1, <2>2, <2>3 DEF In
<1>4. Distinct(s) /\ (\A i \in In(s) : i.msg # e.msg) => Distinct(t)
  BY <1>1, <1>2 DEF Distinct, In
<1> QED BY <1>1, <1>3, <1>4 DEF t

\* RemoveAt takes one element out and closes the gap.
LEMMA RemoveIs ==
    ASSUME NEW S, NEW s \in Seq(S), NEW n \in 1..Len(s)
    PROVE  /\ RemoveAt(s, n) \in Seq(S) /\ Len(RemoveAt(s, n)) = Len(s) - 1
           /\ \A i \in 1..Len(s)-1 : RemoveAt(s, n)[i] = IF i < n THEN s[i] ELSE s[i+1]
<1> DEFINE a == SubSeq(s, 1, n-1)
           b == SubSeq(s, n+1, Len(s))
<1>1. a \in Seq(S) /\ Len(a) = n-1 /\ \A i \in 1..n-1 : a[i] = s[i]
  BY SubSeqProperties, ElementOfSeq
<1>2. b \in Seq(S) /\ Len(b) = Len(s)-n /\ \A i \in 1..Len(s)-n : b[i] = s[i+n]
  <2>1. Len(s) \in Nat
    BY LenProperties
  <2>2. \A i \in n+1..Len(s) : s[i] \in S
    BY ElementOfSeq
  <2> QED BY <2>1, <2>2, SubSeqProperties
<1>3. RemoveAt(s, n) = a \o b
  BY DEF RemoveAt
<1> HIDE DEF a, b
<1>4. /\ a \o b \in Seq(S) /\ Len(a \o b) = Len(a) + Len(b)
      /\ \A i \in 1 .. Len(a) + Len(b) : (a \o b)[i] = IF i <= Len(a) THEN a[i] ELSE b[i - Len(a)]
  BY <1>1, <1>2, ConcatProperties
<1>5. Len(s) \in Nat
  BY LenProperties
<1>6. Len(a) + Len(b) = Len(s) - 1
  BY <1>1, <1>2, <1>5
<1>7. ASSUME NEW i \in 1..Len(s)-1 PROVE (a \o b)[i] = IF i < n THEN s[i] ELSE s[i+1]
  <2>1. CASE i < n
    BY <1>1, <1>4, <1>5, <1>6, <2>1
  <2>2. CASE ~(i < n)
    <3>1. (a \o b)[i] = b[i - (n-1)]
      BY <1>1, <1>4, <1>5, <1>6, <2>2
    <3>2. i - (n-1) \in 1..Len(s)-n /\ (i - (n-1)) + n = i + 1
      BY <1>5, <2>2
    <3> QED BY <1>2, <1>5, <2>2, <3>1, <3>2
  <2> QED BY <2>1, <2>2
<1> QED BY <1>3, <1>4, <1>6, <1>7

\* Taking out the first match of a message leaves the others, and no other match when
\* the messages differ.
LEMMA RemoveMatchIs ==
    ASSUME NEW S, NEW s \in Seq(S), NEW m
    PROVE  LET t == RemoveFirstMatch(s, LAMBDA i : i.msg = m) IN
           /\ t \in Seq(S) /\ In(t) \subseteq In(s) /\ {i \in In(s) : i.msg # m} \subseteq In(t)
           /\ Distinct(s) => Distinct(t) /\ \A i \in In(t) : i.msg # m
<1> DEFINE I == {i \in 1..Len(s) : s[i].msg = m}
           t == RemoveFirstMatch(s, LAMBDA i : i.msg = m)
<1>a. Len(s) \in Nat
  BY LenProperties
<1>1. CASE I = {}
  <2>1. t = s
    BY <1>1 DEF RemoveFirstMatch
  <2> QED BY <1>1, <2>1 DEF In
<1>2. CASE I # {}
  <2>1. SelectInSeq(s, LAMBDA i : i.msg = m) = Min(I)
    BY <1>2 DEF SelectInSeq
  <2>2. PICK n \in I : t = RemoveAt(s, n)
    <3>1. Min(I) \in I
      BY <1>2, Least
    <3> QED BY <2>1, <3>1 DEF RemoveFirstMatch
  <2> HIDE DEF t
  <2>3. /\ t \in Seq(S) /\ Len(t) = Len(s) - 1 /\ n \in 1..Len(s) /\ s[n].msg = m
        /\ \A i \in 1..Len(t) : t[i] = IF i < n THEN s[i] ELSE s[i+1]
    BY <2>2, RemoveIs
  <2>4. In(t) \subseteq In(s)
    BY <1>a, <2>3 DEF In
  <2>5. ASSUME NEW k \in 1..Len(s), s[k].msg # m PROVE s[k] \in In(t)
    <3>1. CASE k < n
      BY <1>a, <2>3, <3>1 DEF In
    <3>2. CASE k > n
      <4>1. k - 1 \in 1..Len(t) /\ t[k - 1] = s[k]
        BY <1>a, <2>3, <3>2
      <4> QED BY <4>1 DEF In
    <3> QED BY <1>a, <2>3, <2>5, <3>1, <3>2
  <2>6. ASSUME Distinct(s) PROVE Distinct(t) /\ \A i \in In(t) : i.msg # m
    <3>1. Distinct(t)
      BY <1>a, <2>3, <2>6 DEF Distinct
    <3>2. \A i \in 1..Len(t) : t[i].msg # m
      BY <1>a, <2>3, <2>6 DEF Distinct
    <3> QED BY <3>1, <3>2 DEF In
  <2> QED BY <2>3, <2>4, <2>5, <2>6 DEF In, t
<1> QED BY <1>1, <1>2

-----------------------------------------------------------------------------
\* The types of the parts of a queue.
SomeSides == (SUBSET Sides) \ {{}}
ItemRec == [msg : Messages, target : SomeSides, chats : Chats]
DispatchRec == [turn : Turns \cup {None}, gens : SUBSET Sides, accepted : SUBSET Sides]
Queue == [items : Seq(ItemRec), paused : BOOLEAN, dispatch : DispatchRec, handoff : BOOLEAN]

\* The fields of a queue.
LEMMA QueueIs ==
    \A q : q \in Queue <=>
        /\ q = [items |-> q.items, paused |-> q.paused, dispatch |-> q.dispatch,
                handoff |-> q.handoff]
        /\ q.items \in Seq(ItemRec) /\ q.paused \in BOOLEAN
        /\ q.dispatch \in DispatchRec /\ q.handoff \in BOOLEAN
<1> DEFINE I == Seq(ItemRec)
           D == DispatchRec
<1>1. Queue = [items : I, paused : BOOLEAN, dispatch : D, handoff : BOOLEAN]
  BY DEF Queue
<1> HIDE DEF I, D
<1>2. \A q : q \in [items : I, paused : BOOLEAN, dispatch : D, handoff : BOOLEAN] <=>
        /\ q = [items |-> q.items, paused |-> q.paused, dispatch |-> q.dispatch,
                handoff |-> q.handoff]
        /\ q.items \in I /\ q.paused \in BOOLEAN
        /\ q.dispatch \in D /\ q.handoff \in BOOLEAN
  OBVIOUS
<1> QED BY <1>1, <1>2 DEF I, D

\* NoDispatch waits for no panel.
LEMMA NothingWaits == /\ NoDispatch \in DispatchRec /\ NoDispatch.turn = None
                      /\ NoDispatch.gens = {} /\ NoDispatch.accepted = {}
  BY DEF NoDispatch, DispatchRec

\* Two queues with the same parts except one.
SameButItems(p, q) == p.paused = q.paused /\ p.dispatch = q.dispatch /\ p.handoff = q.handoff

\* What Halt, Released and Scheduled change.
LEMMA HaltIs ==
    ASSUME NEW q \in Queue
    PROVE  /\ Halt(q) \in Queue /\ Halt(q).paused = (q.items # <<>>) /\ Halt(q).items = q.items
           /\ Halt(q).dispatch = q.dispatch /\ Halt(q).handoff = q.handoff
<1> DEFINE b == q.items # <<>>
           t == [items |-> q.items, paused |-> b, dispatch |-> q.dispatch,
                 handoff |-> q.handoff]
<1>1. b \in BOOLEAN
  OBVIOUS
<1>2. Halt(q) = t
  BY QueueIs DEF Halt
<1> HIDE DEF b
<1>3. t \in Queue
  BY <1>1, QueueIs
<1> QED BY <1>2, <1>3 DEF b

\* What Released changes.
LEMMA ReleasedIs ==
    ASSUME NEW q \in Queue
    PROVE  /\ Released(q) \in Queue /\ Released(q).paused = q.paused
           /\ Released(q).items = q.items
           /\ Released(q).dispatch = NoDispatch /\ Released(q).handoff = q.handoff
<1> DEFINE t == [items |-> q.items, paused |-> q.paused, dispatch |-> NoDispatch,
                 handoff |-> q.handoff]
<1>2. Released(q) = t
  BY QueueIs DEF Released
<1>3. t \in Queue
  BY NothingWaits, QueueIs
<1> QED BY <1>2, <1>3

\* What Scheduled changes.
LEMMA ScheduledIs ==
    ASSUME NEW q \in Queue
    PROVE  /\ Scheduled(q) \in Queue /\ Scheduled(q).items = q.items
           /\ Scheduled(q).dispatch = q.dispatch /\ Scheduled(q).paused = q.paused
           /\ Scheduled(q).handoff = (q.handoff \/ q.items # <<>>)
<1> DEFINE b == q.handoff \/ q.items # <<>>
           t == [items |-> q.items, paused |-> q.paused, dispatch |-> q.dispatch,
                 handoff |-> b]
<1>1. b \in BOOLEAN
  BY QueueIs
<1>2. Scheduled(q) = t
  BY QueueIs DEF Scheduled
<1> HIDE DEF b
<1>3. t \in Queue
  BY <1>1, QueueIs
<1> QED BY <1>2, <1>3 DEF b

\* A queue with other items, a queue with another dispatch.
LEMMA ItemsIs ==
    ASSUME NEW q \in Queue, NEW s \in Seq(ItemRec)
    PROVE  LET p == [q EXCEPT !.items = s] IN p \in Queue /\ p.items = s /\ SameButItems(p, q)
<1> DEFINE t == [items |-> s, paused |-> q.paused, dispatch |-> q.dispatch,
                 handoff |-> q.handoff]
<1>1. [q EXCEPT !.items = s] = t
  BY QueueIs
<1>2. t \in Queue
  BY QueueIs
<1> QED BY <1>1, <1>2 DEF SameButItems

\* A queue with another dispatch.
LEMMA DispatchIs ==
    ASSUME NEW q \in Queue, NEW d \in DispatchRec
    PROVE  LET p == [q EXCEPT !.dispatch = d] IN
           p \in Queue /\ p.dispatch = d /\ p.items = q.items /\ p.handoff = q.handoff /\
             p.paused = q.paused
<1> DEFINE t == [items |-> q.items, paused |-> q.paused, dispatch |-> d,
                 handoff |-> q.handoff]
<1>1. [q EXCEPT !.dispatch = d] = t
  BY QueueIs
<1>2. t \in Queue
  BY QueueIs
<1> QED BY <1>1, <1>2

\* What Without changes: at most the first item of that message leaves.
Takes(s, t, m) == /\ In(t) \subseteq In(s) /\ \A i \in In(s) : i.msg # m => i \in In(t)
                  /\ Distinct(s) => Distinct(t) /\ \A i \in In(t) : i.msg # m

\* Without takes a message out and changes nothing else.
LEMMA WithoutIs ==
    ASSUME NEW q \in Queue, NEW m
    PROVE  /\ Without(q, m) \in Queue /\ SameButItems(Without(q, m), q)
           /\ Takes(q.items, Without(q, m).items, m)
<1> DEFINE s == q.items
           t == RemoveFirstMatch(s, LAMBDA i : i.msg = m)
<1>1. s \in Seq(ItemRec)
  BY QueueIs
<1>2. /\ t \in Seq(ItemRec) /\ In(t) \subseteq In(s) /\ {i \in In(s) : i.msg # m} \subseteq In(t)
      /\ Distinct(s) => Distinct(t) /\ \A i \in In(t) : i.msg # m
  BY <1>1, RemoveMatchIs
<1>3. Without(q, m) = [q EXCEPT !.items = t]
  BY DEF Without
<1> HIDE DEF t
<1>4. Takes(q.items, t, m)
  BY <1>2 DEF Takes
<1> QED BY <1>2, <1>3, <1>4, ItemsIs

\* Items that have learnt which panels lack them.
Narrows(s, t, m, lacking) ==
    /\ Len(t) = Len(s)
    /\ \A k \in 1..Len(s) : /\ t[k].msg = s[k].msg /\ t[k].chats = s[k].chats
                            /\ t[k].target = IF s[k].msg = m THEN lacking ELSE s[k].target

\* What Narrowed changes: nothing, or the target of the message under way.
LEMMA NarrowedIs ==
    ASSUME NEW q \in Queue
    PROVE  LET d == q.dispatch
               lacking == Meant(d.turn) \ d.accepted
           IN  /\ Narrowed(q) \in Queue /\ SameButItems(Narrowed(q), q)
               /\ \/ (d.accepted = {} \/ lacking = {}) /\ Narrowed(q) = q
                  \/ /\ d.accepted # {} /\ lacking # {}
                     /\ Narrows(q.items, Narrowed(q).items, turn[d.turn].msg, lacking)
<1> DEFINE d == q.dispatch
           lacking == Meant(d.turn) \ d.accepted
           m == turn[d.turn].msg
<1>1. lacking \in SUBSET Sides
  BY DEF Meant
<1>2. q.items \in Seq(ItemRec) /\ DOMAIN q.items = 1..Len(q.items) /\ Len(q.items) \in Nat
      /\ \A k \in 1..Len(q.items) : q.items[k] \in ItemRec
  BY QueueIs, LenProperties, ElementOfSeq
<1>3. CASE d.accepted = {} \/ lacking = {}
  BY <1>3 DEF Narrowed, SameButItems
<1>4. CASE d.accepted # {} /\ lacking # {}
  <2> DEFINE new(k) == IF q.items[k].msg = m THEN [q.items[k] EXCEPT !.target = lacking]
                       ELSE q.items[k]
             t == [k \in 1..Len(q.items) |-> new(k)]
  <2>1. Narrowed(q) = [q EXCEPT !.items = t]
    <3>1. Narrowed(q) = [q EXCEPT !.items = [k \in DOMAIN q.items |->
                 IF q.items[k].msg = turn[d.turn].msg
                 THEN [q.items[k] EXCEPT !.target = lacking] ELSE q.items[k]]]
      BY <1>4, QueueIs DEF Narrowed
    <3> QED BY <1>2, <3>1
  <2>2. ASSUME NEW k \in 1..Len(q.items)
        PROVE  /\ new(k) \in ItemRec /\ new(k).msg = q.items[k].msg
               /\ new(k).chats = q.items[k].chats
               /\ new(k).target = IF q.items[k].msg = m THEN lacking ELSE q.items[k].target
    <3>1. q.items[k] \in ItemRec
      BY <1>2
    <3> HIDE DEF lacking, m
    <3>2. lacking \in SomeSides
      BY <1>1, <1>4 DEF SomeSides
    <3> QED BY <3>1, <3>2 DEF ItemRec
  <2> HIDE DEF new, lacking, m
  <2>3. t \in Seq(ItemRec) /\ Len(t) = Len(q.items)
    BY <1>2, <2>2, LenProperties
  <2>4. Narrows(q.items, t, m, lacking)
    BY <2>2, <2>3 DEF Narrows
  <2> HIDE DEF t
  <2>5. Narrowed(q) \in Queue /\ SameButItems(Narrowed(q), q) /\ Narrowed(q).items = t
    BY <2>1, <2>3, ItemsIs
  <2> QED BY <1>4, <2>4, <2>5 DEF m, lacking
<1> QED BY <1>3, <1>4

-----------------------------------------------------------------------------
(* Turns, panels, and the types of a state. *)

TurnRec == [msg : Messages, by : {"user", "queue"}, chats : Chats, at : [Sides -> Stages],
            failed : SUBSET Sides, open : BOOLEAN]
PanelRec == [turn : Turns \cup {None}, stop : BOOLEAN, chat : {0, 1}, loading : BOOLEAN,
             replacing : Turns \cup {None}]

TurnT == turn \in Seq(TurnRec) /\ Len(turn) <= MaxTurns
QueueT == /\ Q \in Queue /\ (paused => items # <<>>)
          /\ dispatch.gens \subseteq dispatch.accepted
          /\ dispatch.turn = None => dispatch = NoDispatch
          /\ dispatch.turn # None =>
                dispatch.turn \in 1..Len(turn) /\ turn[dispatch.turn].by = "queue"
ServerT == /\ server \in [Turns -> [Sides -> {"absent", "running", "ok", "failed"}]]
           /\ \A t \in Turns, s \in Sides : server[t][s] # "absent" => t \in 1..Len(turn)
RestT == /\ typed \in 0..MaxMessages
         /\ wanted \in [Messages -> [to : SUBSET Sides, chats : Chats]]
         /\ target \in SomeSides /\ panel \in [Sides -> PanelRec] /\ composing \in BOOLEAN
         /\ thrown \subseteq Messages /\ broken \in BOOLEAN /\ spent \in 0..Budget
TypeInv == TurnT /\ QueueT /\ ServerT /\ RestT

\* The turns are a sequence of turns.
LEMMA LengthIs == TurnT => /\ Len(turn) \in Nat /\ DOMAIN turn = 1..Len(turn)
                           /\ \A t \in 1..Len(turn) : turn[t] \in TurnRec
  BY LenProperties, ElementOfSeq DEF TurnT

\* The numbers of the turns are turns, and None is no turn.
LEMMA TurnsAre == Planned /\ TurnT => 1..Len(turn) \subseteq Turns /\ None \notin Turns
<1> SUFFICES ASSUME Planned, TurnT PROVE 1..Len(turn) \subseteq Turns /\ None \notin Turns
  OBVIOUS
<1>1. Len(turn) \in Nat /\ Len(turn) <= MaxTurns /\ MaxTurns \in Nat
  BY LengthIs DEF TurnT, Planned, SplitAssumption
<1> QED BY <1>1 DEF Turns, None

\* The strengthened types imply the types the runs check.
LEMMA TypeInvTypes == Planned /\ TypeInv => TypeOK
<1>a. SUFFICES ASSUME Planned, TypeInv PROVE TypeOK
  OBVIOUS
<1>1. Len(turn) \in 0..MaxTurns /\ DOMAIN turn = 1..Len(turn)
      /\ \A t \in DOMAIN turn : turn[t] \in TurnRec
  BY <1>a, LengthIs DEF TypeInv, TurnT, Planned, SplitAssumption
<1>2. /\ items \in Seq(ItemRec) /\ paused \in BOOLEAN /\ handoff \in BOOLEAN
      /\ dispatch \in DispatchRec
  <2>1. Q \in Queue /\ Q.items = items /\ Q.paused = paused /\ Q.handoff = handoff
        /\ Q.dispatch = dispatch
    BY <1>a DEF TypeInv, QueueT, Q
  <2> QED BY <2>1, QueueIs
<1>3. Seq(ItemRec) = Seq([msg : Messages, target : (SUBSET Sides) \ {{}}, chats : Chats])
  BY DEF ItemRec, SomeSides
<1>4. target \in (SUBSET Sides) \ {{}}
  BY <1>a DEF TypeInv, RestT, SomeSides
<1> HIDE DEF TypeInv
<1>5. items \in Seq([msg : Messages, target : (SUBSET Sides) \ {{}}, chats : Chats])
  BY <1>2, <1>3
<1>6. \A t \in DOMAIN turn :
         turn[t] \in [msg : Messages, by : {"user", "queue"}, chats : Chats,
                      at : [Sides -> Stages], failed : SUBSET Sides, open : BOOLEAN]
  BY <1>1 DEF TurnRec
<1> QED BY <1>a, <1>1, <1>2, <1>4, <1>5, <1>6
      DEF Planned, TypeInv, QueueT, RestT, ServerT, PanelRec, DispatchRec, TypeOK

\* What a step may do to the turns: move one panel of one, close one, begin one.
SameTurn(e, f) == e.msg = f.msg /\ e.by = f.by /\ e.chats = f.chats
Moves(t, s, stage) ==
    /\ turn' \in Seq(TurnRec) /\ Len(turn') = Len(turn)
    /\ \A k \in 1..Len(turn) : SameTurn(turn'[k], turn[k]) /\ turn'[k].open = turn[k].open
    /\ \A k \in 1..Len(turn), z \in Sides :
          turn'[k].at[z] = IF k = t /\ z = s THEN stage ELSE turn[k].at[z]
    /\ \A k \in 1..Len(turn) : \A z \in turn'[k].failed :
          z \in turn[k].failed \/ (k = t /\ z = s)
Closes(t) ==
    /\ turn' \in Seq(TurnRec) /\ Len(turn') = Len(turn)
    /\ \A k \in 1..Len(turn) : SameTurn(turn'[k], turn[k]) /\ turn'[k].at = turn[k].at
                               /\ turn'[k].failed = turn[k].failed
                               /\ turn'[k].open = (k # t /\ turn[k].open)
Begins(sides, by, m) ==
    /\ turn' \in Seq(TurnRec) /\ Len(turn') = Len(turn) + 1 /\ Len(turn) + 1 <= MaxTurns
    /\ \A k \in 1..Len(turn) : turn'[k] = turn[k]
    /\ LET e == turn'[Len(turn) + 1] IN
       /\ e.msg = m /\ e.by = by /\ e.chats = Now /\ e.open /\ e.failed = {}
       /\ \A s \in Sides : e.at[s] = IF s \in sides THEN "asked" ELSE "none"

\* One panel of a turn moves.
LEMMA MovesIs ==
    ASSUME TurnT, NEW t \in 1..Len(turn), NEW s \in Sides, NEW stage \in Stages,
           NEW fails \in SUBSET Sides, fails \subseteq turn[t].failed \cup {s},
           \/ turn' = [turn EXCEPT ![t].at[s] = stage]
           \/ turn' = [turn EXCEPT ![t].at[s] = stage, ![t].failed = fails]
    PROVE  Moves(t, s, stage)
<1> DEFINE a == [turn[t].at EXCEPT ![s] = stage]
           f == IF turn' = [turn EXCEPT ![t].at[s] = stage] THEN turn[t].failed ELSE fails
           e == [turn[t] EXCEPT !.at = a, !.failed = f]
<1>1. turn[t] \in TurnRec /\ Len(turn) \in Nat /\ turn \in Seq(TurnRec)
      /\ \A k \in 1..Len(turn) : turn[k] \in TurnRec
  BY LengthIs DEF TurnT
<1>2. a \in [Sides -> Stages] /\ f \in SUBSET Sides /\ f \subseteq turn[t].failed \cup {s}
      /\ \A z \in Sides : a[z] = IF z = s THEN stage ELSE turn[t].at[z]
  BY <1>1 DEF TurnRec
<1>3. turn' = [turn EXCEPT ![t] = e]
  <2>1. CASE turn' = [turn EXCEPT ![t].at[s] = stage]
    <3>1. e = [turn[t] EXCEPT !.at = a]
      <4>1. f = turn[t].failed
        BY <2>1
      <4> HIDE DEF f, a
      <4> QED BY <1>1, <4>1 DEF TurnRec
    <3>2. turn' = [turn EXCEPT ![t] = [turn[t] EXCEPT !.at = a]]
      BY <2>1
    <3> QED BY <3>1, <3>2
  <2>2. CASE turn' = [turn EXCEPT ![t].at[s] = stage, ![t].failed = fails] /\
             turn' # [turn EXCEPT ![t].at[s] = stage]
    <3>1. f = fails
      BY <2>2
    <3> HIDE DEF f
    <3> QED BY <1>1, <2>2, <3>1, LenProperties
  <2> QED BY <2>1, <2>2
<1>4. e \in TurnRec /\ SameTurn(e, turn[t]) /\ e.open = turn[t].open /\ e.at = a /\ e.failed = f
  <2> HIDE DEF a, f
  <2> QED BY <1>1, <1>2 DEF TurnRec, SameTurn
<1> HIDE DEF e, a, f
<1>5. /\ turn' \in Seq(TurnRec) /\ Len(turn') = Len(turn)
      /\ \A k \in 1..Len(turn) : turn'[k] = IF k = t THEN e ELSE turn[k]
  BY <1>1, <1>3, <1>4, ExceptSeq
<1>6. \A k \in 1..Len(turn) : SameTurn(turn'[k], turn[k]) /\ turn'[k].open = turn[k].open
  BY <1>4, <1>5 DEF SameTurn
<1>7. ASSUME NEW k \in 1..Len(turn), NEW z \in Sides
      PROVE  turn'[k].at[z] = IF k = t /\ z = s THEN stage ELSE turn[k].at[z]
  BY <1>2, <1>4, <1>5
<1>8. ASSUME NEW k \in 1..Len(turn), NEW z \in turn'[k].failed
      PROVE  z \in turn[k].failed \/ (k = t /\ z = s)
  BY <1>2, <1>4, <1>5
<1> QED BY <1>5, <1>6, <1>7, <1>8 DEF Moves

\* One turn is replaced, the others stay.
LEMMA PutIs ==
    ASSUME TurnT, NEW t \in 1..Len(turn), NEW e \in TurnRec, turn' = [turn EXCEPT ![t] = e]
    PROVE  /\ turn' \in Seq(TurnRec) /\ Len(turn') = Len(turn)
           /\ \A k \in 1..Len(turn) : turn'[k] = IF k = t THEN e ELSE turn[k]
  BY ExceptSeq DEF TurnT

\* One turn is closed, as a record.
LEMMA Closing ==
    ASSUME TurnT, NEW t \in 1..Len(turn), NEW e \in TurnRec, SameTurn(e, turn[t]),
           e.at = turn[t].at, e.failed = turn[t].failed, e.open = FALSE,
             turn' = [turn EXCEPT ![t] = e]
    PROVE  Closes(t)
<1>1. /\ turn' \in Seq(TurnRec) /\ Len(turn') = Len(turn)
      /\ \A k \in 1..Len(turn) : turn'[k] = IF k = t THEN e ELSE turn[k]
  BY PutIs
<1>2. ASSUME NEW k \in 1..Len(turn)
      PROVE  /\ SameTurn(turn'[k], turn[k]) /\ turn'[k].at = turn[k].at
             /\ turn'[k].failed = turn[k].failed
             /\ turn'[k].open = (k # t /\ turn[k].open)
  <2>0. turn[k].open \in BOOLEAN
    BY LengthIs DEF TurnRec
  <2>1. CASE k = t
    <3>1. turn'[k] = e
      BY <1>1, <2>1
    <3>2. (k # t /\ turn[k].open) = FALSE
      BY <2>1
    <3>3. SameTurn(turn'[k], turn[k]) /\ turn'[k].at = turn[k].at
          /\ turn'[k].failed = turn[k].failed
      BY <2>1, <3>1
    <3>4. turn'[k].open = FALSE
      BY <3>1
    <3> QED BY <3>2, <3>3, <3>4
  <2>2. CASE k # t
    <3>1. turn'[k] = turn[k]
      BY <1>1, <2>2
    <3>2. (k # t /\ turn[k].open) = turn[k].open
      BY <2>0, <2>2
    <3> QED BY <3>1, <3>2 DEF SameTurn
  <2> QED BY <2>1, <2>2
<1> QED BY <1>1, <1>2 DEF Closes

\* One turn is closed.
LEMMA ClosesIs ==
    ASSUME TurnT, NEW t \in 1..Len(turn), turn' = [turn EXCEPT ![t].open = FALSE]
    PROVE  Closes(t)
<1>0. PICK b \in BOOLEAN : b = FALSE
  OBVIOUS
<1> DEFINE e == [turn[t] EXCEPT !.open = b]
<1>1. turn[t] \in TurnRec
  BY LengthIs
<1>2. turn' = [turn EXCEPT ![t] = e]
  BY <1>0
<1>3. e \in TurnRec /\ SameTurn(e, turn[t]) /\ e.at = turn[t].at /\ e.failed = turn[t].failed /\
      e.open = b
  BY <1>1 DEF TurnRec, SameTurn
<1> HIDE DEF e
<1> QED BY <1>0, <1>2, <1>3, Closing

\* The chats in the panels.
LEMMA NowIs == panel \in [Sides -> PanelRec] => Now \in Chats
  BY DEF PanelRec, Now, Chats

\* What Begin changes.
LEMMA BeginIs ==
    ASSUME Planned, TurnT, panel \in [Sides -> PanelRec], NEW sides \in SUBSET Sides,
           NEW by \in {"user", "queue"}, NEW m \in Messages, Begin(sides, by, m)
    PROVE  /\ Begins(sides, by, m) /\ panel' \in [Sides -> PanelRec] /\ composing'
           /\ \A s \in sides : panel'[s].turn = Len(turn) + 1 /\ ~panel'[s].stop
           /\ \A s \in sides : panel'[s].replacing = panel[s].replacing
           /\ \A s \in Sides \ sides : panel'[s] = panel[s]
<1> DEFINE n == Len(turn) + 1
           a == [s \in Sides |-> IF s \in sides THEN "asked" ELSE "none"]
           e == [msg |-> m, by |-> by, chats |-> Now, failed |-> {}, open |-> TRUE, at |-> a]
<1>1. Len(turn) \in Nat /\ Len(turn) < MaxTurns /\ turn \in Seq(TurnRec) /\ n \in Turns
  <2>1. Len(turn) \in Nat /\ turn \in Seq(TurnRec)
    BY LengthIs DEF TurnT
  <2>2. Len(turn) < MaxTurns
    BY DEF Begin
  <2>3. MaxTurns \in Nat
    BY DEF Planned, SplitAssumption
  <2> QED BY <2>1, <2>2, <2>3 DEF Turns
<1>2. a \in [Sides -> Stages] /\ \A s \in Sides : a[s] = IF s \in sides THEN "asked" ELSE "none"
  BY DEF Stages
<1>3. turn' = Append(turn, e)
  BY DEF Begin
<1> HIDE DEF a
<1>4. e \in TurnRec /\ e.msg = m /\ e.by = by /\ e.chats = Now /\ e.open /\ e.at = a /\
      e.failed = {}
  BY <1>2, NowIs DEF TurnRec
<1> HIDE DEF e
<1>5. /\ turn' \in Seq(TurnRec) /\ Len(turn') = n /\ turn'[n] = e
      /\ \A k \in 1..Len(turn) : turn'[k] = turn[k]
  BY <1>1, <1>3, <1>4, AppendProperties
<1>6. n <= MaxTurns
  BY <1>1 DEF Planned, SplitAssumption
<1>7. Begins(sides, by, m)
  BY <1>2, <1>4, <1>5, <1>6 DEF Begins
<1>8. ASSUME NEW s \in Sides
      PROVE  /\ panel'[s] \in PanelRec
             /\ s \in sides => panel'[s].turn = n /\ ~panel'[s].stop
                                /\ panel'[s].replacing = panel[s].replacing
             /\ s \notin sides => panel'[s] = panel[s]
  <2> PICK b \in BOOLEAN : b = FALSE
    OBVIOUS
  <2>1. panel'[s] = IF s \in sides THEN [panel[s] EXCEPT !.turn = n, !.stop = b] ELSE panel[s]
    BY DEF Begin
  <2>2. panel[s] \in PanelRec
    OBVIOUS
  <2> HIDE DEF n
  <2> QED BY <1>1, <2>1, <2>2 DEF PanelRec
<1>9. panel' \in [Sides -> PanelRec]
  <2>1. panel' = [s \in Sides |-> panel'[s]]
    BY DEF Begin
  <2> QED BY <1>8, <2>1
<1> QED BY <1>7, <1>8, <1>9 DEF Begin

-----------------------------------------------------------------------------
(* What happens to the queue of a state. *)

QueueOK == /\ Q' \in Queue /\ (paused' => items' # <<>>)
           /\ dispatch'.gens \subseteq dispatch'.accepted

\* The parts of Q.
LEMMA QIs == Q.items = items /\ Q.paused = paused /\ Q.dispatch = dispatch /\ Q.handoff = handoff
  BY DEF Q

\* The queue after SetQueue.
LEMMA SetQueueIs ==
    ASSUME NEW q \in Queue, SetQueue(q), q.dispatch.gens \subseteq q.dispatch.accepted
    PROVE  /\ QueueOK /\ items' = q.items /\ paused' = (q.paused /\ q.items # <<>>)
           /\ dispatch' = q.dispatch /\ handoff' = q.handoff
<1>1. /\ items' = q.items /\ paused' = (q.paused /\ q.items # <<>>)
      /\ dispatch' = q.dispatch /\ handoff' = q.handoff
  BY DEF SetQueue
<1>2. Q' = [items |-> q.items, paused |-> paused', dispatch |-> q.dispatch,
            handoff |-> q.handoff]
  BY <1>1 DEF Q
<1>3. paused' \in BOOLEAN /\ q.items \in Seq(ItemRec) /\ q.dispatch \in DispatchRec
      /\ q.handoff \in BOOLEAN
  BY <1>1, QueueIs
<1>4. Q' \in Queue
  BY <1>2, <1>3 DEF Queue
<1> QED BY <1>1, <1>4 DEF QueueOK

\* The queue stays well-formed when its dispatch stays or ends.
LEMMA QueueKept ==
    ASSUME QueueT, TurnT, TurnT', Len(turn) <= Len(turn'),
           \A k \in 1..Len(turn) : turn'[k].by = turn[k].by,
           QueueOK, dispatch' = NoDispatch \/ dispatch'.turn = dispatch.turn,
           dispatch'.turn = None => dispatch' = NoDispatch
    PROVE  QueueT'
<1>1. Len(turn) \in Nat /\ Len(turn') \in Nat
  BY LengthIs, LenProperties DEF TurnT
<1> QED BY <1>1, NothingWaits DEF QueueT, QueueOK

\* The items after a turn that some panels did not take.
NarrowsNow ==
    LET lacking == Meant(dispatch.turn) \ dispatch.accepted
    IN  \/ (dispatch.accepted = {} \/ lacking = {}) /\ items' = items
        \/ /\ dispatch.accepted # {} /\ lacking # {}
           /\ Narrows(items, items', turn[dispatch.turn].msg, lacking)

\* What the end of a panel's generation does to the queue.
Awaits(t, s) == dispatch # NoDispatch /\ dispatch.turn = t /\ s \in dispatch.gens
After(status) == paused' = IF status = "finished" THEN paused ELSE items # <<>>
Frees(t, s, status) ==
    /\ dispatch' = NoDispatch /\ After(status) /\ items' = items
    /\ dispatch = NoDispatch \/ (Awaits(t, s) /\ dispatch.gens = {s} /\ Complete(Q))
Ignores(t, s) == /\ dispatch # NoDispatch /\ ~Awaits(t, s)
                 /\ dispatch' = dispatch /\ paused' = paused /\ items' = items
Awaited(t, s) ==
    /\ Awaits(t, s) /\ dispatch'.turn = t /\ dispatch'.accepted = dispatch.accepted
    /\ dispatch'.gens = dispatch.gens \ {s} /\ paused' = paused /\ items' = items
    /\ dispatch.gens # {s} \/ (turn[t].open /\ ~Complete(Q))
Gives(t, s) ==
    /\ Awaits(t, s) /\ dispatch.gens = {s} /\ ~Complete(Q) /\ ~turn[t].open
    /\ dispatch' = NoDispatch /\ paused' = (items' # <<>>) /\ NarrowsNow
Hears(t, s, status) ==
    \/ Frees(t, s, status) \/ Ignores(t, s) \/ Awaited(t, s) \/ Gives(t, s)

\* Narrowing keeps how many items there are.
LEMMA NarrowedKeeps ==
    ASSUME NEW s \in Seq(ItemRec), NEW u \in Seq(ItemRec), NEW m, NEW l, Narrows(s, u, m, l)
    PROVE  (u = <<>>) = (s = <<>>)
<1>1. Len(u) = Len(s)
  BY DEF Narrows
<1> QED BY <1>1, EmptySeq

\* The queue hears of the end of a generation in one of four ways.
LEMMA TerminalIs ==
    ASSUME TypeInv, NEW t, NEW s \in Sides, NEW status,
           SetQueue(Terminal(Q, t, s, status))
    PROVE  QueueOK /\ Hears(t, s, status)
<1>0. Q \in Queue /\ (paused => items # <<>>) /\ dispatch.gens \subseteq dispatch.accepted
      /\ paused \in BOOLEAN /\ dispatch \in DispatchRec
  <2>1. Q \in Queue /\ (paused => items # <<>>) /\ dispatch.gens \subseteq dispatch.accepted
    BY DEF TypeInv, QueueT
  <2> QED BY <2>1, QIs, QueueIs
<1> DEFINE d == [dispatch EXCEPT !.gens = @ \ {s}]
           rest == [Q EXCEPT !.dispatch = d]
           free == Released(Q)
<1>1. /\ d \in DispatchRec /\ d.turn = dispatch.turn /\ d.accepted = dispatch.accepted
      /\ d.gens = dispatch.gens \ {s}
  BY <1>0 DEF DispatchRec
<1> HIDE DEF d
<1>2. /\ rest \in Queue /\ rest.dispatch = d /\ rest.items = items /\ rest.handoff = handoff
      /\ rest.paused = paused
  BY <1>0, <1>1, DispatchIs, QIs
<1>3. rest = [Q EXCEPT !.dispatch.gens = @ \ {s}]
  BY QIs DEF d, Q
<1> HIDE DEF rest
<1>4. free \in Queue /\ free.items = items /\ free.dispatch = NoDispatch /\ free.paused = paused
  BY <1>0, ReleasedIs, QIs
<1> HIDE DEF free
<1>5. Complete(rest) <=> Complete(Q)
  BY <1>1, <1>2, QIs DEF Complete
<1> DEFINE goes == IF status = "finished" THEN Scheduled(free) ELSE Halt(free)
<1>6. Terminal(Q, t, s, status) =
         IF dispatch = NoDispatch THEN goes
         ELSE IF dispatch.turn # t \/ s \notin dispatch.gens THEN Q
         ELSE IF d.gens # {} \/ (~Complete(Q) /\ turn[dispatch.turn].open) THEN rest
         ELSE IF Complete(Q) THEN goes ELSE Halt(Released(Narrowed(Q)))
  BY <1>2, <1>3, QIs DEF Terminal, free
<1>7. /\ goes \in Queue /\ goes.items = items /\ goes.dispatch = NoDispatch
      /\ status = "finished" => goes.paused = paused
      /\ status # "finished" => goes.paused = (items # <<>>)
  <2>1. CASE status = "finished"
    BY <1>4, <2>1, ScheduledIs
  <2>2. CASE status # "finished"
    BY <1>4, <2>2, HaltIs
  <2> QED BY <2>1, <2>2
<1> HIDE DEF goes
<1>8. ASSUME SetQueue(goes)
      PROVE  QueueOK /\ dispatch' = NoDispatch /\ After(status) /\ items' = items
  <2>1. goes.dispatch.gens \subseteq goes.dispatch.accepted
    BY <1>7, NothingWaits
  <2>2. /\ QueueOK /\ items' = items /\ paused' = (goes.paused /\ items # <<>>)
        /\ dispatch' = NoDispatch
    BY <1>7, <1>8, <2>1, SetQueueIs
  <2>3. After(status)
    <3>1. CASE status = "finished"
      <4>1. goes.paused = paused /\ paused' = (paused /\ items # <<>>)
        BY <1>7, <2>2, <3>1
      <4>2. (paused /\ items # <<>>) = paused
        BY <1>0
      <4> QED BY <3>1, <4>1, <4>2 DEF After
    <3>2. CASE status # "finished"
      <4>1. paused' = (items # <<>>)
        BY <1>7, <2>2, <3>2
      <4> QED BY <3>2, <4>1 DEF After
    <3> QED BY <3>1, <3>2
  <2> QED BY <2>2, <2>3
<1>9. CASE dispatch = NoDispatch
  <2>1. SetQueue(goes)
    BY <1>6, <1>9
  <2> QED BY <1>8, <1>9, <2>1 DEF Hears, Frees
<1>10. CASE dispatch # NoDispatch /\ (dispatch.turn # t \/ s \notin dispatch.gens)
  <2>1. SetQueue(Q)
    BY <1>6, <1>10
  <2>2. QueueOK /\ items' = items /\ paused' = (paused /\ items # <<>>) /\ dispatch' = dispatch
    BY <1>0, <2>1, SetQueueIs, QIs
  <2>3. paused' = paused
    BY <1>0, <2>2
  <2> QED BY <1>10, <2>2, <2>3 DEF Hears, Ignores, Awaits
<1>11. CASE Awaits(t, s) /\ (d.gens # {} \/ (~Complete(Q) /\ turn[dispatch.turn].open))
  <2>1. SetQueue(rest)
    BY <1>6, <1>11 DEF Awaits
  <2>2. QueueOK /\ items' = items /\ paused' = (paused /\ items # <<>>) /\ dispatch' = d
    <3>1. d.gens \subseteq d.accepted
      BY <1>0, <1>1
    <3> QED BY <1>2, <2>1, <3>1, SetQueueIs
  <2>3. paused' = paused
    BY <1>0, <2>2
  <2>4. dispatch.gens # {s} \/ (turn[t].open /\ ~Complete(Q))
    BY <1>1, <1>11 DEF Awaits
  <2> QED BY <1>1, <1>11, <2>2, <2>3, <2>4 DEF Hears, Awaited, Awaits
<1>12. CASE Awaits(t, s) /\ d.gens = {} /\ Complete(Q)
  <2>1. SetQueue(goes)
    BY <1>6, <1>12 DEF Awaits
  <2>2. dispatch.gens = {s}
    BY <1>1, <1>12 DEF Awaits
  <2> QED BY <1>8, <1>12, <2>1, <2>2 DEF Hears, Frees
<1>13. CASE Awaits(t, s) /\ d.gens = {} /\ ~Complete(Q) /\ ~turn[t].open
  <2> DEFINE n == Narrowed(Q)
             h == Halt(Released(n))
  <2>1. SetQueue(h)
    BY <1>6, <1>13 DEF Awaits
  <2>2. dispatch.gens = {s}
    BY <1>1, <1>13 DEF Awaits
  <2>3. n \in Queue
        /\ LET lacking == Meant(dispatch.turn) \ dispatch.accepted
           IN  \/ (dispatch.accepted = {} \/ lacking = {}) /\ n.items = items
               \/ /\ dispatch.accepted # {} /\ lacking # {}
                  /\ Narrows(items, n.items, turn[dispatch.turn].msg, lacking)
    BY <1>0, NarrowedIs, QIs
  <2> HIDE DEF n
  <2>4. Released(n) \in Queue /\ Released(n).items = n.items /\ Released(n).dispatch = NoDispatch
    BY <2>3, ReleasedIs
  <2>5. h \in Queue /\ h.items = n.items /\ h.dispatch = NoDispatch /\ h.paused = (n.items # <<>>)
    BY <2>4, HaltIs
  <2> HIDE DEF h
  <2>6. h.dispatch.gens \subseteq h.dispatch.accepted
    BY <2>5, NothingWaits
  <2>7. QueueOK /\ items' = n.items /\ paused' = (n.items # <<>>) /\ dispatch' = NoDispatch
    BY <2>1, <2>5, <2>6, SetQueueIs
  <2>8. NarrowsNow
    BY <2>3, <2>7 DEF NarrowsNow
  <2> QED BY <1>13, <2>2, <2>7, <2>8 DEF Hears, Gives
<1> QED BY <1>9, <1>10, <1>11, <1>12, <1>13 DEF Awaits

\* A message is sent: the first one, and nothing else happens to the queue.
Sends(q, force) ==
    /\ q.items # <<>> /\ dispatch = NoDispatch /\ (q.paused => force) /\ paused' = q.paused
    /\ \A s \in Sides : ~Busy(s)
    /\ q.items[1].chats = Now
    /\ dispatch' = [turn |-> Len(turn) + 1, gens |-> {}, accepted |-> {}]
    /\ Begin(q.items[1].target, "queue", q.items[1].msg)

\* ProcessNext sends the first message, or sends nothing and may pause.
LEMMA ProcessNextIs ==
    ASSUME Planned, TypeInv, NEW q \in Queue, q.dispatch = dispatch,
           q.paused => q.items # <<>>, NEW force, ProcessNext(q, force)
    PROVE  /\ QueueOK /\ items' = q.items
           /\ \/ /\ dispatch' = dispatch /\ UNCHANGED <<panel, composing, turn>>
                 /\ (q.paused => paused')
              \/ Sends(q, force)
<1> DEFINE held == \/ q.dispatch # NoDispatch \/ (q.paused /\ ~force)
                   \/ \E s \in Sides : Busy(s)
                   \/ q.items = <<>>
<1>0. dispatch.gens \subseteq dispatch.accepted /\ q.paused \in BOOLEAN
  BY QueueIs DEF TypeInv, QueueT
<1>1. CASE held /\ SetQueue(q) /\ UNCHANGED <<panel, composing, turn>>
  <2>1. QueueOK /\ items' = q.items /\ paused' = (q.paused /\ q.items # <<>>)
        /\ dispatch' = dispatch
    BY <1>0, <1>1, SetQueueIs
  <2> QED BY <1>1, <2>1
<1>2. CASE ~held /\ SetQueue(Halt(q)) /\ UNCHANGED <<panel, composing, turn>>
  <2>1. Halt(q) \in Queue /\ Halt(q).items = q.items /\ Halt(q).dispatch = dispatch
        /\ Halt(q).paused = (q.items # <<>>)
    BY HaltIs
  <2>2. QueueOK /\ items' = q.items /\ paused' = (q.items # <<>>) /\ dispatch' = dispatch
    BY <1>0, <1>2, <2>1, SetQueueIs
  <2> QED BY <1>2, <2>2
<1>3. CASE /\ ~held /\ q.items[1].chats = Now /\ ~Refuses(q.items[1].target)
           /\ Begin(q.items[1].target, "queue", q.items[1].msg)
           /\ SetQueue([q EXCEPT !.dispatch =
                           [turn |-> Len(turn) + 1, gens |-> {}, accepted |-> {}]])
  <2> DEFINE n == Len(turn) + 1
             d == [turn |-> n, gens |-> {}, accepted |-> {}]
             p == [q EXCEPT !.dispatch = d]
  <2>1. n \in Turns
    <3>1. Len(turn) \in Nat /\ Len(turn) < MaxTurns
      BY <1>3, LengthIs DEF Begin, TypeInv
    <3> QED BY <3>1 DEF Turns, Planned, SplitAssumption
  <2>2. d \in DispatchRec /\ d.gens \subseteq d.accepted
    <3> HIDE DEF n
    <3> QED BY <2>1 DEF DispatchRec
  <2>3. p \in Queue /\ p.dispatch = d /\ p.items = q.items /\ p.paused = q.paused
    BY <2>2, DispatchIs
  <2>4. SetQueue(p)
    BY <1>3
  <2> HIDE DEF p, d
  <2>5. QueueOK /\ items' = q.items /\ paused' = (q.paused /\ q.items # <<>>) /\ dispatch' = d
    BY <2>2, <2>3, <2>4, SetQueueIs
  <2>6. paused' = q.paused
    BY <1>0, <2>5
  <2>7. Sends(q, force)
    BY <1>3, <2>5, <2>6 DEF Sends, d
  <2> QED BY <2>5, <2>7
<1> QED BY <1>1, <1>2, <1>3 DEF ProcessNext

-----------------------------------------------------------------------------
(* The kinds of steps.  Each action is one of them; all later proofs read a
   step through its kind. *)

\* What every step keeps of every turn.
Grown == /\ TurnT' /\ Len(turn) <= Len(turn')
         /\ \A k \in 1..Len(turn) : SameTurn(turn'[k], turn[k])

\* A message is typed; it joins the queue; one leaves it by the user's hand.
Idle == typed' = typed /\ wanted' = wanted
Typing == /\ typed < MaxMessages /\ typed' = typed + 1
          /\ wanted' = [wanted EXCEPT ![typed + 1] = [to |-> target, chats |-> Now]]
Joins == Typing /\ items' = Append(items, Item) /\ thrown' = thrown
Stays == Idle /\ items' = items /\ thrown' = thrown
Removes == Idle /\ \E m \in thrown' : Takes(items, items', m) /\ thrown \subseteq thrown'

\* A pause outlives the step unless the break it is for is over.
Quietly == broken' => broken /\ (paused => paused') /\ (items # <<>> => items' # <<>>)
Gentle == Mishaps \cap {"stop", "replace", "lost"} = {}
NoReplace == "replace" \notin Mishaps

PanelsRest == \A s \in Sides :
    /\ panel'[s].turn = panel[s].turn
    /\ Gentle /\ panel'[s].stop => panel[s].stop
    /\ NoReplace /\ panel'[s].replacing # None => panel[s].replacing # None
PanelsAsk(sides) ==
    /\ \A s \in sides : /\ panel[s].turn = None /\ panel'[s].turn = Len(turn) + 1
                        /\ ~panel'[s].stop /\ panel'[s].replacing = panel[s].replacing
    /\ \A s \in Sides \ sides : panel'[s] = panel[s]
PanelFree(t, s) ==
    /\ Owns(t, s) => panel'[s].turn = None /\ ~panel'[s].stop
                     /\ panel'[s].replacing = panel[s].replacing
    /\ \A z \in Sides : z # s \/ ~Owns(t, s) => panel'[z] = panel[z]

\* No turn and nothing on the server changes.
Rests ==
    /\ turn' = turn /\ server' = server /\ dispatch' = dispatch
    /\ Stays \/ Joins \/ Removes
    /\ Gentle => Quietly
    /\ PanelsRest
    /\ target' = target \/ target' \in Targets

\* The user's message goes out; the queue's first message does.
UserAsks ==
    /\ Typing /\ items' = items /\ dispatch' = dispatch /\ thrown' = thrown
    /\ server' = server /\ target' = target /\ Quietly
    /\ Begins(target, "user", typed + 1) /\ PanelsAsk(target)
QueueAsks ==
    /\ Stays \/ Joins
    /\ server' = server /\ target' = target /\ Quietly /\ (broken' => ~paused)
    /\ dispatch = NoDispatch /\ items' # <<>>
    /\ dispatch' = [turn |-> Len(turn) + 1, gens |-> {}, accepted |-> {}]
    /\ items'[1].chats = Now
    /\ Begins(items'[1].target, "queue", items'[1].msg) /\ PanelsAsk(items'[1].target)
    /\ \A s \in Sides : panel[s].turn = None

\* The server takes a generation on, or ends it.
Serves(t, s) ==
    /\ \A u \in Turns, z \in Sides : u # t \/ z # s => server'[u][z] = server[u][z]
    /\ server'[t][s] # "absent" /\ (server[t][s] # "absent" \/ turn[t].at[s] = "asked")
    /\ turn' = turn /\ dispatch' = dispatch /\ Stays /\ target' = target /\ panel' = panel
    /\ paused' = paused /\ broken' = broken

\* A panel has taken the message.
TakesUp(t, s) ==
    LET all == dispatch.accepted \cup {s} IN
    \/ dispatch.turn # t /\ items' = items /\ dispatch' = dispatch
    \/ /\ dispatch.turn = t /\ dispatch'.turn = t
       /\ dispatch'.gens = dispatch.gens \cup {s} /\ dispatch'.accepted = all
       /\ \/ all # Meant(t) /\ items' = items
          \/ all = Meant(t) /\ Takes(items, items', turn[t].msg)
Answers(t, s) ==
    /\ turn[t].at[s] = "asked" /\ server[t][s] # "absent" /\ Moves(t, s, "reading")
    /\ server' = server /\ Idle /\ thrown' = thrown /\ target' = target /\ panel' = panel
    /\ Quietly /\ TakesUp(t, s)

\* A panel's part of a turn is over.
Why(t, s, stage, status) ==
    \/ /\ turn[t].at[s] = "asked" /\ stage = "settled"
       /\ \/ (server[t][s] = "absent" \/ "lost" \in Mishaps) /\ status = "failed"
          \/ panel[s].stop
    \/ /\ turn[t].at[s] = "reading" /\ stage = "ended" /\ Owns(t, s) /\ status = "finished"
       /\ server[t][s] # "absent"
    \/ turn[t].at[s] = "ended" /\ stage = "settled" /\ status = "finished"
    \/ /\ turn[t].at[s] = "reading" /\ stage = "settled"
       /\ \/ Owns(t, s) /\ status = "failed"
          \/ panel[s].stop \/ ~Owns(t, s)
Fails(t, s, status) ==
    /\ status = "failed" => /\ broken' => broken \/ dispatch.turn \in {t, None}
                            /\ broken' => items # <<>> \/ broken
                            /\ target' = IF turn[t].failed \ {s} = {} THEN {s} ELSE Sides
    /\ status # "failed" => target' = target /\ Quietly
Ends(t, s, stage, status) ==
    /\ Why(t, s, stage, status) /\ Moves(t, s, stage)
    /\ server' = server /\ Idle /\ thrown' = thrown
    /\ PanelFree(t, s) /\ Fails(t, s, status) /\ (paused => paused')
    /\ Owns(t, s) => Hears(t, s, status)
    /\ ~Owns(t, s) => items' = items /\ dispatch' = dispatch /\ paused' = paused

\* Another chat takes the panel.
Evicts(s) ==
    /\ panel[s].replacing # None /\ turn' = turn /\ server' = server /\ Idle /\ thrown' = thrown
    /\ panel[s].turn # None => Hears(panel[s].turn, s, "interrupted")
    /\ panel[s].turn = None => items' = items /\ dispatch' = dispatch

\* split.send returns.
Gathers(t) ==
    \/ dispatch.turn # t /\ items' = items /\ dispatch' = dispatch
    \/ dispatch.turn = t /\ dispatch.gens # {} /\ items' = items /\ dispatch' = dispatch
    \/ /\ dispatch.turn = t /\ dispatch' = NoDispatch
       /\ \/ dispatch.accepted = {} /\ items' = items /\ paused' = (items' # <<>>)
          \/ dispatch.accepted # {} /\ Complete(Q) /\ items' = items
          \/ dispatch.accepted # {} /\ ~Complete(Q) /\ NarrowsNow /\ paused' = (items' # <<>>)
Settles(t) ==
    /\ \A s \in Sides : turn[t].at[s] \in {"none", "settled"}
    /\ Closes(t) /\ Gathers(t) /\ Quietly
    /\ server' = server /\ Idle /\ thrown' = thrown /\ target' = target /\ panel' = panel

Kind ==
    \/ Rests \/ UserAsks \/ QueueAsks
    \/ \E t \in 1..Len(turn) :
         \/ Settles(t)
         \/ \E s \in Sides : \/ Serves(t, s) \/ Answers(t, s)
                             \/ \E stage \in {"ended", "settled"},
                                   status \in {"finished", "failed", "interrupted"} :
                                   Ends(t, s, stage, status)
    \/ \E s \in Sides : Evicts(s)

-----------------------------------------------------------------------------
(* Every action is of one kind and keeps the types. *)

\* Every change of the turns lets them grow.
LEMMA MovesGrow ==
    ASSUME Planned, TurnT,
           \/ turn' = turn
           \/ \E t, s, stage : Moves(t, s, stage)
           \/ \E t : Closes(t)
           \/ \E sides, by, m : Begins(sides, by, m)
    PROVE  Grown
<1>0. Len(turn) \in Nat /\ turn \in Seq(TurnRec) /\ Len(turn) <= MaxTurns
  BY LengthIs DEF TurnT
<1>1. CASE turn' = turn
  BY <1>0, <1>1 DEF Grown, TurnT, SameTurn
<1>2. ASSUME NEW t, NEW s, NEW stage, Moves(t, s, stage) PROVE Grown
  BY <1>0, <1>2 DEF Grown, TurnT, Moves
<1>3. ASSUME NEW t, Closes(t) PROVE Grown
  BY <1>0, <1>3 DEF Grown, TurnT, Closes
<1>4. ASSUME NEW sides, NEW by, NEW m, Begins(sides, by, m) PROVE Grown
  BY <1>0, <1>4 DEF Grown, TurnT, Begins, SameTurn
<1> QED BY <1>1, <1>2, <1>3, <1>4

\* The server's records keep their type when it does nothing.
LEMMA ServerKept == ASSUME ServerT, TurnT, Grown, server' = server PROVE ServerT'
<1>1. Len(turn) \in Nat /\ Len(turn') \in Nat /\ Len(turn) <= Len(turn')
  BY LengthIs, LenProperties DEF Grown, TurnT
<1> QED BY <1>1 DEF ServerT

\* Old turns stay whose they were.
LEMMA ByKept == Grown => Len(turn) <= Len(turn') /\ \A k \in 1..Len(turn) : turn'[k].by = turn[k].by
  BY DEF Grown, SameTurn

\* What typing a message changes.
LEMMA TypedIs ==
    ASSUME Planned, RestT, Idle \/ Typing
    PROVE  /\ typed' \in 0..MaxMessages /\
                 wanted' \in [Messages -> [to : SUBSET Sides, chats : Chats]]
           /\ Typing => typed + 1 \in Messages /\ Item \in ItemRec
<1>1. CASE Idle /\ ~Typing
  BY <1>1 DEF RestT, Idle
<1>2. CASE Typing
  <2>1. typed + 1 \in Messages /\ typed' \in 0..MaxMessages
    BY <1>2 DEF Typing, RestT, Planned, SplitAssumption, Messages
  <2>2. Now \in Chats /\ target \in SomeSides /\ target \in SUBSET Sides
    BY NowIs DEF RestT, SomeSides
  <2>3. Item \in ItemRec
    BY <2>1, <2>2 DEF Item, ItemRec
  <2> DEFINE w == [to |-> target, chats |-> Now]
  <2>4. w \in [to : SUBSET Sides, chats : Chats]
    BY <2>2
  <2>5. wanted' = [wanted EXCEPT ![typed + 1] = w]
    BY <1>2 DEF Typing
  <2> HIDE DEF w
  <2>6. wanted' \in [Messages -> [to : SUBSET Sides, chats : Chats]]
    BY <2>4, <2>5 DEF RestT
  <2> QED BY <2>1, <2>3, <2>6
<1> QED BY <1>1, <1>2

\* Both ways to record a break keep its type.
LEMMA BrokenIs ==
    ASSUME broken \in BOOLEAN
    PROVE  /\ Holds => /\ broken' \in BOOLEAN /\ thrown' = thrown
                       /\ (broken' => broken /\ items' # <<>>)
           /\ \A f : Breaks(f) => broken' \in BOOLEAN /\ thrown' = thrown
  BY DEF Holds, Breaks

\* The budget is respected.
LEMMA SpentIs == Planned /\ spent \in 0..Budget /\
                 (spent' = spent \/ \E k : May(k)) => spent' \in 0..Budget
  BY DEF Planned, SplitAssumption, May

\* The types after a step that keeps the turns and the server.
LEMMA TypesKept ==
    ASSUME Planned, TypeInv, Grown, QueueOK, server' = server,
           dispatch' = NoDispatch \/ dispatch'.turn = dispatch.turn,
           dispatch'.turn = None => dispatch' = NoDispatch,
           Idle \/ Typing, target' \in SomeSides, panel' \in [Sides -> PanelRec],
           composing' \in BOOLEAN, thrown' \subseteq Messages, broken' \in BOOLEAN,
           spent' = spent \/ \E k : May(k)
    PROVE  TypeInv'
<1>1. TurnT /\ QueueT /\ ServerT /\ RestT /\ TurnT'
  BY DEF TypeInv, Grown
<1>2. QueueT'
  BY <1>1, QueueKept, ByKept
<1>3. ServerT'
  BY <1>1, ServerKept
<1>4. spent' \in 0..Budget
  BY <1>1, SpentIs DEF RestT
<1>5. RestT'
  BY <1>1, <1>4, TypedIs DEF RestT
<1> QED BY <1>1, <1>2, <1>3, <1>5 DEF TypeInv

\* The queue when nothing in it changes.
LEMMA QueueStays ==
    ASSUME TypeInv, UNCHANGED queue
    PROVE  /\ QueueOK /\ items' = items /\ dispatch' = dispatch /\ paused' = paused
           /\ (dispatch'.turn = None => dispatch' = NoDispatch)
<1>1. items' = items /\ dispatch' = dispatch /\ paused' = paused /\ handoff' = handoff
  BY DEF queue
<1>2. Q' = Q
  BY <1>1 DEF Q
<1> QED BY <1>1, <1>2 DEF QueueOK, TypeInv, QueueT

\* The dispatch of a state.
LEMMA DispatchOK ==
    ASSUME TypeInv
    PROVE  /\ Q \in Queue /\ dispatch \in DispatchRec /\ (paused => items # <<>>)
           /\ dispatch.gens \subseteq dispatch.accepted
           /\ dispatch.turn = None <=> dispatch = NoDispatch
           /\ dispatch.turn # None => dispatch.turn \in 1..Len(turn)
           /\ paused \in BOOLEAN /\ items \in Seq(ItemRec)
<1>1. Q \in Queue /\ dispatch \in DispatchRec /\ items \in Seq(ItemRec) /\ paused \in BOOLEAN
  <2>1. Q \in Queue
    BY DEF TypeInv, QueueT
  <2> QED BY <2>1, QueueIs, QIs
<1> QED BY <1>1, NothingWaits DEF TypeInv, QueueT

\* The queue's first message goes out.
LEMMA SendsSteps ==
    ASSUME Planned, TypeInv, NEW q \in Queue, NEW force, Sends(q, force), QueueOK,
           items' = q.items, Stays \/ Joins, UNCHANGED <<server, target>>,
           broken' \in BOOLEAN, broken' => broken /\ ~paused, spent' = spent \/ \E k : May(k)
    PROVE  TypeInv' /\ QueueAsks
<1> DEFINE i == items'[1]
<1>0. TurnT /\ QueueT /\ ServerT /\ RestT /\ Len(turn) \in Nat
  BY LengthIs DEF TypeInv
<1>1. i \in ItemRec
  <2>1. q.items \in Seq(ItemRec) /\ q.items # <<>>
    BY QueueIs DEF Sends
  <2>2. 1 \in 1..Len(q.items)
    BY <2>1, EmptySeq, LenProperties
  <2>3. q.items[1] \in ItemRec
    BY <2>1, <2>2, ElementOfSeq
  <2> QED BY <2>3
<1>2. i.target \in SUBSET Sides /\ i.msg \in Messages
  BY <1>1 DEF ItemRec, SomeSides
<1>3. /\ Begin(i.target, "queue", i.msg) /\ i.chats = Now
      /\ dispatch = NoDispatch /\ items' # <<>> /\ \A s \in Sides : panel[s].turn = None
      /\ dispatch' = [turn |-> Len(turn) + 1, gens |-> {}, accepted |-> {}]
  BY DEF Sends, Busy
<1>4. Quietly
  BY <1>3 DEF Quietly
<1>5. /\ Begins(i.target, "queue", i.msg) /\ panel' \in [Sides -> PanelRec] /\ composing'
      /\ \A s \in i.target : panel'[s].turn = Len(turn) + 1 /\ ~panel'[s].stop
      /\ \A s \in i.target : panel'[s].replacing = panel[s].replacing
      /\ \A s \in Sides \ i.target : panel'[s] = panel[s]
  <2> HIDE DEF i
  <2>1. panel \in [Sides -> PanelRec]
    BY <1>0 DEF RestT
  <2>2. PICK m \in Messages : m = i.msg
    BY <1>2
  <2>3. PICK sides \in SUBSET Sides : sides = i.target
    BY <1>2
  <2>4. PICK by \in {"user", "queue"} : by = "queue"
    OBVIOUS
  <2>5. Begin(sides, by, m)
    BY <1>3, <2>2, <2>3, <2>4
  <2>6. /\ Begins(sides, by, m) /\ panel' \in [Sides -> PanelRec] /\ composing'
        /\ \A s \in sides : panel'[s].turn = Len(turn) + 1 /\ ~panel'[s].stop
        /\ \A s \in sides : panel'[s].replacing = panel[s].replacing
        /\ \A s \in Sides \ sides : panel'[s] = panel[s]
    BY <1>0, <2>1, <2>5, BeginIs
  <2> QED BY <2>2, <2>3, <2>4, <2>6
<1> HIDE DEF i
<1>6. PanelsAsk(i.target)
  BY <1>2, <1>3, <1>5 DEF PanelsAsk
<1>7. QueueAsks
  BY <1>3, <1>4, <1>5, <1>6 DEF QueueAsks, i
<1>8. Grown /\ Len(turn') = Len(turn) + 1 /\ turn'[Len(turn) + 1].by = "queue"
  BY <1>0, <1>5, MovesGrow DEF Begins
<1>9. QueueT'
  BY <1>0, <1>3, <1>8 DEF QueueT, QueueOK, None
<1>10. ServerT'
  BY <1>0, <1>8, ServerKept
<1>11. Idle \/ Typing
  BY DEF Stays, Joins
<1>12. spent' \in 0..Budget /\ thrown' = thrown /\ composing' \in BOOLEAN
  <2>1. composing' \in BOOLEAN
    BY <1>3 DEF Begin
  <2> QED BY <1>0, <2>1, SpentIs DEF RestT, Stays, Joins
<1>13. RestT'
  BY <1>0, <1>5, <1>11, <1>12, TypedIs DEF RestT
<1> QED BY <1>7, <1>8, <1>9, <1>10, <1>13 DEF TypeInv, Grown

\* Nothing goes out.
LEMMA IdleSteps ==
    ASSUME Planned, TypeInv, QueueOK, dispatch' = dispatch,
           UNCHANGED <<panel, composing, turn>>,
           Stays \/ Joins, UNCHANGED <<server, target>>,
           broken' \in BOOLEAN, broken' => broken /\ (paused => paused'),
           spent' = spent \/ \E k : May(k)
    PROVE  TypeInv' /\ Rests
<1>1. Grown
  BY MovesGrow DEF TypeInv
<1>2. Idle \/ Typing
  BY DEF Stays, Joins
<1>3. /\ target' \in SomeSides /\ panel' \in [Sides -> PanelRec] /\ composing' \in BOOLEAN
      /\ thrown' \subseteq Messages
  BY DEF TypeInv, RestT, Stays, Joins
<1>4. TypeInv'
  BY <1>1, <1>2, <1>3, TypesKept, DispatchOK
<1>5. PanelsRest
  BY DEF PanelsRest
<1>6. Quietly
  <2>1. items # <<>> => items' # <<>>
    <3>1. CASE Stays
      BY <3>1 DEF Stays
    <3>2. CASE Joins
      <4>1. items \in Seq(ItemRec) /\ Item \in ItemRec /\ items' = Append(items, Item)
        BY <3>2, DispatchOK, TypedIs DEF Joins, TypeInv
      <4> HIDE DEF Item
      <4> QED BY <4>1, AppendProperties, EmptySeq
    <3> QED BY <3>1, <3>2
  <2> QED BY <2>1 DEF Quietly
<1> QED BY <1>4, <1>5, <1>6 DEF Rests

\* ProcessNext.
LEMMA NextSteps ==
    ASSUME Planned, TypeInv, NEW q \in Queue, q.dispatch = dispatch,
           q.paused => q.items # <<>>, NEW force, ProcessNext(q, force),
           items' = q.items => Stays \/ Joins, UNCHANGED <<server, target>>,
           broken' \in BOOLEAN, broken' => broken /\ q.paused = paused /\ ~force,
           spent' = spent \/ \E k : May(k)
    PROVE  TypeInv' /\ (Rests \/ QueueAsks)
<1>1. /\ QueueOK /\ items' = q.items
      /\ \/ dispatch' = dispatch /\ UNCHANGED <<panel, composing, turn>> /\ (q.paused => paused')
         \/ Sends(q, force)
  BY ProcessNextIs
<1>2. CASE dispatch' = dispatch /\ UNCHANGED <<panel, composing, turn>> /\ (q.paused => paused')
  BY <1>1, <1>2, IdleSteps
<1>3. CASE Sends(q, force)
  <2>1. broken' => broken /\ ~paused
    BY <1>3 DEF Sends
  <2> QED BY <1>1, <1>3, <2>1, SendsSteps
<1> QED BY <1>1, <1>2, <1>3

\* Submit: the message joins the queue, which may send, or is asked at once.
LEMMA SubmitSteps ==
    ASSUME Planned, TypeInv, Submit PROVE TypeInv' /\ (Rests \/ UserAsks \/ QueueAsks)
<1>0. /\ typed < MaxMessages /\ typed' = typed + 1
      /\ wanted' = [wanted EXCEPT ![typed + 1] = [to |-> target, chats |-> Now]]
      /\ Holds /\ UNCHANGED <<target, server, spent>>
  BY DEF Submit
<1>1. Typing /\ TurnT /\ RestT /\ Q \in Queue /\ (paused => items # <<>>)
      /\ items \in Seq(ItemRec) /\ paused \in BOOLEAN
      /\ dispatch.gens \subseteq dispatch.accepted
  BY <1>0, DispatchOK DEF Typing, TypeInv
<1>2. typed + 1 \in Messages /\ Item \in ItemRec
  BY <1>1, TypedIs
<1>3. /\ broken' \in BOOLEAN /\ thrown' = thrown /\ (broken' => broken /\ items' # <<>>)
      /\ spent' = spent
  BY <1>0, <1>1, BrokenIs DEF RestT
<1> DEFINE s == Append(items, Item)
           q == [Q EXCEPT !.items = s]
<1>4. s \in Seq(ItemRec) /\ s # <<>>
  <2>1. s \in Seq(ItemRec) /\ Len(s) = Len(items) + 1 /\ Len(items) \in Nat
    BY <1>1, <1>2, AppendProperties, LenProperties
  <2> HIDE DEF s
  <2> QED BY <2>1, EmptySeq
<1>5. q = [Q EXCEPT !.items = Append(@, Item)]
  BY QIs
<1> HIDE DEF s
<1>6. q \in Queue /\ q.items = s /\ q.dispatch = dispatch /\ q.paused = paused
  BY <1>1, <1>4, ItemsIs, QIs DEF SameButItems
<1> HIDE DEF q
<1>7. items' = s => Joins
  BY <1>1, <1>3 DEF Joins, s
<1>8. CASE SetQueue(q) /\ UNCHANGED <<panel, composing, turn>>
  <2>1. QueueOK /\ items' = s /\ paused' = (paused /\ s # <<>>) /\ dispatch' = dispatch
    BY <1>1, <1>6, <1>8, SetQueueIs
  <2>2. paused => paused'
    BY <1>4, <2>1
  <2> QED BY <1>0, <1>3, <1>7, <1>8, <2>1, <2>2, IdleSteps
<1>9. CASE ProcessNext(q, FALSE)
  <2>1. PICK force \in BOOLEAN : force = FALSE
    OBVIOUS
  <2>2. ProcessNext(q, force)
    BY <1>9, <2>1
  <2> QED BY <1>0, <1>3, <1>4, <1>6, <1>7, <2>1, <2>2, NextSteps
<1>10. CASE ~Refuses(target) /\ Begin(target, "user", typed + 1) /\ UNCHANGED queue
  <2>1. /\ QueueOK /\ items' = items /\ dispatch' = dispatch /\ paused' = paused
        /\ (dispatch'.turn = None => dispatch' = NoDispatch)
    BY <1>10, QueueStays
  <2>2. target \in SUBSET Sides /\ panel \in [Sides -> PanelRec]
    BY <1>1 DEF RestT, SomeSides
  <2>3. PICK by \in {"user", "queue"} : by = "user"
    OBVIOUS
  <2>4. Begin(target, by, typed + 1)
    BY <1>10, <2>3
  <2>5. /\ Begins(target, by, typed + 1) /\ panel' \in [Sides -> PanelRec] /\ composing'
        /\ \A z \in target : panel'[z].turn = Len(turn) + 1 /\ ~panel'[z].stop
        /\ \A z \in target : panel'[z].replacing = panel[z].replacing
        /\ \A z \in Sides \ target : panel'[z] = panel[z]
    BY <1>1, <1>2, <2>2, <2>4, BeginIs
  <2>6. \A z \in target : panel[z].turn = None
    BY <1>10, <2>2 DEF Refuses, Busy
  <2>7. PanelsAsk(target)
    BY <2>2, <2>5, <2>6 DEF PanelsAsk
  <2>8. Quietly
    BY <1>3, <2>1 DEF Quietly
  <2>9. UserAsks
    BY <1>0, <1>1, <1>3, <2>1, <2>3, <2>5, <2>7, <2>8 DEF UserAsks
  <2>10. Grown
    BY <1>1, <2>5, MovesGrow
  <2>11. composing' \in BOOLEAN
    BY <1>10 DEF Begin
  <2>12. target' \in SomeSides /\ thrown' \subseteq Messages
    BY <1>0, <1>1, <1>3 DEF RestT
  <2>13. server' = server
    BY <1>0
  <2>14. TypeInv'
    BY <1>1, <1>3, <2>1, <2>5, <2>10, <2>11, <2>12, <2>13, TypesKept
  <2> QED BY <2>9, <2>14
<1> QED BY <1>5, <1>8, <1>9, <1>10 DEF Submit

\* The command on a queued message.
LEMMA CommandSteps ==
    ASSUME Planned, TypeInv, NEW q \in Queue, q.dispatch = dispatch, q.items = items,
           q.paused => q.items # <<>>, NEW force, ProcessNext(q, force),
           broken' = FALSE \/ (Holds /\ q.paused = paused /\ ~force), thrown' = thrown,
           UNCHANGED <<typed, wanted, server, target>>, spent' = spent \/ \E k : May(k)
    PROVE  TypeInv' /\ (Rests \/ QueueAsks)
<1>1. broken' \in BOOLEAN /\ (broken' => broken /\ q.paused = paused /\ ~force)
  <2>1. CASE broken' = FALSE
    BY <2>1
  <2>2. CASE Holds /\ q.paused = paused /\ ~force
    BY <2>2, BrokenIs DEF TypeInv, RestT
  <2> QED BY <2>1, <2>2
<1>2. items' = q.items => Stays
  BY DEF Stays, Idle
<1> QED BY <1>1, <1>2, NextSteps

\* Resume.
LEMMA ResumeSteps == ASSUME Planned, TypeInv, Resume PROVE TypeInv' /\ (Rests \/ QueueAsks)
<1>1. PICK b \in BOOLEAN : b = FALSE
  OBVIOUS
<1> DEFINE q == [Q EXCEPT !.paused = b]
<1>2. q \in Queue /\ q.dispatch = dispatch /\ q.items = items /\ q.paused = b
  <2>1. Q \in Queue
    BY DispatchOK
  <2>2. q = [items |-> Q.items, paused |-> b, dispatch |-> Q.dispatch, handoff |-> Q.handoff]
    BY <2>1, QueueIs
  <2>3. q \in Queue
    BY <1>1, <2>1, <2>2, QueueIs
  <2> QED BY <2>2, <2>3, QIs
<1>3. ProcessNext(q, b) /\ broken' = FALSE /\ thrown' = thrown /\ May("command")
      /\ UNCHANGED <<typed, wanted, server, target>>
  BY <1>1 DEF Resume
<1> HIDE DEF q
<1>4. \E k : May(k)
  BY <1>3
<1> QED BY <1>1, <1>2, <1>3, <1>4, CommandSteps

\* The command that sends a message first.
LEMMA SendNextSteps ==
    ASSUME Planned, TypeInv, SendNext PROVE TypeInv' /\ (Rests \/ QueueAsks)
<1>1. PICK b \in BOOLEAN : b = TRUE
  OBVIOUS
<1>2. ProcessNext(Q, b) /\ broken' = FALSE /\ thrown' = thrown /\ May("command")
      /\ UNCHANGED <<typed, wanted, server, target>>
  BY <1>1 DEF SendNext
<1>3. \E k : May(k)
  BY <1>2
<1>4. Q \in Queue /\ (paused => items # <<>>)
  BY DispatchOK
<1>5. Q.dispatch = dispatch /\ Q.items = items /\ Q.paused = paused
  BY QIs
<1> QED BY <1>1, <1>2, <1>3, <1>4, <1>5, CommandSteps

\* The scheduled handoff of the queue.
LEMMA HandoffSteps ==
    ASSUME Planned, TypeInv, Handoff PROVE TypeInv' /\ (Rests \/ QueueAsks)
<1>1. PICK b \in BOOLEAN : b = FALSE
  OBVIOUS
<1> DEFINE q == [Q EXCEPT !.handoff = b]
<1>2. Q \in Queue /\ (paused => items # <<>>)
  BY DispatchOK
<1>3. q \in Queue /\ q.dispatch = dispatch /\ q.items = items /\ q.paused = paused
  <2>2. q = [items |-> Q.items, paused |-> Q.paused, dispatch |-> Q.dispatch, handoff |-> b]
    BY <1>2, QueueIs
  <2>3. q \in Queue
    BY <1>1, <1>2, <2>2, QueueIs
  <2> QED BY <2>2, <2>3, QIs
<1>4. ProcessNext(q, b) /\ Holds /\ spent' = spent
      /\ UNCHANGED <<typed, wanted, server, target>>
  BY <1>1 DEF Handoff
<1> HIDE DEF q
<1>5. thrown' = thrown
  BY <1>4 DEF Holds
<1> QED BY <1>1, <1>2, <1>3, <1>4, <1>5, CommandSteps

\* A step of the panels alone.
LEMMA PanelSteps ==
    ASSUME Planned, TypeInv,
           UNCHANGED <<typed, wanted, queue, composing, turn, server, thrown>>,
           panel' \in [Sides -> PanelRec], PanelsRest, target' = target \/ target' \in Targets,
           broken' \in BOOLEAN, Gentle => broken' = broken, spent' = spent \/ \E k : May(k)
    PROVE  TypeInv' /\ Rests
<1>1. /\ QueueOK /\ items' = items /\ dispatch' = dispatch /\ paused' = paused
      /\ (dispatch'.turn = None => dispatch' = NoDispatch)
  BY QueueStays
<1>2. Grown
  BY MovesGrow DEF TypeInv
<1>3. target' \in SomeSides
  BY DEF TypeInv, RestT, Planned, SplitAssumption, SomeSides, Targets
<1>4. Idle /\ Stays
  BY <1>1 DEF Idle, Stays
<1>5. composing' \in BOOLEAN /\ thrown' \subseteq Messages
  BY DEF TypeInv, RestT
<1>6. TypeInv'
  BY <1>1, <1>2, <1>3, <1>4, <1>5, TypesKept
<1>7. Gentle => Quietly
  BY <1>1 DEF Quietly
<1> QED BY <1>1, <1>4, <1>6, <1>7 DEF Rests

\* The user picks another target.
LEMMA SetTargetSteps ==
    ASSUME Planned, TypeInv, NEW sides \in Targets, SetTarget(sides) PROVE TypeInv' /\ Rests
<1>1. target' = sides
      /\ UNCHANGED <<typed, wanted, queue, panel, composing, turn, server, history, spent>>
  BY DEF SetTarget
<1>2. PanelsRest
  BY <1>1 DEF PanelsRest
<1>3. panel' \in [Sides -> PanelRec] /\ broken' \in BOOLEAN /\ broken' = broken /\ thrown' = thrown
  BY <1>1 DEF TypeInv, RestT, history
<1> QED BY <1>1, <1>2, <1>3, PanelSteps

\* Other stops, other chats in the panels, their loading.
PanelMoves(P) ==
    \A s \in Sides : \/ P[s] = panel[s]
                     \/ \E l \in BOOLEAN, c \in {0, 1} :
                            P[s] = [panel[s] EXCEPT !.chat = c, !.loading = l]
                     \/ ~Gentle /\ \E b \in BOOLEAN : P[s] = [panel[s] EXCEPT !.stop = b]
                     \/ ~NoReplace /\ \E b \in BOOLEAN : P[s] =
                            [panel[s] EXCEPT !.stop = b, !.replacing = panel[s].turn]
                     \/ \E n \in {None} : P[s] = [panel[s] EXCEPT !.replacing = n]

\* Such moves of the panels count as rest.
LEMMA PanelMovesRest ==
    ASSUME panel \in [Sides -> PanelRec], PanelMoves(panel'), panel' = [s \in Sides |-> panel'[s]]
    PROVE  PanelsRest /\ panel' \in [Sides -> PanelRec]
<1>1. ASSUME NEW s \in Sides
      PROVE  /\ panel'[s] \in PanelRec
             /\ panel'[s].turn = panel[s].turn
             /\ Gentle /\ panel'[s].stop => panel[s].stop
             /\ NoReplace /\ panel'[s].replacing # None => panel[s].replacing # None
  <2>0. panel[s] \in PanelRec
    OBVIOUS
  <2>1. CASE panel'[s] = panel[s]
    BY <2>0, <2>1
  <2>2. ASSUME NEW l \in BOOLEAN, NEW c \in {0, 1},
               panel'[s] = [panel[s] EXCEPT !.chat = c, !.loading = l]
        PROVE  panel'[s] \in PanelRec /\ panel'[s].turn = panel[s].turn
               /\ panel'[s].stop = panel[s].stop /\ panel'[s].replacing = panel[s].replacing
    BY <2>0, <2>2 DEF PanelRec
  <2>3. ASSUME NEW b \in BOOLEAN, panel'[s] = [panel[s] EXCEPT !.stop = b]
        PROVE  panel'[s] \in PanelRec /\ panel'[s].turn = panel[s].turn
               /\ panel'[s].replacing = panel[s].replacing
    BY <2>0, <2>3 DEF PanelRec
  <2>4. ASSUME NEW b \in BOOLEAN,
               panel'[s] = [panel[s] EXCEPT !.stop = b, !.replacing = panel[s].turn]
        PROVE  panel'[s] \in PanelRec /\ panel'[s].turn = panel[s].turn
    BY <2>0, <2>4 DEF PanelRec
  <2>5. ASSUME NEW n \in {None}, panel'[s] = [panel[s] EXCEPT !.replacing = n]
        PROVE  panel'[s] \in PanelRec /\ panel'[s].turn = panel[s].turn
               /\ panel'[s].stop = panel[s].stop /\ panel'[s].replacing = None
    BY <2>0, <2>5 DEF PanelRec
  <2>6. Gentle => NoReplace
    BY DEF Gentle, NoReplace
  <2> QED BY <2>0, <2>1, <2>2, <2>3, <2>4, <2>5, <2>6 DEF PanelMoves
<1> QED BY <1>1 DEF PanelsRest

\* The user stops the turns of the target.
LEMMA StopSteps == ASSUME Planned, TypeInv, Stop PROVE TypeInv' /\ Rests
<1>0. May("stop")
  BY DEF Stop
<1>1. ~Gentle /\ \E k : May(k)
  BY <1>0 DEF May, Gentle
<1>2. PICK b \in BOOLEAN : b = TRUE
  OBVIOUS
<1>3. panel' = [s \in Sides |-> IF s \in target /\ Busy(s)
                                THEN [panel[s] EXCEPT !.stop = b] ELSE panel[s]]
  BY <1>2 DEF Stop
<1>4. panel' = [s \in Sides |-> panel'[s]]
  BY <1>3
<1>5. PanelMoves(panel')
  BY <1>1, <1>3 DEF PanelMoves
<1>6. panel \in [Sides -> PanelRec]
  BY DEF TypeInv, RestT
<1>7. PanelsRest /\ panel' \in [Sides -> PanelRec]
  BY <1>4, <1>5, <1>6, PanelMovesRest
<1>8. broken' \in BOOLEAN /\ thrown' = thrown
  BY BrokenIs DEF TypeInv, RestT, Stop
<1>9. UNCHANGED <<typed, wanted, queue, target, composing, turn, server>>
  BY DEF Stop
<1> QED BY <1>1, <1>7, <1>8, <1>9, PanelSteps

\* The user opens another chat in a panel.
LEMMA ReplaceSteps ==
    ASSUME Planned, TypeInv, NEW s \in Sides, Replace(s) PROVE TypeInv' /\ Rests
<1>0. May("replace")
  BY DEF Replace
<1>1. ~Gentle /\ ~NoReplace /\ \E k : May(k)
  BY <1>0 DEF May, Gentle, NoReplace
<1>2. PICK b \in BOOLEAN : b = TRUE
  OBVIOUS
<1>3. panel \in [Sides -> PanelRec] /\ panel[s] \in PanelRec /\ broken \in BOOLEAN
  BY DEF TypeInv, RestT
<1>4. \/ panel' = [panel EXCEPT ![s] = [panel[s] EXCEPT !.stop = b, !.replacing = panel[s].turn]]
      \/ \E c \in {0, 1} :
             panel' = [panel EXCEPT ![s] = [panel[s] EXCEPT !.chat = c, !.loading = b]]
  <2>1. CASE panel' = [panel EXCEPT ![s].stop = TRUE, ![s].replacing = panel[s].turn]
    <3>1. panel' = [panel EXCEPT ![s].stop = b, ![s].replacing = panel[s].turn]
      BY <1>2, <2>1
    <3> QED BY <1>3, <3>1
  <2>2. CASE panel' = [panel EXCEPT ![s].chat = 1 - @, ![s].loading = TRUE]
    <3>1. 1 - panel[s].chat \in {0, 1}
      BY <1>3 DEF PanelRec
    <3>2. PICK c \in {0, 1} : c = 1 - panel[s].chat
      BY <3>1
    <3>3. panel' = [panel EXCEPT ![s].chat = c, ![s].loading = b]
      BY <1>2, <2>2, <3>2
    <3> QED BY <1>3, <3>3
  <2> QED BY <2>1, <2>2 DEF Replace
<1>5. panel' = [z \in Sides |-> panel'[z]] /\ PanelMoves(panel')
  BY <1>1, <1>3, <1>4 DEF PanelMoves
<1>6. PanelsRest /\ panel' \in [Sides -> PanelRec]
  BY <1>3, <1>5, PanelMovesRest
<1>7. broken' \in BOOLEAN /\ thrown' = thrown
  <2>1. Breaks({panel[s].turn}) \/ UNCHANGED history
    BY DEF Replace
  <2> QED BY <1>3, <2>1, BrokenIs DEF history
<1>8. UNCHANGED <<typed, wanted, queue, target, composing, turn, server>>
  BY DEF Replace
<1> QED BY <1>1, <1>6, <1>7, <1>8, PanelSteps

\* A replacement that is not needed any more.
LEMMA NotReplacedSteps ==
    ASSUME Planned, TypeInv, NEW s \in Sides, NotReplaced(s) PROVE TypeInv' /\ Rests
<1>1. panel' = [panel EXCEPT ![s].replacing = None]
      /\ UNCHANGED <<typed, wanted, queue, target, composing, turn, server, history, spent>>
  BY DEF NotReplaced
<1>2. panel \in [Sides -> PanelRec] /\ broken \in BOOLEAN
  BY DEF TypeInv, RestT
<1>3. panel' = [panel EXCEPT ![s] = [panel[s] EXCEPT !.replacing = None]]
  BY <1>1, <1>2
<1>4. panel' = [z \in Sides |-> panel'[z]] /\ PanelMoves(panel')
  BY <1>2, <1>3 DEF PanelMoves
<1>5. PanelsRest /\ panel' \in [Sides -> PanelRec]
  BY <1>2, <1>4, PanelMovesRest
<1>6. broken' = broken /\ thrown' = thrown
  BY <1>1 DEF history
<1> QED BY <1>1, <1>2, <1>5, <1>6, PanelSteps

\* The chat of a panel has loaded.
LEMMA LoadedSteps ==
    ASSUME Planned, TypeInv, NEW s \in Sides, Loaded(s) PROVE TypeInv' /\ Rests
<1>0. PICK b \in BOOLEAN : b = FALSE
  OBVIOUS
<1>1. panel' = [panel EXCEPT ![s].loading = b]
      /\ UNCHANGED <<typed, wanted, queue, target, composing, turn, server, history, spent>>
  BY <1>0 DEF Loaded
<1>2. panel \in [Sides -> PanelRec] /\ broken \in BOOLEAN /\ panel[s] \in PanelRec
  BY DEF TypeInv, RestT
<1>3. PICK c \in {0, 1} : c = panel[s].chat
  BY <1>2 DEF PanelRec
<1>4. [panel[s] EXCEPT !.loading = b] = [panel[s] EXCEPT !.chat = c, !.loading = b]
  BY <1>2, <1>3 DEF PanelRec
<1>5. panel' = [panel EXCEPT ![s] = [panel[s] EXCEPT !.chat = c, !.loading = b]]
  BY <1>1, <1>2, <1>4
<1>6. panel' = [z \in Sides |-> panel'[z]] /\ PanelMoves(panel')
  BY <1>2, <1>5 DEF PanelMoves
<1>7. PanelsRest /\ panel' \in [Sides -> PanelRec]
  BY <1>2, <1>6, PanelMovesRest
<1>8. broken' = broken /\ thrown' = thrown
  BY <1>1 DEF history
<1> QED BY <1>1, <1>2, <1>7, <1>8, PanelSteps

\* The panels are swapped, or one is closed.
LEMMA ArrangeSteps == ASSUME Planned, TypeInv, Arrange PROVE TypeInv' /\ Rests
<1>1. May("command") /\ UNCHANGED <<typed, wanted, target, panel, composing, turn, server>>
  BY DEF Arrange, view
<1>2. /\ Q \in Queue /\ (paused => items # <<>>) /\ dispatch.gens \subseteq dispatch.accepted
      /\ paused \in BOOLEAN /\ items \in Seq(ItemRec) /\ broken \in BOOLEAN
      /\ thrown \subseteq Messages
      /\ (dispatch.turn = None <=> dispatch = NoDispatch)
  BY DispatchOK DEF TypeInv, RestT
<1>3. (\E k : May(k)) /\ Idle
  BY <1>1 DEF Idle
<1>4. CASE SetQueue(Halt(Q)) /\ Holds
  <2>1. Halt(Q) \in Queue /\ Halt(Q).items = items /\ Halt(Q).dispatch = dispatch
        /\ Halt(Q).paused = (items # <<>>)
    BY <1>2, HaltIs, QIs
  <2>2. QueueOK /\ items' = items /\ paused' = (items # <<>>) /\ dispatch' = dispatch
    BY <1>2, <1>4, <2>1, SetQueueIs
  <2>3. broken' \in BOOLEAN /\ thrown' = thrown /\ (broken' => broken /\ items' # <<>>)
    BY <1>2, <1>4, BrokenIs
  <2>4. Stays
    BY <1>3, <2>2, <2>3 DEF Stays
  <2>5. broken' => broken /\ (paused => paused')
    BY <1>2, <2>2, <2>3
  <2> QED BY <1>1, <1>3, <2>2, <2>3, <2>4, <2>5, IdleSteps
<1>5. ASSUME NEW k \in DOMAIN items, SetQueue(Without(Q, items[k].msg)),
             thrown' = thrown \cup {items[k].msg}, broken' = (broken /\ items' # <<>>)
      PROVE  TypeInv' /\ Rests
  <2> DEFINE m == items[k].msg
             q == Without(Q, m)
  <2>1. m \in Messages
    <3>1. items[k] \in ItemRec
      BY <1>2, <1>5, ElementOfSeq, LenProperties
    <3> QED BY <3>1 DEF ItemRec
  <2>2. thrown' = thrown \cup {m} /\ SetQueue(q)
    BY <1>5
  <2> HIDE DEF m
  <2>3. q \in Queue /\ q.paused = paused /\ q.dispatch = dispatch /\ Takes(items, q.items, m)
    BY <1>2, WithoutIs, QIs DEF SameButItems
  <2> HIDE DEF q
  <2>4. QueueOK /\ items' = q.items /\ paused' = (paused /\ q.items # <<>>) /\ dispatch' = dispatch
    BY <1>2, <2>2, <2>3, SetQueueIs
  <2>5. Removes
    BY <1>3, <2>2, <2>3, <2>4 DEF Removes
  <2>6. broken' \in BOOLEAN /\ Quietly
    BY <1>2, <1>5, <2>4 DEF Quietly
  <2>7. Grown
    BY <1>1, MovesGrow DEF TypeInv
  <2>8. target' \in SomeSides /\ panel' \in [Sides -> PanelRec] /\ composing' \in BOOLEAN
        /\ thrown' \subseteq Messages
    BY <1>1, <1>2, <2>1, <2>2 DEF TypeInv, RestT
  <2>9. server' = server
    BY <1>1
  <2>10. TypeInv'
    BY <1>2, <1>3, <2>4, <2>6, <2>7, <2>8, <2>9, TypesKept
  <2>11. PanelsRest
    BY <1>1 DEF PanelsRest
  <2> QED BY <1>1, <2>4, <2>5, <2>6, <2>10, <2>11 DEF Rests
<1> QED BY <1>4, <1>5 DEF Arrange

\* The server.
LEMMA ServerSteps ==
    ASSUME Planned, TypeInv, NEW t \in 1..Len(turn), NEW s \in Sides,
           NEW new \in {"running", "ok", "failed"}, server' = [server EXCEPT ![t][s] = new],
           server[t][s] # "absent" \/ turn[t].at[s] = "asked",
           UNCHANGED <<typed, wanted, queue, view, history>>, spent' = spent \/ \E k : May(k)
    PROVE  TypeInv' /\ Serves(t, s)
<1>1. /\ QueueOK /\ items' = items /\ dispatch' = dispatch /\ paused' = paused
      /\ (dispatch'.turn = None => dispatch' = NoDispatch)
  BY QueueStays
<1>2. turn' = turn /\ target' = target /\ panel' = panel /\ composing' = composing
      /\ thrown' = thrown /\ broken' = broken /\ typed' = typed /\ wanted' = wanted
  BY DEF view, history
<1>3. TurnT /\ QueueT /\ ServerT /\ RestT /\ t \in Turns
  BY TurnsAre DEF TypeInv
<1>4. Grown
  BY <1>2, <1>3, MovesGrow
<1>5. QueueT'
  BY <1>1, <1>3, <1>4, QueueKept, ByKept DEF Grown
<1>6. RestT'
  BY <1>2, <1>3, SpentIs DEF RestT
<1>7. /\ server' \in [Turns -> [Sides -> {"absent", "running", "ok", "failed"}]]
      /\ \A u \in Turns, z \in Sides : server'[u][z] = IF u = t /\ z = s THEN new ELSE server[u][z]
  BY <1>3 DEF ServerT
<1>8. ServerT'
  BY <1>2, <1>3, <1>7 DEF ServerT
<1>9. Serves(t, s)
  BY <1>1, <1>2, <1>3, <1>7 DEF Serves, Stays, Idle
<1> QED BY <1>4, <1>5, <1>6, <1>8, <1>9 DEF TypeInv, Grown

\* The server accepts a request.
LEMMA AcceptSteps ==
    ASSUME Planned, TypeInv, NEW t \in 1..Len(turn), NEW s \in Sides, Accept(t, s)
    PROVE  TypeInv' /\ Serves(t, s)
<1>1. PICK new \in {"running", "ok", "failed"} : new = "running"
  OBVIOUS
<1>2. /\ turn[t].at[s] = "asked" /\ server' = [server EXCEPT ![t][s] = new]
      /\ UNCHANGED <<typed, wanted, queue, view, history, spent>>
  BY <1>1 DEF Accept
<1> QED BY <1>2, ServerSteps

\* A generation finishes on the server.
LEMMA FinishSteps ==
    ASSUME Planned, TypeInv, NEW t \in 1..Len(turn), NEW s \in Sides, Finish(t, s)
    PROVE  TypeInv' /\ Serves(t, s)
<1>1. PICK new \in {"running", "ok", "failed"} : server' = [server EXCEPT ![t][s] = new]
  BY DEF Finish
<1>2. /\ server[t][s] # "absent" /\ UNCHANGED <<typed, wanted, queue, view, history>>
      /\ (spent' = spent \/ \E k : May(k))
  BY DEF Finish
<1> QED BY <1>1, <1>2, ServerSteps

\* A panel that was given up.
LEMMA VacatedIs ==
    ASSUME panel \in [Sides -> PanelRec], NEW s \in Sides
    PROVE  /\ Vacated(s) \in [Sides -> PanelRec]
           /\ Vacated(s)[s].turn = None /\ ~Vacated(s)[s].stop
           /\ Vacated(s)[s].replacing = panel[s].replacing
           /\ \A z \in Sides : z # s => Vacated(s)[z] = panel[z]
<1>1. PICK b \in BOOLEAN : b = FALSE
  OBVIOUS
<1>2. PICK n \in Turns \cup {None} : n = None
  OBVIOUS
<1> DEFINE p == [panel[s] EXCEPT !.turn = n, !.stop = b]
<1>3. Vacated(s) = [panel EXCEPT ![s] = p]
  BY <1>1, <1>2 DEF Vacated
<1>4. panel[s] \in PanelRec
  OBVIOUS
<1>5. p \in PanelRec /\ p.turn = n /\ p.stop = b /\ p.replacing = panel[s].replacing
  BY <1>4 DEF PanelRec
<1> HIDE DEF p
<1> QED BY <1>1, <1>2, <1>3, <1>5

\* The panel that another chat takes.
LEMMA TakenOver ==
    ASSUME panel \in [Sides -> PanelRec], NEW s \in Sides, NEW P, P = [Vacated(s) EXCEPT
               ![s].replacing = None, ![s].chat = 1 - @, ![s].loading = TRUE]
    PROVE  P \in [Sides -> PanelRec]
<1>1. PICK b \in BOOLEAN : b = TRUE
  OBVIOUS
<1>2. PICK n \in Turns \cup {None} : n = None
  OBVIOUS
<1>3. Vacated(s) \in [Sides -> PanelRec] /\ Vacated(s)[s] \in PanelRec
  BY VacatedIs
<1> DEFINE v == Vacated(s)
<1> HIDE DEF v
<1>4. PICK c \in {0, 1} : c = 1 - v[s].chat
  <2>1. v[s].chat \in {0, 1}
    BY <1>3 DEF v, PanelRec
  <2> QED BY <2>1
<1> DEFINE p == [v[s] EXCEPT !.replacing = n, !.chat = c, !.loading = b]
<1>5. P = [v EXCEPT ![s] = p]
  BY <1>1, <1>2, <1>3, <1>4 DEF v
<1>6. p \in PanelRec
  BY <1>3 DEF v, PanelRec
<1> HIDE DEF p
<1> QED BY <1>3, <1>5, <1>6 DEF v

\* What hearing of the end of a generation does to the dispatch.
LEMMA HearsDispatch ==
    ASSUME TypeInv, NEW t, NEW s, NEW status, Hears(t, s, status)
    PROVE  /\ dispatch' = NoDispatch \/ dispatch'.turn = dispatch.turn
           /\ dispatch'.turn = None => dispatch' = NoDispatch
<1>1. QueueT
  BY DEF TypeInv
<1>2. CASE Frees(t, s, status) \/ Gives(t, s)
  BY <1>2 DEF Frees, Gives
<1>3. CASE Ignores(t, s)
  BY <1>1, <1>3 DEF Ignores, QueueT
<1>4. CASE Awaited(t, s)
  <2>1. dispatch'.turn = t /\ dispatch.turn = t /\ dispatch # NoDispatch
    BY <1>4 DEF Awaited, Awaits
  <2>2. t # None
    BY <1>1, <2>1 DEF QueueT
  <2> QED BY <2>1, <2>2
<1> QED BY <1>2, <1>3, <1>4 DEF Hears

\* A panel's turn is given up for another chat.
LEMMA ReplacedSteps ==
    ASSUME Planned, TypeInv, NEW s \in Sides, Replaced(s) PROVE TypeInv' /\ Evicts(s)
<1> DEFINE u == panel[s].turn
<1>1. /\ panel[s].replacing # None /\ Holds
      /\ UNCHANGED <<typed, wanted, target, composing, turn, server, spent>>
      /\ panel' = [Vacated(s) EXCEPT ![s].replacing = None, ![s].chat = 1 - @,
                                     ![s].loading = TRUE]
      /\ SetQueue(IF u # None THEN Terminal(Q, u, s, "interrupted") ELSE Q)
  BY DEF Replaced, Busy
<1>2. panel \in [Sides -> PanelRec]
  BY DEF TypeInv, RestT
<1>3. panel' \in [Sides -> PanelRec]
  BY <1>1, <1>2, TakenOver
<1>4. Grown
  BY <1>1, MovesGrow DEF TypeInv
<1>5. broken' \in BOOLEAN /\ thrown' = thrown
  BY <1>1, BrokenIs DEF TypeInv, RestT
<1>6. Idle
  BY <1>1 DEF Idle
<1>7. /\ QueueOK /\ (dispatch' = NoDispatch \/ dispatch'.turn = dispatch.turn)
      /\ dispatch'.turn = None => dispatch' = NoDispatch
      /\ u # None => Hears(u, s, "interrupted")
      /\ u = None => items' = items /\ dispatch' = dispatch
  <2>0. Q \in Queue /\ dispatch.gens \subseteq dispatch.accepted /\
        (dispatch.turn = None => dispatch = NoDispatch)
    BY DEF TypeInv, QueueT
  <2>1. CASE u # None
    <3>1. SetQueue(Terminal(Q, u, s, "interrupted"))
      BY <1>1, <2>1
    <3> HIDE DEF u
    <3>2. PICK status \in {"finished", "failed", "interrupted"} : status = "interrupted"
      OBVIOUS
    <3>3. QueueOK /\ Hears(u, s, status)
      BY <3>1, <3>2, TerminalIs
    <3>4. /\ dispatch' = NoDispatch \/ dispatch'.turn = dispatch.turn
          /\ dispatch'.turn = None => dispatch' = NoDispatch
      BY <3>3, HearsDispatch
    <3> QED BY <2>1, <3>2, <3>3, <3>4
  <2>2. CASE u = None
    <3>1. SetQueue(Q)
      BY <1>1, <2>2
    <3>2. QueueOK /\ items' = items /\ dispatch' = dispatch
      BY <2>0, <3>1, SetQueueIs, QIs
    <3> QED BY <2>0, <2>2, <3>2
  <2> QED BY <2>1, <2>2
<1> HIDE DEF u
<1>8. target' \in SomeSides /\ composing' \in BOOLEAN /\ thrown' \subseteq Messages /\
      server' = server
      /\ spent' = spent /\ turn' = turn
  BY <1>1, <1>5 DEF TypeInv, RestT
<1>9. TypeInv'
  BY <1>3, <1>4, <1>5, <1>6, <1>7, <1>8, TypesKept
<1>10. Evicts(s)
  BY <1>1, <1>5, <1>6, <1>7, <1>8 DEF Evicts, u
<1> QED BY <1>9, <1>10

\* A panel answers.
LEMMA AnsweredSteps ==
    ASSUME Planned, TypeInv, NEW t \in 1..Len(turn), NEW s \in Sides, Answered(t, s)
    PROVE  TypeInv' /\ Answers(t, s)
<1> DEFINE d == [dispatch EXCEPT !.gens = @ \cup {s}, !.accepted = @ \cup {s}]
           p == [Q EXCEPT !.dispatch = d]
           taken == [Q EXCEPT !.dispatch.gens = @ \cup {s}, !.dispatch.accepted = @ \cup {s}]
           m == turn[t].msg
<1>1. /\ turn[t].at[s] = "asked" /\ server[t][s] # "absent" /\ Holds
      /\ UNCHANGED <<typed, wanted, target, panel, server, spent>>
      /\ composing' = Freed(t, s)
      /\ SetQueue(IF dispatch.turn # t THEN Q
                  ELSE IF Complete(taken) THEN Without(taken, m) ELSE taken)
  BY DEF Answered
<1>2. turn' = [turn EXCEPT ![t].at[s] = "reading"]
  BY DEF Answered
<1>3. PICK stage \in Stages : stage = "reading"
  BY DEF Stages
<1>4. Moves(t, s, stage)
  <2>1. TurnT /\ turn' = [turn EXCEPT ![t].at[s] = stage]
    BY <1>2, <1>3 DEF TypeInv
  <2>2. {} \in SUBSET Sides /\ {} \subseteq turn[t].failed \cup {s}
    OBVIOUS
  <2> QED BY <2>1, <2>2, MovesIs
<1>5. Grown
  BY <1>4, MovesGrow DEF TypeInv
<1>6. Q \in Queue /\ dispatch \in DispatchRec /\ dispatch.gens \subseteq dispatch.accepted
      /\ (dispatch.turn = None => dispatch = NoDispatch) /\ (paused => items # <<>>)
  BY DispatchOK
<1>7. /\ d \in DispatchRec /\ d.turn = dispatch.turn /\ d.gens = dispatch.gens \cup {s}
      /\ d.accepted = dispatch.accepted \cup {s} /\ d.gens \subseteq d.accepted
  BY <1>6 DEF DispatchRec
<1>8. taken = p
  BY QIs DEF Q
<1> HIDE DEF d, taken
<1>9. p \in Queue /\ p.dispatch = d /\ p.items = items /\ p.paused = paused
  BY <1>6, <1>7, DispatchIs, QIs
<1> HIDE DEF p
<1>10. Holds => broken' \in BOOLEAN /\ thrown' = thrown /\ (broken' => broken /\ items' # <<>>)
  BY BrokenIs DEF TypeInv, RestT
<1>11. paused' = (paused /\ items' # <<>>) => Quietly
  BY <1>1, <1>10 DEF Quietly
<1>12. /\ QueueOK /\ TakesUp(t, s) /\ paused' = (paused /\ items' # <<>>)
       /\ dispatch'.turn = dispatch.turn /\ (dispatch'.turn = None => dispatch' = NoDispatch)
  <2>1. CASE dispatch.turn # t
    <3>1. SetQueue(Q)
      BY <1>1, <2>1
    <3>2. QueueOK /\ items' = items /\ paused' = (paused /\ items # <<>>) /\ dispatch' = dispatch
      BY <1>6, <3>1, SetQueueIs, QIs
    <3> QED BY <1>6, <2>1, <3>2 DEF TakesUp
  <2>2. CASE dispatch.turn = t /\ Complete(p)
    <3>1. SetQueue(Without(p, m))
      BY <1>1, <1>8, <2>2
    <3>2. Without(p, m) \in Queue /\ SameButItems(Without(p, m), p)
          /\ Takes(items, Without(p, m).items, m)
      BY <1>9, WithoutIs
    <3>3. QueueOK /\ items' = Without(p, m).items /\ dispatch' = d
          /\ paused' = (paused /\ items' # <<>>)
      BY <1>7, <1>9, <3>1, <3>2, SetQueueIs DEF SameButItems
    <3>4. dispatch.accepted \cup {s} = Meant(t)
      BY <1>7, <1>9, <2>2 DEF Complete
    <3>5. t # None
      BY <2>2, TurnsAre DEF TypeInv
    <3> QED BY <1>7, <2>2, <3>2, <3>3, <3>4, <3>5 DEF TakesUp
  <2>3. CASE dispatch.turn = t /\ ~Complete(p)
    <3>1. SetQueue(p)
      BY <1>1, <1>8, <2>3
    <3>2. QueueOK /\ items' = items /\ paused' = (paused /\ items # <<>>) /\ dispatch' = d
      BY <1>7, <1>9, <3>1, SetQueueIs
    <3>4. dispatch.accepted \cup {s} # Meant(t)
      BY <1>7, <1>9, <2>3 DEF Complete
    <3>5. t # None
      BY <2>3, TurnsAre DEF TypeInv
    <3> QED BY <1>7, <2>3, <3>2, <3>4, <3>5 DEF TakesUp
  <2> QED BY <2>1, <2>2, <2>3
<1>13. /\ server' = server /\ Idle /\ target' = target /\ panel' = panel /\ thrown' = thrown
       /\ broken' \in BOOLEAN /\ target' \in SomeSides /\ panel' \in [Sides -> PanelRec]
       /\ thrown' \subseteq Messages /\ spent' = spent
  BY <1>1, <1>10 DEF Idle, TypeInv, RestT
<1>14. composing' \in BOOLEAN
  BY <1>1 DEF Freed, TypeInv, RestT
<1>15. TypeInv'
  BY <1>5, <1>12, <1>13, <1>14, TypesKept
<1> QED BY <1>1, <1>3, <1>4, <1>11, <1>12, <1>13, <1>15 DEF Answers

\* A pause outlives the end of a generation.
LEMMA HearsPaused ==
    ASSUME TypeInv, QueueOK, NEW t, NEW s, NEW status, Hears(t, s, status), paused
    PROVE  paused'
<1>1. items # <<>> /\ items \in Seq(ItemRec)
  BY DispatchOK
<1>2. items' \in Seq(ItemRec)
  <2>1. Q' \in Queue /\ Q'.items = items'
    BY DEF QueueOK, Q
  <2> QED BY <2>1, QueueIs
<1>3. CASE Frees(t, s, status)
  BY <1>1, <1>3 DEF Frees, After
<1>4. CASE Ignores(t, s)
  BY <1>4 DEF Ignores
<1>5. CASE Awaited(t, s)
  BY <1>5 DEF Awaited
<1>6. CASE Gives(t, s)
  <2>1. paused' = (items' # <<>>) /\ NarrowsNow
    BY <1>6 DEF Gives
  <2>2. CASE items' = items
    BY <1>1, <2>1, <2>2
  <2>3. CASE items' # items
    <3>1. \E m, l : Narrows(items, items', m, l)
      BY <2>1, <2>3 DEF NarrowsNow
    <3>2. (items' = <<>>) = (items = <<>>)
      BY <1>1, <1>2, <3>1, NarrowedKeeps
    <3> QED BY <1>1, <2>1, <3>2
  <2> QED BY <2>2, <2>3
<1> QED BY <1>3, <1>4, <1>5, <1>6 DEF Hears

\* A panel's part of a turn is over.
LEMMA OverSteps ==
    ASSUME Planned, TypeInv, NEW t \in 1..Len(turn), NEW s \in Sides,
           NEW stage \in {"ended", "settled"},
           NEW status \in {"finished", "failed", "interrupted"},
           Over(t, s, stage, status), Why(t, s, stage, status),
           UNCHANGED <<typed, wanted, server>>,
           (status # "failed" /\ Holds) \/ (status = "failed" /\ Breaks({t})),
           spent' = spent \/ \E k : May(k)
    PROVE  TypeInv' /\ Ends(t, s, stage, status)
<1>1. stage \in Stages
  BY DEF Stages
<1>2. /\ panel' = IF Owns(t, s) THEN Vacated(s) ELSE panel
      /\ SetQueue(IF Owns(t, s) THEN Terminal(Q, t, s, status) ELSE Q)
      /\ composing' = IF turn[t].at[s] = "asked" THEN Freed(t, s) ELSE composing
      /\ target' = IF status # "failed" THEN target
                   ELSE IF turn[t].failed \ {s} = {} THEN {s} ELSE Sides
  BY DEF Over
<1>3. Moves(t, s, stage)
  <2> DEFINE f == IF status = "failed" THEN turn[t].failed \cup {s} ELSE turn[t].failed
  <2>1. turn' = [turn EXCEPT ![t].at[s] = stage, ![t].failed = f]
    BY DEF Over
  <2>2. turn[t].failed \in SUBSET Sides
    BY LengthIs DEF TypeInv, TurnRec
  <2>3. f \in SUBSET Sides /\ f \subseteq turn[t].failed \cup {s}
    BY <2>2
  <2> HIDE DEF f
  <2> QED BY <1>1, <2>1, <2>3, MovesIs DEF TypeInv
<1>4. Grown
  BY <1>3, MovesGrow DEF TypeInv
<1>5. Q \in Queue /\ dispatch.gens \subseteq dispatch.accepted
      /\ (dispatch.turn = None => dispatch = NoDispatch) /\ (paused => items # <<>>)
      /\ paused \in BOOLEAN
  BY DispatchOK
<1>6. /\ QueueOK /\ (Owns(t, s) => Hears(t, s, status))
      /\ ~Owns(t, s) => items' = items /\ dispatch' = dispatch /\ paused' = paused
      /\ dispatch' = NoDispatch \/ dispatch'.turn = dispatch.turn
      /\ dispatch'.turn = None => dispatch' = NoDispatch
      /\ paused => paused'
  <2>1. CASE Owns(t, s)
    <3>1. SetQueue(Terminal(Q, t, s, status))
      BY <1>2, <2>1
    <3>2. QueueOK /\ Hears(t, s, status)
      BY <3>1, TerminalIs
    <3>3. /\ dispatch' = NoDispatch \/ dispatch'.turn = dispatch.turn
          /\ dispatch'.turn = None => dispatch' = NoDispatch
      BY <3>2, HearsDispatch
    <3>4. paused => paused'
      BY <3>2, HearsPaused
    <3> QED BY <2>1, <3>2, <3>3, <3>4
  <2>2. CASE ~Owns(t, s)
    <3>1. SetQueue(Q)
      BY <1>2, <2>2
    <3>2. QueueOK /\ items' = items /\ paused' = (paused /\ items # <<>>) /\ dispatch' = dispatch
      BY <1>5, <3>1, SetQueueIs, QIs
    <3>3. paused' = paused
      BY <1>5, <3>2
    <3> QED BY <1>5, <2>2, <3>2, <3>3
  <2> QED BY <2>1, <2>2
<1>7. /\ broken' \in BOOLEAN /\ thrown' = thrown
      /\ status # "failed" => (broken' => broken /\ items' # <<>>)
      /\ status = "failed" => (broken' => broken \/ (items # <<>> /\ dispatch.turn \in {t, None}))
  <2>1. /\ Holds => broken' \in BOOLEAN /\ thrown' = thrown /\ (broken' => broken /\ items' # <<>>)
        /\ Breaks({t}) => broken' \in BOOLEAN /\ thrown' = thrown
    BY BrokenIs DEF TypeInv, RestT
  <2>2. Breaks({t}) => (broken' => broken \/ (items # <<>> /\ dispatch.turn \in {t, None}))
    BY DEF Breaks
  <2> QED BY <2>1, <2>2
<1>8. panel \in [Sides -> PanelRec]
  BY DEF TypeInv, RestT
<1>9. PanelFree(t, s) /\ panel' \in [Sides -> PanelRec]
  <2>1. /\ Vacated(s) \in [Sides -> PanelRec]
        /\ Vacated(s)[s].turn = None /\ ~Vacated(s)[s].stop
        /\ Vacated(s)[s].replacing = panel[s].replacing
        /\ \A z \in Sides : z # s => Vacated(s)[z] = panel[z]
    BY <1>8, VacatedIs
  <2>2. CASE Owns(t, s)
    <3>1. panel' = Vacated(s)
      BY <1>2, <2>2
    <3> QED BY <2>1, <2>2, <3>1 DEF PanelFree
  <2>3. CASE ~Owns(t, s)
    <3>1. panel' = panel
      BY <1>2, <2>3
    <3> QED BY <1>8, <2>3, <3>1 DEF PanelFree
  <2> QED BY <2>2, <2>3
<1>10. target' \in SomeSides
  <2>1. target \in SomeSides
    BY DEF TypeInv, RestT
  <2> QED BY <1>2, <2>1 DEF SomeSides
<1>11. composing' \in BOOLEAN /\ thrown' \subseteq Messages /\ server' = server /\ Idle
  <2>1. composing \in BOOLEAN /\ thrown \subseteq Messages
    BY DEF TypeInv, RestT
  <2> QED BY <1>2, <1>7, <2>1 DEF Freed, Idle
<1>12. TypeInv'
  BY <1>4, <1>6, <1>7, <1>9, <1>10, <1>11, TypesKept
<1>13. Fails(t, s, status)
  BY <1>2, <1>6, <1>7 DEF Fails, Quietly
<1> QED BY <1>3, <1>6, <1>7, <1>9, <1>11, <1>12, <1>13 DEF Ends

\* The ways in which a panel's part ends.
Status == {"finished", "failed", "interrupted"}
EndsHow(t, s) == \E stage \in {"ended", "settled"}, status \in Status : Ends(t, s, stage, status)

\* A request is refused or fails.
LEMMA RefusedSteps ==
    ASSUME Planned, TypeInv, NEW t \in 1..Len(turn), NEW s \in Sides, Refused(t, s)
    PROVE  TypeInv' /\ EndsHow(t, s)
<1>1. PICK stage \in {"ended", "settled"} : stage = "settled"
  OBVIOUS
<1>2. PICK bad \in Status : bad = "failed"
  BY DEF Status
<1>3. PICK cut \in Status : cut = "interrupted"
  BY DEF Status
<1>4. turn[t].at[s] = "asked" /\ UNCHANGED <<typed, wanted, server>>
  BY DEF Refused
<1>5. CASE /\ (server[t][s] = "absent" /\ May("refuse")) \/ May("lost")
           /\ Over(t, s, stage, bad) /\ Breaks({t})
  <2>1. Why(t, s, stage, bad)
    BY <1>1, <1>2, <1>4, <1>5 DEF Why, May
  <2>2. \E k : May(k)
    BY <1>5
  <2>3. TypeInv' /\ Ends(t, s, stage, bad)
    BY <1>2, <1>4, <1>5, <2>1, <2>2, OverSteps DEF Status
  <2> QED BY <2>3 DEF EndsHow
<1>6. CASE Cut(t, s) /\ spent' = spent /\ Over(t, s, stage, cut) /\ Holds
  <2>1. Why(t, s, stage, cut)
    BY <1>1, <1>4, <1>6 DEF Why, Cut
  <2>2. TypeInv' /\ Ends(t, s, stage, cut)
    BY <1>3, <1>4, <1>6, <2>1, OverSteps DEF Status
  <2> QED BY <2>2 DEF EndsHow
<1> QED BY <1>1, <1>2, <1>3, <1>5, <1>6 DEF Refused

\* A stream ends with its last event.
LEMMA DoneSteps ==
    ASSUME Planned, TypeInv, NEW t \in 1..Len(turn), NEW s \in Sides, Done(t, s)
    PROVE  TypeInv' /\ EndsHow(t, s)
<1>1. PICK stage \in {"ended", "settled"} : stage = "ended"
  OBVIOUS
<1>2. PICK status \in Status : status = "finished"
  BY DEF Status
<1>3. /\ turn[t].at[s] = "reading" /\ Owns(t, s) /\ server[t][s] = "ok"
      /\ Over(t, s, stage, status) /\ Holds /\ UNCHANGED <<typed, wanted, server, spent>>
  BY <1>1, <1>2 DEF Done
<1>4. Why(t, s, stage, status)
  BY <1>1, <1>2, <1>3 DEF Why
<1>5. TypeInv' /\ Ends(t, s, stage, status)
  BY <1>2, <1>3, <1>4, OverSteps DEF Status
<1> QED BY <1>5 DEF EndsHow

\* A reader comes to its end.
LEMMA EndedSteps ==
    ASSUME Planned, TypeInv, NEW t \in 1..Len(turn), NEW s \in Sides, Ended(t, s)
    PROVE  TypeInv' /\ EndsHow(t, s)
<1>1. PICK stage \in {"ended", "settled"} : stage = "settled"
  OBVIOUS
<1>2. PICK good \in Status : good = "finished"
  BY DEF Status
<1>3. PICK bad \in Status : bad = "failed"
  BY DEF Status
<1>4. PICK cut \in Status : cut = "interrupted"
  BY DEF Status
<1>5. UNCHANGED <<typed, wanted, server>>
  BY DEF Ended
<1>6. CASE turn[t].at[s] = "ended" /\ Over(t, s, stage, good) /\ Holds /\ UNCHANGED spent
  <2>1. Why(t, s, stage, good)
    BY <1>1, <1>2, <1>6 DEF Why
  <2>2. TypeInv' /\ Ends(t, s, stage, good)
    BY <1>2, <1>5, <1>6, <2>1, OverSteps DEF Status
  <2> QED BY <2>2 DEF EndsHow
<1>7. CASE /\ turn[t].at[s] = "reading" /\ Owns(t, s)
           /\ UNCHANGED spent \/ May("drop")
           /\ Over(t, s, stage, bad) /\ Breaks({t})
  <2>1. Why(t, s, stage, bad)
    BY <1>1, <1>3, <1>7 DEF Why
  <2>2. TypeInv' /\ Ends(t, s, stage, bad)
    BY <1>3, <1>5, <1>7, <2>1, OverSteps DEF Status
  <2> QED BY <2>2 DEF EndsHow
<1>8. CASE /\ turn[t].at[s] = "reading" /\ (Cut(t, s) \/ ~Owns(t, s))
           /\ Over(t, s, stage, cut) /\ Holds /\ UNCHANGED spent
  <2>1. Why(t, s, stage, cut)
    BY <1>1, <1>8 DEF Why, Cut
  <2>2. TypeInv' /\ Ends(t, s, stage, cut)
    BY <1>4, <1>5, <1>8, <2>1, OverSteps DEF Status
  <2> QED BY <2>2 DEF EndsHow
<1> QED BY <1>1, <1>2, <1>3, <1>4, <1>6, <1>7, <1>8 DEF Ended

\* split.send returns.
LEMMA SettleSteps ==
    ASSUME Planned, TypeInv, NEW t \in 1..Len(turn), Settle(t)
    PROVE  TypeInv' /\ Settles(t)
<1>1. /\ \A s \in Sides : turn[t].at[s] \in {"none", "settled"}
      /\ composing' = FALSE /\ Holds /\ turn' = [turn EXCEPT ![t].open = FALSE]
      /\ UNCHANGED <<typed, wanted, target, panel, server, spent>>
  BY DEF Settle, Settled
<1>2. Closes(t)
  BY <1>1, ClosesIs DEF TypeInv
<1>3. Grown
  BY <1>2, MovesGrow DEF TypeInv
<1>4. Q \in Queue /\ dispatch.gens \subseteq dispatch.accepted
      /\ (dispatch.turn = None => dispatch = NoDispatch) /\ (paused => items # <<>>)
      /\ paused \in BOOLEAN /\ items \in Seq(ItemRec)
  BY DispatchOK
<1>5. Released(Q) \in Queue /\ Released(Q).items = items /\ Released(Q).dispatch = NoDispatch
      /\ Released(Q).paused = paused
  BY <1>4, ReleasedIs, QIs
<1>6. NoDispatch.gens \subseteq NoDispatch.accepted
  BY NothingWaits
<1>7. /\ QueueOK /\ Gathers(t)
      /\ dispatch' = NoDispatch \/ dispatch'.turn = dispatch.turn
      /\ dispatch'.turn = None => dispatch' = NoDispatch
      /\ paused => paused'
  <2>1. CASE SetQueue(Q) /\ (dispatch.turn # t \/ dispatch.gens # {})
    <3>1. QueueOK /\ items' = items /\ paused' = (paused /\ items # <<>>) /\ dispatch' = dispatch
      BY <1>4, <2>1, SetQueueIs, QIs
    <3>2. Gathers(t)
      BY <2>1, <3>1 DEF Gathers
    <3> QED BY <1>4, <3>1, <3>2
  <2>2. CASE dispatch.turn = t /\ dispatch.accepted = {} /\ SetQueue(Halt(Released(Q)))
    <3> DEFINE h == Halt(Released(Q))
    <3>1. h \in Queue /\ h.items = items /\ h.dispatch = NoDispatch /\ h.paused = (items # <<>>)
      BY <1>5, HaltIs
    <3> HIDE DEF h
    <3>2. SetQueue(h)
      BY <2>2 DEF h
    <3>3. QueueOK /\ items' = items /\ paused' = (items # <<>>) /\ dispatch' = NoDispatch
      BY <1>6, <3>1, <3>2, SetQueueIs
    <3>4. Gathers(t)
      BY <2>2, <3>3 DEF Gathers
    <3> QED BY <1>4, <3>3, <3>4
  <2>3. CASE /\ dispatch.turn = t /\ dispatch.accepted # {} /\ dispatch.gens = {} /\ Complete(Q)
             /\ SetQueue(Scheduled(Released(Q)))
    <3> DEFINE h == Scheduled(Released(Q))
    <3>1. h \in Queue /\ h.items = items /\ h.dispatch = NoDispatch /\ h.paused = paused
      BY <1>5, ScheduledIs
    <3> HIDE DEF h
    <3>2. SetQueue(h)
      BY <2>3 DEF h
    <3>3. QueueOK /\ items' = items /\ paused' = (paused /\ items # <<>>) /\ dispatch' = NoDispatch
      BY <1>6, <3>1, <3>2, SetQueueIs
    <3>4. Gathers(t)
      BY <2>3, <3>3 DEF Gathers
    <3> QED BY <1>4, <3>3, <3>4
  <2>4. CASE /\ dispatch.turn = t /\ dispatch.accepted # {} /\ dispatch.gens = {} /\ ~Complete(Q)
             /\ SetQueue(Halt(Released(Narrowed(Q))))
    <3> DEFINE n == Narrowed(Q)
               h == Halt(Released(n))
    <3>1. /\ n \in Queue
          /\ LET lacking == Meant(dispatch.turn) \ dispatch.accepted
             IN  \/ (dispatch.accepted = {} \/ lacking = {}) /\ n.items = items
                 \/ /\ dispatch.accepted # {} /\ lacking # {}
                    /\ Narrows(items, n.items, turn[dispatch.turn].msg, lacking)
      BY <1>4, NarrowedIs, QIs
    <3> HIDE DEF n
    <3>2. Released(n) \in Queue /\ Released(n).items = n.items /\ Released(n).dispatch = NoDispatch
      BY <3>1, ReleasedIs
    <3>3. h \in Queue /\ h.items = n.items /\ h.dispatch = NoDispatch /\ h.paused = (n.items # <<>>)
      BY <3>2, HaltIs
    <3> HIDE DEF h
    <3>4. SetQueue(h)
      BY <2>4 DEF h, n
    <3>5. QueueOK /\ items' = n.items /\ paused' = (n.items # <<>>) /\ dispatch' = NoDispatch
      BY <1>6, <3>3, <3>4, SetQueueIs
    <3>6. NarrowsNow
      BY <3>1, <3>5 DEF NarrowsNow
    <3>7. Gathers(t)
      BY <2>4, <3>5, <3>6 DEF Gathers
    <3>8. paused => paused'
      <4>1. n.items \in Seq(ItemRec)
        BY <3>1, QueueIs
      <4>2. n.items = items \/ \E m, l : Narrows(items, n.items, m, l)
        BY <3>1
      <4>3. n.items = items \/ ((n.items = <<>>) = (items = <<>>))
        BY <1>4, <4>1, <4>2, NarrowedKeeps
      <4> QED BY <1>4, <3>5, <4>3
    <3> QED BY <3>5, <3>7, <3>8
  <2> QED BY <2>1, <2>2, <2>3, <2>4 DEF Settle
<1>8. broken' \in BOOLEAN /\ thrown' = thrown /\ (broken' => broken /\ items' # <<>>)
  BY <1>1, BrokenIs DEF TypeInv, RestT
<1>9. /\ server' = server /\ Idle /\ target' = target /\ panel' = panel /\ spent' = spent
      /\ target' \in SomeSides /\ panel' \in [Sides -> PanelRec] /\ composing' \in BOOLEAN
      /\ thrown' \subseteq Messages
  BY <1>1, <1>8 DEF Idle, TypeInv, RestT
<1>10. TypeInv'
  BY <1>3, <1>7, <1>8, <1>9, TypesKept
<1> QED BY <1>1, <1>2, <1>7, <1>8, <1>9, <1>10 DEF Settles, Quietly

\* Every step.
LEMMA EveryStep ==
    ASSUME Planned, TypeInv, [Next]_vars
    PROVE  TypeInv' /\ (Kind \/ UNCHANGED vars)
<1>0. DOMAIN turn = 1..Len(turn)
  BY LengthIs DEF TypeInv
<1>1. CASE UNCHANGED vars
  <2>1. UNCHANGED <<typed, wanted, items, paused, dispatch, handoff, target, panel, composing, turn,
                    server, thrown, broken, spent>>
    BY <1>1 DEF vars, queue, view, history
  <2>2. Q' = Q
    BY <2>1 DEF Q
  <2>3. TypeInv'
    BY <2>1, <2>2 DEF TypeInv, TurnT, QueueT, ServerT, RestT
  <2> QED BY <1>1, <2>3
<1>2. CASE Submit \/ Resume \/ SendNext \/ Handoff
  <2>1. TypeInv' /\ (Rests \/ UserAsks \/ QueueAsks)
    BY <1>2, SubmitSteps, ResumeSteps, SendNextSteps, HandoffSteps
  <2> QED BY <2>1 DEF Kind
<1>3. CASE Arrange \/ Stop \/ \E sides \in Targets : SetTarget(sides)
  <2>1. TypeInv' /\ Rests
    BY <1>3, ArrangeSteps, StopSteps, SetTargetSteps
  <2> QED BY <2>1 DEF Kind
<1>4. CASE \E s \in Sides : Replace(s) \/ Replaced(s) \/ NotReplaced(s) \/ Loaded(s)
  <2>1. PICK s \in Sides : Replace(s) \/ Replaced(s) \/ NotReplaced(s) \/ Loaded(s)
    BY <1>4
  <2>2. TypeInv' /\ (Rests \/ Evicts(s))
    BY <2>1, ReplaceSteps, ReplacedSteps, NotReplacedSteps, LoadedSteps
  <2> QED BY <2>2 DEF Kind
<1>5. ASSUME NEW t \in DOMAIN turn, Settle(t) PROVE TypeInv' /\ Kind
  <2>1. TypeInv' /\ Settles(t)
    BY <1>0, <1>5, SettleSteps
  <2> QED BY <1>0, <2>1 DEF Kind
<1>6. ASSUME NEW t \in DOMAIN turn, NEW s \in Sides, Accept(t, s) \/ Finish(t, s) \/ Answered(t, s)
      PROVE  TypeInv' /\ Kind
  <2>1. TypeInv' /\ (Serves(t, s) \/ Answers(t, s))
    BY <1>0, <1>6, AcceptSteps, FinishSteps, AnsweredSteps
  <2> QED BY <1>0, <2>1 DEF Kind
<1>7. ASSUME NEW t \in DOMAIN turn, NEW s \in Sides, Refused(t, s) \/ Done(t, s) \/ Ended(t, s)
      PROVE  TypeInv' /\ Kind
  <2>1. TypeInv' /\ EndsHow(t, s)
    BY <1>0, <1>7, RefusedSteps, DoneSteps, EndedSteps
  <2>2. \E stage \in {"ended", "settled"}, status \in {"finished", "failed", "interrupted"} :
            Ends(t, s, stage, status)
    BY <2>1 DEF EndsHow, Status
  <2> QED BY <1>0, <2>1, <2>2 DEF Kind
<1>8. Next \/ UNCHANGED vars
  OBVIOUS
<1> QED BY <1>1, <1>2, <1>3, <1>4, <1>5, <1>6, <1>7, <1>8 DEF Next, Request

-----------------------------------------------------------------------------
(* Type correctness. *)

\* Init is well-typed.
LEMMA InitTypes == ASSUME Planned, Init PROVE TypeInv
<1>1. turn = <<>> /\ Len(turn) = 0 /\ turn \in Seq(TurnRec) /\ 1..Len(turn) = {}
  BY DEF Init
<1>2. TurnT
  BY <1>1 DEF TurnT, Planned, SplitAssumption
<1>3. items = <<>> /\ items \in Seq(ItemRec) /\ paused = FALSE /\ dispatch = NoDispatch /\
      handoff = FALSE
  BY DEF Init
<1>4. QueueT
  <2>1. Q.items \in Seq(ItemRec) /\ Q.paused \in BOOLEAN /\ Q.dispatch \in DispatchRec
        /\ Q.handoff \in BOOLEAN
        /\ Q = [items |-> Q.items, paused |-> Q.paused, dispatch |-> Q.dispatch,
                handoff |-> Q.handoff]
    <3>1. paused \in BOOLEAN /\ handoff \in BOOLEAN
      BY <1>3
    <3>2. Q.items = items /\ Q.paused = paused /\ Q.dispatch = dispatch /\ Q.handoff = handoff
      BY QIs
    <3>3. Q = [items |-> Q.items, paused |-> Q.paused, dispatch |-> Q.dispatch,
          handoff |-> Q.handoff]
      BY DEF Q
    <3> QED BY <1>3, <3>1, <3>2, <3>3, NothingWaits
  <2>2. Q \in Queue
    BY <2>1, QueueIs
  <2> QED BY <1>3, <2>2, NothingWaits DEF QueueT
<1>5. ServerT
  BY DEF ServerT, Init
<1>6. panel \in [Sides -> PanelRec]
  <2>1. PICK b \in BOOLEAN : b = FALSE
    OBVIOUS
  <2>2. PICK c \in {0, 1} : c = 0
    OBVIOUS
  <2>3. PICK n \in Turns \cup {None} : n = None
    OBVIOUS
  <2> DEFINE p == [turn |-> n, stop |-> b, chat |-> c, loading |-> b, replacing |-> n]
  <2>4. panel = [s \in Sides |-> p]
    BY <2>1, <2>2, <2>3 DEF Init
  <2>5. p \in PanelRec
    BY DEF PanelRec
  <2> HIDE DEF p
  <2> QED BY <2>4, <2>5
<1>7. wanted \in [Messages -> [to : SUBSET Sides, chats : Chats]]
  <2> DEFINE c == [s \in Sides |-> 0]
             w == [to |-> {}, chats |-> c]
  <2>1. wanted = [m \in Messages |-> w]
    BY DEF Init
  <2>2. c \in Chats
    BY DEF Chats
  <2> HIDE DEF c
  <2>3. w \in [to : SUBSET Sides, chats : Chats]
    BY <2>2
  <2> HIDE DEF w
  <2> QED BY <2>1, <2>3
<1>8. RestT
  <2>1. target \in SomeSides
    BY DEF Init, Planned, SplitAssumption, SomeSides, Targets
  <2>2. composing = FALSE /\ thrown = {} /\ broken = FALSE /\ spent = 0 /\ typed = 0
    BY DEF Init
  <2>3. 0 \in 0..MaxMessages /\ 0 \in 0..Budget
    BY DEF Planned, SplitAssumption
  <2>4. typed \in 0..MaxMessages /\ spent \in 0..Budget /\ thrown \subseteq Messages
    BY <2>2, <2>3
  <2>5. composing \in BOOLEAN /\ broken \in BOOLEAN
    BY <2>2
  <2> QED BY <1>6, <1>7, <2>1, <2>4, <2>5 DEF RestT
<1> QED BY <1>2, <1>4, <1>5, <1>8 DEF TypeInv

\* The inductive invariant of the types.
LEMMA Always == ASSUME SplitAssumption PROVE Spec => [](Planned /\ TypeInv)
<1>1. Init => Planned /\ TypeInv
  BY HasPlan, InitTypes
<1>2. Planned /\ TypeInv /\ [Next /\ UNCHANGED plan]_<<vars, plan>> => Planned' /\ TypeInv'
  BY KeepsPlan, EveryStep
<1> QED BY <1>1, <1>2, PTL DEF Spec

\* Types: every variable of the split screen, its panels, turns and queue keeps its
\* domain; a dispatch waits only for generations of panels that took the message, and
\* an empty queue is not paused (renderQueue), whatever the user and the network do.
THEOREM SplitTypes == ASSUME SplitAssumption PROVE Spec => []TypeOK
<1>1. Planned /\ TypeInv => TypeOK
  BY TypeInvTypes
<1> QED BY <1>1, Always, PTL

-----------------------------------------------------------------------------
(* What every step has in common: it forgets no turn and no generation, and  *)
(* items come and go in a few ways only.                                     *)

SameTurns ==
    /\ Len(turn) <= Len(turn')
    /\ \A k \in 1..Len(turn) :
          /\ SameTurn(turn'[k], turn[k])
          /\ \A z \in Sides : /\ turn'[k].at[z] = "none" <=> turn[k].at[z] = "none"
                              /\ turn'[k].at[z] = "asked" => turn[k].at[z] = "asked"
SameServer ==
    \A u \in Turns, z \in Sides :
        /\ server[u][z] # "absent" => server'[u][z] # "absent"
        /\ server'[u][z] # "absent" =>
              server[u][z] # "absent" \/ (u \in 1..Len(turn) /\ turn[u].at[z] = "asked")

\* An item that waits only for the panels that lack its message.
Lacks(i) == /\ dispatch.accepted # {} /\ i.msg = turn[dispatch.turn].msg
            /\ i.target = Meant(dispatch.turn) \ dispatch.accepted
\* A message of which the last panel answers.
TakenNow(m) ==
    /\ dispatch.turn \in 1..Len(turn) /\ turn[dispatch.turn].msg = m
    /\ \E s \in Sides : /\ turn[dispatch.turn].at[s] = "asked"
                        /\ server[dispatch.turn][s] # "absent"
                        /\ Meant(dispatch.turn) = dispatch.accepted \cup {s}
NewItems ==
    \A j \in In(items') :
        \/ Typing /\ j = Item
        \/ \E i \in In(items) : j.msg = i.msg /\ j.chats = i.chats /\
              (j.target = i.target \/ Lacks(j))
LostItems ==
    /\ thrown \subseteq thrown'
    /\ \A i \in In(items) :
          (\E j \in In(items') : j.msg = i.msg) \/ i.msg \in thrown' \/ TakenNow(i.msg)
StillOne == Distinct(items) /\ (\A i \in In(items) : i.msg # typed + 1) => Distinct(items')
NewTurns ==
    \A k \in 1..Len(turn') : k \in 1..Len(turn) \/
        /\ k = Len(turn) + 1 /\ turn'[k].chats = Now
        /\ \/ /\ turn'[k].by = "user" /\ Typing /\ turn'[k].msg = typed + 1
              /\ Meant(k)' = target /\ items' = items
           \/ /\ turn'[k].by = "queue" /\ dispatch = NoDispatch /\ dispatch'.turn = k
              /\ \E i \in In(items') : turn'[k].msg = i.msg /\ i.chats = Now
                                       /\ Meant(k)' = i.target
NewMessage ==
    \/ Idle
    \/ Typing /\ \/ \E j \in In(items') : j.msg = typed + 1
                 \/ \E k \in 1..Len(turn') : turn'[k].by = "user" /\ turn'[k].msg = typed + 1
Accepts ==
    \A s \in dispatch'.accepted :
        /\ dispatch'.turn = dispatch.turn
        /\ \/ s \in dispatch.accepted
           \/ /\ dispatch.turn \in 1..Len(turn) /\ s \in Sides
              /\ turn[dispatch.turn].at[s] = "asked" /\ server[dispatch.turn][s] # "absent"
Frame == /\ SameTurns /\ SameServer /\ NewItems /\ LostItems /\ StillOne
         /\ NewTurns /\ NewMessage /\ Accepts

\* A moved or closed turn is still the same turn.
LEMMA AllTurns ==
    ASSUME TypeInv, \/ turn' = turn
                    \/ \E t, s, stage : /\ Moves(t, s, stage) /\ turn[t].at[s] # "none"
                                        /\ stage \notin {"none", "asked"}
                    \/ \E t : Closes(t)
    PROVE  SameTurns /\ NewTurns
<1>0. Len(turn) \in Nat /\ \A k \in 1..Len(turn) : SameTurn(turn[k], turn[k])
  BY LengthIs DEF TypeInv, SameTurn
<1>1. CASE turn' = turn
  BY <1>0, <1>1 DEF SameTurns, NewTurns
<1>2. ASSUME NEW t, NEW s, NEW stage, Moves(t, s, stage), turn[t].at[s] # "none",
             stage \notin {"none", "asked"}
      PROVE  SameTurns /\ NewTurns
  BY <1>0, <1>2 DEF SameTurns, NewTurns, Moves
<1>3. ASSUME NEW t, Closes(t) PROVE SameTurns /\ NewTurns
  BY <1>0, <1>3 DEF SameTurns, NewTurns, Closes
<1> QED BY <1>1, <1>2, <1>3

\* A turn that begins is the only new one.
LEMMA BegunTurns ==
    ASSUME TypeInv, NEW sides \in SUBSET Sides, NEW by, NEW m, Begins(sides, by, m),
           \/ by = "user" /\ Typing /\ m = typed + 1 /\ sides = target /\ items' = items
           \/ by = "queue" /\ dispatch = NoDispatch /\ dispatch'.turn = Len(turn) + 1 /\
                 \E i \in In(items') : m = i.msg /\ i.chats = Now /\ sides = i.target
    PROVE  /\ SameTurns /\ NewTurns
           /\ \E k \in 1..Len(turn') : turn'[k].by = by /\ turn'[k].msg = m
<1>0. Len(turn) \in Nat /\ \A k \in 1..Len(turn) : SameTurn(turn[k], turn[k])
  BY LengthIs DEF TypeInv, SameTurn
<1>1. /\ Len(turn') = Len(turn) + 1 /\ \A k \in 1..Len(turn) : turn'[k] = turn[k]
      /\ turn'[Len(turn) + 1].msg = m /\ turn'[Len(turn) + 1].by = by
      /\ turn'[Len(turn) + 1].chats = Now
      /\ \A s \in Sides : turn'[Len(turn) + 1].at[s] = IF s \in sides THEN "asked" ELSE "none"
  BY DEF Begins
<1>2. SameTurns
  BY <1>0, <1>1 DEF SameTurns
<1>3. ASSUME NEW k, k = Len(turn) + 1 PROVE Meant(k)' = sides
  BY <1>1, <1>3 DEF Meant
<1>4. NewTurns
  <2> SUFFICES ASSUME NEW k \in 1..Len(turn'), k \notin 1..Len(turn)
               PROVE  /\ k = Len(turn) + 1 /\ turn'[k].chats = Now
                      /\ \/ /\ turn'[k].by = "user" /\ Typing /\ turn'[k].msg = typed + 1
                            /\ Meant(k)' = target /\ items' = items
                         \/ /\ turn'[k].by = "queue" /\ dispatch = NoDispatch /\ dispatch'.turn = k
                            /\ \E i \in In(items') : turn'[k].msg = i.msg /\ i.chats = Now
                                                     /\ Meant(k)' = i.target
    BY DEF NewTurns
  <2>1. k = Len(turn) + 1
    BY <1>0, <1>1
  <2> QED BY <1>1, <1>3, <2>1
<1> QED BY <1>0, <1>1, <1>2, <1>4

\* No item moves.
LEMMA ItemsAs ==
    ASSUME items' = items, thrown \subseteq thrown' PROVE NewItems /\ LostItems /\ StillOne
  BY DEF NewItems, LostItems, StillOne

\* An item joins.
LEMMA ItemsJoin ==
    ASSUME Planned, TypeInv, Joins PROVE NewItems /\ LostItems /\ StillOne /\ NewMessage
<1>1. items \in Seq(ItemRec) /\ Item \in ItemRec /\ Typing /\ items' = Append(items, Item)
      /\ thrown' = thrown
  BY DispatchOK, TypedIs DEF Joins, TypeInv
<1>2. In(items') = In(items) \cup {Item}
  BY <1>1, AppendIs
<1>3. Item.msg = typed + 1
  BY DEF Item
<1> HIDE DEF Item
<1>4. StillOne
  BY <1>1, <1>3, AppendIs DEF StillOne
<1> QED BY <1>1, <1>2, <1>3, <1>4 DEF NewItems, LostItems, NewMessage

\* An item leaves.
LEMMA ItemsLeave ==
    ASSUME NEW m, Takes(items, items', m), m \in thrown' \/ TakenNow(m), thrown \subseteq thrown'
    PROVE  NewItems /\ LostItems /\ StillOne
  BY DEF Takes, NewItems, LostItems, StillOne

\* An item learns which panels lack it.
LEMMA ItemsNarrow ==
    ASSUME TypeInv, TypeInv', NarrowsNow, thrown \subseteq thrown'
    PROVE  NewItems /\ LostItems /\ StillOne
<1>1. items \in Seq(ItemRec)
  BY DispatchOK
<1>2. CASE items' = items
  BY <1>2, ItemsAs
<1>3. CASE items' # items
  <2> DEFINE l == Meant(dispatch.turn) \ dispatch.accepted
             m == turn[dispatch.turn].msg
  <2>1. dispatch.accepted # {} /\ Narrows(items, items', m, l)
    BY <1>3 DEF NarrowsNow
  <2>2. /\ Len(items') = Len(items)
        /\ \A k \in 1..Len(items) :
              /\ items'[k].msg = items[k].msg /\ items'[k].chats = items[k].chats
              /\ items'[k].target = items[k].target \/ Lacks(items'[k])
    BY <2>1 DEF Narrows, Lacks
  <2>3. StillOne
    BY <2>2 DEF StillOne, Distinct
  <2> QED BY <2>2, <2>3 DEF NewItems, LostItems, In
<1> QED BY <1>2, <1>3

\* What hearing of the end of a generation does to items and dispatch.
LEMMA HearsFrame ==
    ASSUME TypeInv, TypeInv', NEW t, NEW s, NEW status, Hears(t, s, status), thrown' = thrown
    PROVE  NewItems /\ LostItems /\ StillOne /\ Accepts
<1>1. CASE Frees(t, s, status)
  <2>1. items' = items /\ dispatch' = NoDispatch
    BY <1>1 DEF Frees
  <2> QED BY <2>1, ItemsAs, NothingWaits DEF Accepts
<1>2. CASE Ignores(t, s)
  <2>1. items' = items /\ dispatch' = dispatch
    BY <1>2 DEF Ignores
  <2> QED BY <2>1, ItemsAs DEF Accepts
<1>3. CASE Awaited(t, s)
  <2>1. items' = items /\ dispatch'.turn = dispatch.turn /\ dispatch'.accepted = dispatch.accepted
    BY <1>3 DEF Awaited, Awaits
  <2> QED BY <2>1, ItemsAs DEF Accepts
<1>4. CASE Gives(t, s)
  <2>1. NarrowsNow /\ dispatch' = NoDispatch
    BY <1>4 DEF Gives
  <2> QED BY <2>1, ItemsNarrow, NothingWaits DEF Accepts
<1> QED BY <1>1, <1>2, <1>3, <1>4 DEF Hears

\* The server does nothing.
LEMMA ServerAs == server' = server => SameServer
  BY DEF SameServer

\* Every step has it in common.
LEMMA FrameIs ==
    ASSUME Planned, TypeInv, TypeInv', Kind \/ UNCHANGED vars PROVE Frame
<1>0. /\ target \in SUBSET Sides /\ Len(turn) \in Nat /\ items' \in Seq(ItemRec)
      /\ 1..Len(turn) \subseteq Turns
  <2>1. target \in SUBSET Sides
    BY DEF TypeInv, RestT, SomeSides
  <2>2. Q' \in Queue /\ Q'.items = items'
    BY DEF TypeInv, QueueT, Q
  <2> QED BY <2>1, <2>2, QueueIs, LengthIs, TurnsAre DEF TypeInv
<1>1. CASE Rests
  <2>1. turn' = turn /\ server' = server /\ dispatch' = dispatch /\ (Stays \/ Joins \/ Removes)
    BY <1>1 DEF Rests
  <2>2. SameTurns /\ NewTurns /\ SameServer /\ Accepts
    BY <2>1, AllTurns, ServerAs DEF Accepts
  <2>3. CASE Stays
    <3>1. NewItems /\ LostItems /\ StillOne /\ NewMessage
      BY <2>3, ItemsAs DEF Stays, NewMessage
    <3> QED BY <2>2, <3>1 DEF Frame
  <2>4. CASE Joins
    BY <2>2, <2>4, ItemsJoin DEF Frame
  <2>5. CASE Removes
    <3>1. NewItems /\ LostItems /\ StillOne /\ NewMessage
      BY <2>5, ItemsLeave DEF Removes, NewMessage
    <3> QED BY <2>2, <3>1 DEF Frame
  <2> QED BY <2>1, <2>3, <2>4, <2>5
<1>2. CASE UserAsks
  <2>1. /\ Typing /\ items' = items /\ dispatch' = dispatch /\ thrown' = thrown
        /\ server' = server /\ Begins(target, "user", typed + 1)
    BY <1>2 DEF UserAsks
  <2>2. SameTurns /\ NewTurns
        /\ \E k \in 1..Len(turn') : turn'[k].by = "user" /\ turn'[k].msg = typed + 1
    BY <1>0, <2>1, BegunTurns
  <2>3. NewItems /\ LostItems /\ StillOne /\ SameServer
    BY <2>1, ItemsAs, ServerAs
  <2>4. NewMessage /\ Accepts
    BY <2>1, <2>2 DEF NewMessage, Accepts
  <2> QED BY <2>2, <2>3, <2>4 DEF Frame
<1>3. CASE QueueAsks
  <2> DEFINE i == items'[1]
  <2>1. /\ Stays \/ Joins
        /\ server' = server /\ items' # <<>> /\ i.chats = Now /\ dispatch = NoDispatch
        /\ dispatch' = [turn |-> Len(turn) + 1, gens |-> {}, accepted |-> {}]
        /\ Begins(i.target, "queue", i.msg)
    BY <1>3 DEF QueueAsks
  <2>2. i \in In(items') /\ i \in ItemRec
    <3>1. 1 \in 1..Len(items')
      BY <1>0, <2>1, EmptySeq, LenProperties
    <3> QED BY <1>0, <3>1, ElementOfSeq DEF In
  <2> HIDE DEF i
  <2>3. i.target \in SUBSET Sides
    BY <2>2 DEF ItemRec, SomeSides
  <2>4. SameTurns /\ NewTurns
    BY <2>1, <2>2, <2>3, BegunTurns
  <2>5. NewItems /\ LostItems /\ StillOne /\ NewMessage
    <3>1. CASE Stays
      BY <3>1, ItemsAs DEF Stays, NewMessage
    <3>2. CASE Joins
      BY <3>2, ItemsJoin
    <3> QED BY <2>1, <3>1, <3>2
  <2>6. SameServer /\ Accepts
    BY <2>1, ServerAs DEF Accepts
  <2> QED BY <2>4, <2>5, <2>6 DEF Frame
<1>4. ASSUME NEW t \in 1..Len(turn), Settles(t) PROVE Frame
  <2>1. Closes(t) /\ Gathers(t) /\ server' = server /\ Idle /\ thrown' = thrown
    BY <1>4 DEF Settles
  <2>2. SameTurns /\ NewTurns /\ SameServer /\ NewMessage
    BY <2>1, AllTurns, ServerAs DEF NewMessage
  <2>3. NewItems /\ LostItems /\ StillOne
    <3>1. items' = items \/ NarrowsNow
      BY <2>1 DEF Gathers
    <3> QED BY <2>1, <3>1, ItemsAs, ItemsNarrow
  <2>4. Accepts
    BY <2>1, NothingWaits DEF Gathers, Accepts
  <2> QED BY <2>2, <2>3, <2>4 DEF Frame
<1>5. ASSUME NEW t \in 1..Len(turn), NEW s \in Sides, Serves(t, s) PROVE Frame
  <2>1. turn' = turn /\ dispatch' = dispatch /\ Stays
    BY <1>5 DEF Serves
  <2>2. SameTurns /\ NewTurns /\ Accepts
    BY <2>1, AllTurns DEF Accepts
  <2>3. NewItems /\ LostItems /\ StillOne /\ NewMessage
    BY <2>1, ItemsAs DEF Stays, NewMessage
  <2>4. SameServer
    BY <1>0, <1>5 DEF Serves, SameServer
  <2> QED BY <2>2, <2>3, <2>4 DEF Frame
<1>6. ASSUME NEW t \in 1..Len(turn), NEW s \in Sides, Answers(t, s) PROVE Frame
  <2>1. /\ turn[t].at[s] = "asked" /\ server[t][s] # "absent" /\ Moves(t, s, "reading")
        /\ server' = server /\ Idle /\ thrown' = thrown /\ TakesUp(t, s)
    BY <1>6 DEF Answers
  <2>2. SameTurns /\ NewTurns
    <3>1. turn[t].at[s] # "none" /\ "reading" \notin {"none", "asked"}
      BY <2>1
    <3> QED BY <2>1, <3>1, AllTurns
  <2>3. SameServer /\ NewMessage
    BY <2>1, ServerAs DEF NewMessage
  <2>4. Accepts
    BY <2>1 DEF TakesUp, Accepts
  <2>5. NewItems /\ LostItems /\ StillOne
    <3>1. CASE items' = items
      BY <2>1, <3>1, ItemsAs
    <3>2. CASE items' # items
      <4>1. TakenNow(turn[t].msg) /\ Takes(items, items', turn[t].msg)
        BY <2>1, <3>2 DEF TakesUp, TakenNow
      <4> QED BY <2>1, <4>1, ItemsLeave
    <3> QED BY <3>1, <3>2
  <2> QED BY <2>2, <2>3, <2>4, <2>5 DEF Frame
<1>7. ASSUME NEW t \in 1..Len(turn), NEW s \in Sides, NEW stage \in {"ended", "settled"},
             NEW status,
             Ends(t, s, stage, status)
      PROVE  Frame
  <2>1. /\ Why(t, s, stage, status) /\ Moves(t, s, stage) /\ server' = server /\ Idle
        /\ thrown' = thrown
        /\ Owns(t, s) => Hears(t, s, status)
        /\ ~Owns(t, s) => items' = items /\ dispatch' = dispatch
    BY <1>7 DEF Ends
  <2>2. SameTurns /\ NewTurns
    <3>1. turn[t].at[s] # "none" /\ stage \notin {"none", "asked"}
      BY <2>1 DEF Why
    <3> QED BY <2>1, <3>1, AllTurns
  <2>3. SameServer /\ NewMessage
    BY <2>1, ServerAs DEF NewMessage
  <2>4. NewItems /\ LostItems /\ StillOne /\ Accepts
    <3>1. CASE Owns(t, s)
      BY <2>1, <3>1, HearsFrame
    <3>2. CASE ~Owns(t, s)
      BY <2>1, <3>2, ItemsAs DEF Accepts
    <3> QED BY <3>1, <3>2
  <2> QED BY <2>2, <2>3, <2>4 DEF Frame
<1>8. ASSUME NEW s \in Sides, Evicts(s) PROVE Frame
  <2>1. /\ turn' = turn /\ server' = server /\ Idle /\ thrown' = thrown
        /\ panel[s].turn # None => Hears(panel[s].turn, s, "interrupted")
        /\ panel[s].turn = None => items' = items /\ dispatch' = dispatch
    BY <1>8 DEF Evicts
  <2>2. SameTurns /\ NewTurns /\ SameServer /\ NewMessage
    BY <2>1, AllTurns, ServerAs DEF NewMessage
  <2>3. NewItems /\ LostItems /\ StillOne /\ Accepts
    <3>1. CASE panel[s].turn # None
      BY <2>1, <3>1, HearsFrame
    <3>2. CASE panel[s].turn = None
      BY <2>1, <3>2, ItemsAs DEF Accepts
    <3> QED BY <3>1, <3>2
  <2> QED BY <2>2, <2>3 DEF Frame
<1>9. CASE UNCHANGED vars
  <2>1. turn' = turn /\ server' = server /\ items' = items /\ thrown' = thrown /\ Idle
        /\ dispatch' = dispatch
    BY <1>9 DEF vars, queue, view, history, Idle
  <2>2. SameTurns /\ NewTurns /\ SameServer /\ NewItems /\ LostItems /\ StillOne
    BY <2>1, AllTurns, ServerAs, ItemsAs
  <2> QED BY <2>1, <2>2 DEF Frame, NewMessage, Accepts
<1> QED BY <1>1, <1>2, <1>3, <1>4, <1>5, <1>6, <1>7, <1>8, <1>9 DEF Kind

-----------------------------------------------------------------------------
(* No message is dropped, whatever goes wrong: what a message was typed for *)
(* is what has it, what it waits for, and what a turn asks.                 *)

\* A panel that has taken the message of a turn; the panels that have a message.
Has(t, s) == turn[t].at[s] # "none" /\ server[t][s] # "absent"
HasIt(m) == {s \in Sides : \E t \in 1..Len(turn) : turn[t].msg = m /\ Has(t, s)}

Numbered == /\ \A t \in 1..Len(turn) : turn[t].msg \in 1..typed
            /\ \A i \in In(items) : i.msg \in 1..typed
ItemsLack == \A i \in In(items) : wanted[i.msg].to = i.target \cup HasIt(i.msg)
TurnsAsk == \A t \in 1..Len(turn) :
    LET m == turn[t].msg IN
    /\ turn[t].by = "queue" => wanted[m].to = Meant(t) \cup HasIt(m)
    /\ turn[t].by = "user" => wanted[m].to = Meant(t)
Accepted == \A s \in dispatch.accepted : s \in Sides /\ Has(dispatch.turn, s)
Found(m) == \/ (\E i \in In(items) : i.msg = m) \/ m \in thrown
            \/ \E t \in 1..Len(turn) : turn[t].msg = m /\ turn[t].by = "user"
            \/ wanted[m].to = HasIt(m)
Kept == Numbered /\ ItemsLack /\ TurnsAsk /\ Accepted /\ \A m \in 1..typed : Found(m)

\* The panels that have a message, as the properties count them.
LEMMA TakenIs ==
    ASSUME TypeInv, NEW m PROVE {x[2] : x \in TakenBy(m)} = HasIt(m)
<1>1. DOMAIN turn = 1..Len(turn)
  BY LengthIs DEF TypeInv
<1>2. ASSUME NEW s \in {x[2] : x \in TakenBy(m)} PROVE s \in HasIt(m)
  BY <1>1 DEF TakenBy, HasIt, Has
<1>3. ASSUME NEW s \in HasIt(m) PROVE s \in {x[2] : x \in TakenBy(m)}
  <2>1. PICK t \in 1..Len(turn) : turn[t].msg = m /\ Has(t, s)
    BY DEF HasIt
  <2>2. <<t, s>> \in TakenBy(m)
    BY <1>1, <2>1 DEF TakenBy, Has, HasIt
  <2>3. <<t, s>>[2] = s
    OBVIOUS
  <2> QED BY <2>2, <2>3
<1> QED BY <1>2, <1>3

\* The invariant implies the property.
LEMMA KeptNothingDropped == ASSUME TypeInv, Kept PROVE NothingDropped
<1> SUFFICES ASSUME NEW m \in 1..typed
             PROVE  \/ Waiting(m) \/ m \in thrown
                    \/ \E t \in DOMAIN turn : turn[t].msg = m /\ turn[t].by = "user"
                    \/ wanted[m].to = {x[2] : x \in TakenBy(m)}
  BY DEF NothingDropped
<1>1. DOMAIN turn = 1..Len(turn) /\ DOMAIN items = 1..Len(items)
  <2>1. items \in Seq(ItemRec)
    BY DispatchOK
  <2> QED BY <2>1, LengthIs, LenProperties DEF TypeInv
<1>2. Found(m)
  BY DEF Kept
<1>3. (\E i \in In(items) : i.msg = m) => Waiting(m)
  BY <1>1 DEF In, Waiting
<1> QED BY <1>1, <1>2, <1>3, TakenIs DEF Found

\* What typing leaves of the other messages.
LEMMA WantedIs ==
    ASSUME Planned, TypeInv, Idle \/ Typing
    PROVE  /\ typed \in Nat /\ typed <= typed'
           /\ \A m \in 1..typed : m \in 1..typed' /\ wanted'[m] = wanted[m]
           /\ Typing => /\ typed + 1 \in 1..typed' /\ wanted'[typed + 1].to = target
                        /\ wanted'[typed + 1].chats = Now
           /\ \A m \in 1..typed' : m \in 1..typed \/ (Typing /\ m = typed + 1)
<1>1. typed \in 0..MaxMessages /\ wanted \in [Messages -> [to : SUBSET Sides, chats : Chats]]
  BY DEF TypeInv, RestT
<1>2. CASE Idle
  <2>1. typed' = typed /\ wanted' = wanted
    BY <1>2 DEF Idle
  <2>2. ~Typing
    BY <1>1, <2>1 DEF Typing
  <2> QED BY <1>1, <2>1, <2>2
<1>3. CASE Typing
  <2> DEFINE w == [to |-> target, chats |-> Now]
  <2>1. typed < MaxMessages /\ typed' = typed + 1 /\ wanted' = [wanted EXCEPT ![typed + 1] = w]
    BY <1>3 DEF Typing
  <2>2. w.to = target /\ w.chats = Now
    OBVIOUS
  <2> HIDE DEF w
  <2>3. typed + 1 \in Messages /\ 1..typed \subseteq Messages
    BY <1>1, <2>1 DEF Messages, Planned, SplitAssumption
  <2>4. typed \in Nat /\ \A m \in 1..typed : m # typed + 1 /\ m \in 1..typed+1
    BY <1>1 DEF Planned, SplitAssumption
  <2>5. wanted'[typed + 1] = w /\ \A m \in 1..typed : wanted'[m] = wanted[m]
    BY <1>1, <2>1, <2>3, <2>4
  <2> QED BY <1>3, <2>1, <2>2, <2>4, <2>5
<1> QED BY <1>2, <1>3

\* What a message was typed for has it, and more and more of it.
LEMMA HasGrows ==
    ASSUME Planned, TypeInv, TypeInv', Frame, Kept
    PROVE  /\ \A m \in 1..typed : HasIt(m) \subseteq HasIt(m)'
                                  /\ HasIt(m)' \subseteq HasIt(m) \cup wanted[m].to
           /\ \A m : m \notin 1..typed => HasIt(m)' = {}
           /\ \A k \in 1..Len(turn) : Meant(k)' = Meant(k)
<1>0. /\ Len(turn) \in Nat /\ Len(turn') \in Nat /\ Len(turn) <= Len(turn')
      /\ 1..Len(turn) \subseteq Turns /\ 1..Len(turn') \subseteq Turns
  <2>1. TurnT /\ TurnT'
    BY DEF TypeInv
  <2>2. 1..Len(turn') \subseteq Turns
    BY <2>1, LenProperties DEF TurnT, Turns, Planned, SplitAssumption
  <2> QED BY <2>1, <2>2, LengthIs, LenProperties, TurnsAre DEF Frame, SameTurns, TurnT
<1>1. ASSUME NEW k \in 1..Len(turn) PROVE Meant(k)' = Meant(k)
  BY DEF Meant, Frame, SameTurns
<1>2. ASSUME NEW m, NEW s \in Sides, s \in HasIt(m)
      PROVE  s \in HasIt(m)'
  <2>1. PICK t \in 1..Len(turn) : turn[t].msg = m /\ Has(t, s)
    BY <1>2 DEF HasIt
  <2>2. t \in 1..Len(turn') /\ turn'[t].msg = m /\ turn'[t].at[s] # "none"
    BY <1>0, <2>1 DEF Has, Frame, SameTurns, SameTurn
  <2>3. server'[t][s] # "absent"
    BY <1>0, <2>1 DEF Has, Frame, SameServer
  <2> QED BY <2>2, <2>3 DEF HasIt, Has
<1>3. ASSUME NEW m, NEW s \in Sides, s \in HasIt(m)'
      PROVE  m \in 1..typed /\ s \in HasIt(m) \cup wanted[m].to
  <2>1. PICK t \in 1..Len(turn') : turn'[t].msg = m /\ turn'[t].at[s] # "none"
                                   /\ server'[t][s] # "absent"
    BY <1>3 DEF HasIt, Has
  <2>2. t \in 1..Len(turn)
    BY <1>0, <2>1 DEF Frame, SameServer, TypeInv, ServerT
  <2>3. turn[t].msg = m /\ turn[t].at[s] # "none"
    BY <2>1, <2>2 DEF Frame, SameTurns, SameTurn
  <2>4. s \in Meant(t)
    BY <2>3 DEF Meant
  <2>5. turn[t].by \in {"user", "queue"} /\ m \in 1..typed
    BY <2>2, <2>3, LengthIs DEF TypeInv, TurnRec, Kept, Numbered
  <2>6. s \in wanted[m].to
    BY <2>2, <2>3, <2>4, <2>5 DEF Kept, TurnsAsk
  <2> QED BY <2>5, <2>6
<1>4. \A m : HasIt(m)' \subseteq Sides /\ HasIt(m) \subseteq Sides
  BY DEF HasIt
<1> QED BY <1>1, <1>2, <1>3, <1>4

\* Every step keeps the messages.
LEMMA KeptSteps ==
    ASSUME Planned, TypeInv, TypeInv', Frame, Kept PROVE Kept'
<1>0. /\ Len(turn) \in Nat /\ Len(turn) <= Len(turn')
      /\ 1..Len(turn) \subseteq Turns /\ (Idle \/ Typing)
  BY LengthIs, TurnsAre DEF TypeInv, Frame, SameTurns, NewMessage
<1>1. /\ typed \in Nat /\ typed <= typed'
      /\ \A m \in 1..typed : m \in 1..typed' /\ wanted'[m] = wanted[m]
      /\ Typing => /\ typed + 1 \in 1..typed' /\ wanted'[typed + 1].to = target
                   /\ typed + 1 \notin 1..typed
      /\ \A m \in 1..typed' : m \in 1..typed \/ (Typing /\ m = typed + 1)
  <2>1. typed \in Nat => typed + 1 \notin 1..typed
    OBVIOUS
  <2> QED BY <1>0, <2>1, WantedIs
<1>2. /\ \A m \in 1..typed : HasIt(m) \subseteq HasIt(m)'
                             /\ HasIt(m)' \subseteq HasIt(m) \cup wanted[m].to
      /\ \A m : m \notin 1..typed => HasIt(m)' = {}
      /\ \A k \in 1..Len(turn) : Meant(k)' = Meant(k)
  BY HasGrows
<1>3. /\ \A t \in 1..Len(turn) : turn[t].msg \in 1..typed
      /\ \A i \in In(items) : i.msg \in 1..typed
      /\ \A i \in In(items) : wanted[i.msg].to = i.target \cup HasIt(i.msg)
  BY DEF Kept, Numbered, ItemsLack
<1>4. Item.msg = typed + 1 /\ Item.target = target
  BY DEF Item
\* The panels that a narrowed item lacks.
<1>5. ASSUME NEW j, Lacks(j)
      PROVE  j.msg \in 1..typed /\ wanted[j.msg].to = j.target \cup HasIt(j.msg)
  <2> DEFINE t == dispatch.turn
  <2>1. dispatch.accepted # {} /\ j.msg = turn[t].msg /\ j.target = Meant(t) \ dispatch.accepted
    BY <1>5 DEF Lacks
  <2>2. t \in 1..Len(turn) /\ turn[t].by = "queue"
    <3>1. dispatch # NoDispatch
      BY <2>1, NothingWaits
    <3> QED BY <3>1 DEF TypeInv, QueueT
  <2>3. wanted[j.msg].to = Meant(t) \cup HasIt(j.msg) /\ j.msg \in 1..typed
    BY <1>3, <2>1, <2>2 DEF Kept, TurnsAsk
  <2>4. dispatch.accepted \subseteq HasIt(j.msg)
    BY <2>1, <2>2 DEF Kept, Accepted, HasIt
  <2> QED BY <2>1, <2>3, <2>4
<1>6. ASSUME NEW j \in In(items')
      PROVE  j.msg \in 1..typed' /\ wanted'[j.msg].to = j.target \cup HasIt(j.msg)'
  <2>1. CASE Typing /\ j = Item
    <3> HIDE DEF Item
    <3>1. HasIt(j.msg)' = {}
      BY <1>1, <1>2, <1>4, <2>1
    <3> QED BY <1>1, <1>4, <2>1, <3>1
  <2>2. CASE \E i \in In(items) : j.msg = i.msg /\ j.chats = i.chats /\
             (j.target = i.target \/ Lacks(j))
    <3>1. j.msg \in 1..typed /\ wanted[j.msg].to = j.target \cup HasIt(j.msg)
      BY <1>3, <1>5, <2>2
    <3>2. HasIt(j.msg) \subseteq HasIt(j.msg)' /\
          HasIt(j.msg)' \subseteq HasIt(j.msg) \cup wanted[j.msg].to
      BY <1>2, <3>1
    <3>3. wanted'[j.msg] = wanted[j.msg] /\ j.msg \in 1..typed'
      BY <1>1, <3>1
    <3> QED BY <3>1, <3>2, <3>3
  <2> QED BY <2>1, <2>2 DEF Frame, NewItems
<1>7. ASSUME NEW k \in 1..Len(turn'), NEW m, m = turn'[k].msg
      PROVE  /\ m \in 1..typed'
             /\ turn'[k].by = "queue" => wanted'[m].to = Meant(k)' \cup HasIt(m)'
             /\ turn'[k].by = "user" => wanted'[m].to = Meant(k)'
  <2>1. CASE k \in 1..Len(turn)
    <3>1. turn'[k].by = turn[k].by /\ m = turn[k].msg /\ Meant(k)' = Meant(k)
      BY <1>2, <1>7, <2>1 DEF Frame, SameTurns, SameTurn
    <3>2. m \in 1..typed
      BY <1>3, <2>1, <3>1
    <3>3. /\ HasIt(m) \subseteq HasIt(m)' /\ HasIt(m)' \subseteq HasIt(m) \cup wanted[m].to
          /\ wanted'[m] = wanted[m] /\ m \in 1..typed'
      BY <1>1, <1>2, <3>2
    <3>4. /\ turn[k].by = "queue" => wanted[m].to = Meant(k) \cup HasIt(m)
          /\ turn[k].by = "user" => wanted[m].to = Meant(k)
      BY <2>1, <3>1 DEF Kept, TurnsAsk
    <3> QED BY <3>1, <3>3, <3>4
  <2>2. CASE k \notin 1..Len(turn)
    <3>1. \/ /\ turn'[k].by = "user" /\ Typing /\ m = typed + 1 /\ Meant(k)' = target
          \/ /\ turn'[k].by = "queue"
             /\ \E i \in In(items') : m = i.msg /\ Meant(k)' = i.target
      BY <1>7, <2>2 DEF Frame, NewTurns
    <3>2. CASE turn'[k].by = "user" /\ Typing /\ m = typed + 1 /\ Meant(k)' = target
      BY <1>1, <3>2
    <3>3. CASE turn'[k].by = "queue" /\ \E i \in In(items') : m = i.msg /\ Meant(k)' = i.target
      BY <1>6, <3>3
    <3> QED BY <3>1, <3>2, <3>3
  <2> QED BY <2>1, <2>2
<1>8. ASSUME NEW s \in dispatch'.accepted
      PROVE  s \in Sides /\ Has(dispatch.turn, s)'
  <2>1. /\ dispatch'.turn = dispatch.turn
        /\ \/ s \in dispatch.accepted
           \/ /\ dispatch.turn \in 1..Len(turn) /\ s \in Sides
              /\ turn[dispatch.turn].at[s] = "asked" /\ server[dispatch.turn][s] # "absent"
    BY DEF Frame, Accepts
  <2>2. s \in Sides /\ Has(dispatch.turn, s)
    BY <2>1 DEF Kept, Accepted, Has
  <2>3. dispatch.turn \in 1..Len(turn)
    <3>1. s \in dispatch.accepted => dispatch # NoDispatch
      BY NothingWaits
    <3> QED BY <2>1, <3>1 DEF TypeInv, QueueT
  <2>4. turn'[dispatch.turn].at[s] # "none" /\ server'[dispatch.turn][s] # "absent"
    <3>1. PICK t \in 1..Len(turn) : t = dispatch.turn
      BY <2>3
    <3>2. t \in Turns /\ turn[t].at[s] # "none" /\ server[t][s] # "absent" /\ s \in Sides
      BY <1>0, <2>2, <3>1 DEF Has
    <3>3. turn'[t].at[s] # "none" /\ server'[t][s] # "absent"
      BY <3>2 DEF Frame, SameTurns, SameServer
    <3> QED BY <3>1, <3>3
  <2> QED BY <2>1, <2>2, <2>4 DEF Has
<1>9. ASSUME NEW m \in 1..typed' PROVE Found(m)'
  <2>1. CASE Typing /\ m = typed + 1
    <3>1. ~Idle
      BY <1>1, <2>1 DEF Idle, Typing
    <3> QED BY <2>1, <3>1 DEF Frame, NewMessage, Found
  <2>2. CASE m \in 1..typed
    <3>0. /\ HasIt(m) \subseteq HasIt(m)' /\ HasIt(m)' \subseteq HasIt(m) \cup wanted[m].to
          /\ wanted'[m] = wanted[m]
      BY <1>1, <1>2, <2>2
    <3>1. CASE \E i \in In(items) : i.msg = m
      <4>1. (\E j \in In(items') : j.msg = m) \/ m \in thrown' \/ TakenNow(m)
        BY <3>1 DEF Frame, LostItems
      <4>2. ASSUME TakenNow(m) PROVE wanted'[m].to = HasIt(m)'
        <5> DEFINE t == dispatch.turn
        <5>1. PICK s \in Sides : /\ t \in 1..Len(turn) /\ turn[t].msg = m /\ turn[t].at[s] = "asked"
                                 /\ server[t][s] # "absent" /\ Meant(t) = dispatch.accepted \cup {s}
          BY <4>2 DEF TakenNow
        <5>2. Meant(t) \subseteq HasIt(m)
          BY <5>1 DEF Kept, Accepted, HasIt, Has
        <5>3. turn[t].by = "queue"
          <6>1. t # None
            BY <5>1, TurnsAre DEF TypeInv
          <6> QED BY <6>1 DEF TypeInv, QueueT
        <5>4. wanted[m].to = Meant(t) \cup HasIt(m)
          BY <5>1, <5>3 DEF Kept, TurnsAsk
        <5> QED BY <3>0, <5>2, <5>4
      <4> QED BY <4>1, <4>2 DEF Found
    <3>2. CASE m \in thrown
      BY <3>2 DEF Frame, LostItems, Found
    <3>3. CASE \E t \in 1..Len(turn) : turn[t].msg = m /\ turn[t].by = "user"
      <4>1. \A t \in 1..Len(turn) : t \in 1..Len(turn') /\ turn'[t].msg = turn[t].msg
                                    /\ turn'[t].by = turn[t].by
        <5>1. Len(turn') \in Nat
          BY LenProperties DEF TypeInv, TurnT
        <5> QED BY <1>0, <5>1 DEF Frame, SameTurns, SameTurn
      <4> QED BY <3>3, <4>1 DEF Found
    <3>4. CASE wanted[m].to = HasIt(m)
      BY <3>0, <3>4 DEF Found
    <3>5. Found(m)
      BY <2>2 DEF Kept
    <3> QED BY <3>1, <3>2, <3>3, <3>4, <3>5 DEF Found
  <2> QED BY <1>1, <2>1, <2>2
<1>10. Numbered' /\ ItemsLack'
  BY <1>6, <1>7 DEF Numbered, ItemsLack
<1>11. TurnsAsk'
  BY <1>7 DEF TurnsAsk
<1>12. Accepted'
  BY <1>8 DEF Accepted
<1> QED BY <1>9, <1>10, <1>11, <1>12 DEF Kept

\* Initially there is no message.
LEMMA InitKept == ASSUME Planned, Init PROVE Kept
<1>1. Len(turn) = 0 /\ items = <<>> /\ Len(items) = 0 /\ typed = 0 /\ dispatch = NoDispatch
  BY DEF Init
<1>2. 1..0 = {}
  OBVIOUS
<1> QED BY <1>1, <1>2, NothingWaits
      DEF Kept, Numbered, ItemsLack, TurnsAsk, Accepted, In

\* The inductive invariant of the messages.
LEMMA KeptAlways == ASSUME SplitAssumption PROVE Spec => [](Planned /\ TypeInv /\ Kept)
<1>1. Init => Planned /\ TypeInv /\ Kept
  BY HasPlan, InitTypes, InitKept
<1>2. /\ Planned /\ TypeInv /\ Kept /\ [Next /\ UNCHANGED plan]_<<vars, plan>>
      => Planned' /\ TypeInv' /\ Kept'
  <2> SUFFICES ASSUME Planned, TypeInv, Kept, [Next]_vars PROVE TypeInv' /\ Kept'
    BY KeepsPlan
  <2>1. TypeInv' /\ (Kind \/ UNCHANGED vars)
    BY EveryStep
  <2>2. Frame
    BY <2>1, FrameIs
  <2> QED BY <2>1, <2>2, KeptSteps
<1> QED BY <1>1, <1>2, PTL DEF Spec

\* Whatever is stopped, replaced, fails or is refused: a message that was typed waits,
\* was removed by the user, was sent past the queue, or was taken by every panel it was
\* typed for.  finishActiveQueueDispatch and settleQueueDispatch may only let go of the
\* rest of a message by leaving it in the queue.
THEOREM SplitNothingDropped == ASSUME SplitAssumption PROVE Spec => []NothingDropped
<1>1. Planned /\ TypeInv /\ Kept => NothingDropped
  BY KeptNothingDropped
<1> QED BY <1>1, KeptAlways, PTL

-----------------------------------------------------------------------------
(* A queued message goes to the chats it was typed for. *)

InChats == /\ \A i \in In(items) : i.chats = wanted[i.msg].chats
           /\ \A t \in 1..Len(turn) : turn[t].by = "queue" =>
                 turn[t].chats = wanted[turn[t].msg].chats

\* Every step keeps messages and queue turns with their chats.
LEMMA InChatsSteps ==
    ASSUME Planned, TypeInv, Frame, Kept, InChats PROVE InChats'
<1>1. /\ \A m \in 1..typed : wanted'[m] = wanted[m]
      /\ Typing => wanted'[typed + 1].chats = Now
  <2>1. Idle \/ Typing
    BY DEF Frame, NewMessage
  <2> QED BY <2>1, WantedIs
<1>2. Item.msg = typed + 1 /\ Item.chats = Now
  BY DEF Item
<1>3. ASSUME NEW j \in In(items') PROVE j.chats = wanted'[j.msg].chats
  <2>1. CASE Typing /\ j = Item
    <3> HIDE DEF Item
    <3> QED BY <1>1, <1>2, <2>1
  <2>2. CASE \E i \in In(items) : j.msg = i.msg /\ j.chats = i.chats
    BY <1>1, <2>2 DEF InChats, Kept, Numbered
  <2> QED BY <2>1, <2>2 DEF Frame, NewItems
<1>4. ASSUME NEW k \in 1..Len(turn'), turn'[k].by = "queue"
      PROVE  turn'[k].chats = wanted'[turn'[k].msg].chats
  <2>1. CASE k \in 1..Len(turn)
    <3>1. turn'[k].by = turn[k].by /\ turn'[k].msg = turn[k].msg /\ turn'[k].chats = turn[k].chats
      BY <2>1 DEF Frame, SameTurns, SameTurn
    <3> QED BY <1>1, <1>4, <2>1, <3>1 DEF InChats, Kept, Numbered
  <2>2. CASE k \notin 1..Len(turn)
    <3>1. /\ turn'[k].chats = Now
          /\ \E i \in In(items') : turn'[k].msg = i.msg /\ i.chats = Now
      BY <1>4, <2>2 DEF Frame, NewTurns
    <3> QED BY <1>3, <3>1
  <2> QED BY <2>1, <2>2
<1> QED BY <1>3, <1>4 DEF InChats

\* Initially there is no message.
LEMMA InitInChats == ASSUME Init PROVE InChats
<1>1. Len(turn) = 0 /\ items = <<>> /\ Len(items) = 0
  BY DEF Init
<1>2. 1..0 = {}
  OBVIOUS
<1> QED BY <1>1, <1>2 DEF InChats, In

\* A queued message goes out only beside the chats that were in the panels when it was
\* typed: processNext compares the contexts when it sends, not when it is called.
THEOREM SplitStaysInItsChats == ASSUME SplitAssumption PROVE Spec => []StaysInItsChats
<1> DEFINE Inv == Planned /\ TypeInv /\ Kept /\ InChats
<1>1. Init => Inv
  BY HasPlan, InitTypes, InitKept, InitInChats
<1>2. Inv /\ [Next /\ UNCHANGED plan]_<<vars, plan>> => Inv'
  <2> SUFFICES ASSUME Inv, [Next]_vars PROVE TypeInv' /\ Kept' /\ InChats'
    BY KeepsPlan
  <2>1. TypeInv' /\ (Kind \/ UNCHANGED vars)
    BY EveryStep
  <2>2. Frame
    BY <2>1, FrameIs
  <2> QED BY <2>1, <2>2, KeptSteps, InChatsSteps
<1>3. Inv => StaysInItsChats
  BY LengthIs DEF InChats, StaysInItsChats, TypeInv
<1> QED BY <1>1, <1>2, <1>3, PTL DEF Spec

-----------------------------------------------------------------------------
(* While no chat is replaced, a turn that asks or reads has its panel, so no *)
(* panel is asked for two turns.                                             *)

Underway(t, s) == turn[t].at[s] \in {"asked", "reading"}
Own == /\ \A s \in Sides : /\ panel[s].replacing = None /\ (Gentle => ~panel[s].stop)
                           /\ panel[s].turn # None => /\ panel[s].turn \in 1..Len(turn)
                                                      /\ Underway(panel[s].turn, s)
       /\ \A t \in 1..Len(turn), s \in Sides : Underway(t, s) => panel[s].turn = t

\* What a run may do does not change.
LEMMA GentleStays == UNCHANGED plan => (Gentle' <=> Gentle)
  BY DEF Gentle, Mishaps

\* A turn that begins owns the panels it asks.
LEMMA OwnBegun ==
    ASSUME Planned, UNCHANGED plan, TypeInv, Own, NEW sides \in SUBSET Sides, NEW by, NEW m,
           Begins(sides, by, m), PanelsAsk(sides)
    PROVE  Own'
<1>1. /\ \A s \in sides : /\ panel[s].turn = None /\ panel'[s].turn = Len(turn) + 1
                          /\ panel'[s].replacing = panel[s].replacing /\ ~panel'[s].stop
      /\ \A s \in Sides \ sides : panel'[s] = panel[s]
  BY DEF PanelsAsk
<1>2. /\ Len(turn') = Len(turn) + 1 /\ Len(turn) \in Nat
      /\ \A k \in 1..Len(turn) : turn'[k] = turn[k]
      /\ \A s \in Sides : turn'[Len(turn) + 1].at[s] = IF s \in sides THEN "asked" ELSE "none"
  BY LengthIs DEF Begins, TypeInv
<1>3. ASSUME NEW s \in Sides
      PROVE  /\ panel'[s].replacing = None /\ (Gentle => ~panel'[s].stop)
             /\ panel'[s].turn # None => /\ panel'[s].turn \in 1..Len(turn')
                                         /\ turn'[panel'[s].turn].at[s] \in {"asked", "reading"}
  <2>1. CASE s \in sides
    BY <1>1, <1>2, <2>1 DEF Own
  <2>2. CASE s \notin sides
    BY <1>1, <1>2, <2>2 DEF Own, Underway
  <2> QED BY <2>1, <2>2
<1>4. ASSUME NEW t \in 1..Len(turn'), NEW s \in Sides, Underway(t, s)'
      PROVE  panel'[s].turn = t
  <2>1. CASE t \in 1..Len(turn)
    <3>1. panel[s].turn = t /\ t # None
      <4>1. Underway(t, s)
        BY <1>2, <1>4, <2>1 DEF Underway
      <4>2. t # None
        BY <2>1, TurnsAre DEF TypeInv
      <4> QED BY <2>1, <4>1, <4>2 DEF Own
    <3>2. s \notin sides
      BY <1>1, <3>1
    <3> QED BY <1>1, <3>1, <3>2
  <2>2. CASE t \notin 1..Len(turn)
    <3>1. t = Len(turn) + 1
      BY <1>2, <2>2
    <3>2. s \in sides
      BY <1>2, <1>4, <3>1 DEF Underway
    <3> QED BY <1>1, <3>1, <3>2
  <2> QED BY <2>1, <2>2
<1> QED BY <1>3, <1>4, GentleStays DEF Own, Underway

\* A panel of a turn goes on or is over.
LEMMA OwnMoved ==
    ASSUME UNCHANGED plan, TypeInv, Own, NEW t \in 1..Len(turn), NEW s \in Sides, NEW stage,
           Moves(t, s, stage),
           \/ panel' = panel /\ Underway(t, s) /\ stage \in {"asked", "reading"}
           \/ PanelFree(t, s) /\ stage \notin {"asked", "reading"}
    PROVE  Own'
<1>1. /\ Len(turn') = Len(turn)
      /\ \A k \in 1..Len(turn), z \in Sides :
            turn'[k].at[z] = IF k = t /\ z = s THEN stage ELSE turn[k].at[z]
  BY DEF Moves
<1>2. CASE panel' = panel /\ Underway(t, s) /\ stage \in {"asked", "reading"}
  BY <1>1, <1>2, GentleStays DEF Own, Underway
<1>3. CASE PanelFree(t, s) /\ stage \notin {"asked", "reading"}
  <2>1. ASSUME NEW z \in Sides
        PROVE  /\ panel'[z].replacing = None /\ (Gentle => ~panel'[z].stop)
               /\ panel'[z].turn # None => /\ panel'[z].turn \in 1..Len(turn)
                                           /\ turn'[panel'[z].turn].at[z] \in {"asked", "reading"}
    <3>1. CASE z = s /\ Owns(t, s)
      BY <1>3, <3>1 DEF PanelFree, Own
    <3>2. CASE ~(z = s /\ Owns(t, s))
      <4>1. panel'[z] = panel[z]
        BY <1>3, <3>2 DEF PanelFree
      <4> QED BY <1>1, <3>2, <4>1 DEF Own, Owns, Underway
    <3> QED BY <3>1, <3>2
  <2>2. ASSUME NEW k \in 1..Len(turn), NEW z \in Sides, Underway(k, z)' PROVE panel'[z].turn = k
    <3>1. k # t \/ z # s
      BY <1>1, <1>3, <2>2 DEF Underway
    <3>2. panel[z].turn = k
      BY <1>1, <2>2, <3>1 DEF Own, Underway
    <3>3. z # s \/ ~Owns(t, s)
      BY <3>1, <3>2 DEF Owns
    <3> QED BY <1>3, <3>2, <3>3 DEF PanelFree
  <2> QED BY <1>1, <2>1, <2>2, GentleStays DEF Own, Underway
<1> QED BY <1>2, <1>3

\* Every step keeps owners.
LEMMA OwnSteps ==
    ASSUME Planned, UNCHANGED plan, NoReplace, TypeInv, Kind \/ UNCHANGED vars,
           items' \in Seq(ItemRec), Own
    PROVE  Own'
<1>1. CASE Rests
  <2>1. turn' = turn /\ \A s \in Sides : /\ panel'[s].turn = panel[s].turn
                                         /\ panel'[s].replacing # None => panel[s].replacing # None
                                         /\ Gentle /\ panel'[s].stop => panel[s].stop
    BY <1>1 DEF Rests, PanelsRest
  <2> QED BY <2>1, GentleStays DEF Own, Underway
<1>2. CASE UserAsks
  <2>1. target \in SUBSET Sides
    BY DEF TypeInv, RestT, SomeSides
  <2> QED BY <1>2, <2>1, OwnBegun DEF UserAsks
<1>3. CASE QueueAsks
  <2> DEFINE i == items'[1]
  <2>1. items' # <<>> /\ Begins(i.target, "queue", i.msg) /\ PanelsAsk(i.target)
    BY <1>3 DEF QueueAsks
  <2>2. i \in ItemRec
    <3>1. 1 \in 1..Len(items')
      BY <2>1, EmptySeq, LenProperties
    <3> QED BY <3>1, ElementOfSeq
  <2> HIDE DEF i
  <2>3. i.target \in SUBSET Sides
    BY <2>2 DEF ItemRec, SomeSides
  <2> QED BY <2>1, <2>3, OwnBegun
<1>4. ASSUME NEW t \in 1..Len(turn), Settles(t) PROVE Own'
  <2>1. panel' = panel /\ Len(turn') = Len(turn) /\ \A k \in 1..Len(turn) : turn'[k].at = turn[k].at
    BY <1>4 DEF Settles, Closes
  <2> QED BY <2>1, GentleStays DEF Own, Underway
<1>5. ASSUME NEW t \in 1..Len(turn), NEW s \in Sides, Serves(t, s) PROVE Own'
  BY <1>5, GentleStays DEF Serves, Own, Underway
<1>6. ASSUME NEW t \in 1..Len(turn), NEW s \in Sides, Answers(t, s) PROVE Own'
  <2>1. Moves(t, s, "reading") /\ panel' = panel /\ Underway(t, s)
    BY <1>6 DEF Answers, Underway
  <2> QED BY <2>1, OwnMoved
<1>7. ASSUME NEW t \in 1..Len(turn), NEW s \in Sides, NEW stage \in {"ended", "settled"},
             NEW status,
             Ends(t, s, stage, status)
      PROVE  Own'
  <2>1. Moves(t, s, stage) /\ PanelFree(t, s) /\ stage \notin {"asked", "reading"}
    BY <1>7 DEF Ends
  <2> QED BY <2>1, OwnMoved
<1>8. ASSUME NEW s \in Sides, Evicts(s) PROVE Own'
  BY <1>8 DEF Evicts, Own
<1>9. CASE UNCHANGED vars
  <2>1. turn' = turn /\ panel' = panel
    BY <1>9 DEF vars, view
  <2> QED BY <2>1, GentleStays DEF Own, Underway
<1> QED BY <1>1, <1>2, <1>3, <1>4, <1>5, <1>6, <1>7, <1>8, <1>9 DEF Kind

\* The items after a step.
LEMMA ItemsAfter == TypeInv' => items' \in Seq(ItemRec)
<1> SUFFICES ASSUME TypeInv' PROVE items' \in Seq(ItemRec)
  OBVIOUS
<1>1. Q' \in Queue /\ Q'.items = items'
  BY DEF TypeInv, QueueT, Q
<1> QED BY <1>1, QueueIs

\* Initially no panel has a turn.
LEMMA InitOwn == ASSUME Init PROVE Own
<1>1. Len(turn) = 0 /\ \A s \in Sides : /\ panel[s].replacing = None /\ panel[s].turn = None
                                          /\ ~panel[s].stop
  BY DEF Init
<1>2. 1..0 = {}
  OBVIOUS
<1> QED BY <1>1, <1>2 DEF Own

\* The inductive invariant of the panels.
OwnInv == Planned /\ (NoReplace => TypeInv /\ Own)
LEMMA OwnAlways == ASSUME SplitAssumption PROVE Spec => []OwnInv
<1>1. Init => OwnInv
  BY HasPlan, InitTypes, InitOwn DEF OwnInv
<1>2. OwnInv /\ [Next /\ UNCHANGED plan]_<<vars, plan>> => OwnInv'
  <2> SUFFICES ASSUME Planned, TypeInv, Own, NoReplace, [Next]_vars, UNCHANGED plan
               PROVE  TypeInv' /\ Own'
    BY KeepsPlan DEF OwnInv, NoReplace, Mishaps
  <2> QED BY EveryStep, ItemsAfter, OwnSteps
<1> QED BY <1>1, <1>2, PTL DEF Spec

\* While no chat of a panel is replaced, the queue asks no panel anything before that
\* panel's older turns are over, although it looks at the panels long after the turn
\* before it was answered (isSplitPanelBusy in processNext).
THEOREM SplitTurnsDoNotMix ==
    ASSUME SplitAssumption PROVE Spec => [](NoReplace => TurnsDoNotMix)
<1>1. TypeInv /\ Own => TurnsDoNotMix
  <2> SUFFICES ASSUME TypeInv, Own, NEW t \in 1..Len(turn), NEW u \in 1..Len(turn), NEW s \in Sides,
                      t < u, turn[u].at[s] = "asked"
               PROVE  turn[t].at[s] \notin {"asked", "reading"}
    BY LengthIs DEF TypeInv, TurnsDoNotMix
  <2>1. Underway(u, s) /\ panel[s].turn = u
    BY DEF Own, Underway
  <2>2. Len(turn) \in Nat
    BY LengthIs DEF TypeInv
  <2>3. t # u
    BY <2>2
  <2> QED BY <2>1, <2>3 DEF Own, Underway
<1>2. OwnInv => (NoReplace => TurnsDoNotMix)
  BY <1>1 DEF OwnInv
<1> QED BY <1>2, OwnAlways, PTL

-----------------------------------------------------------------------------
(* No panel gets a message twice, while no turn is stopped and no chat is    *)
(* replaced.                                                                 *)

\* A panel that has the message of a turn, or may get it.
Live(t, s) == turn[t].at[s] = "asked" \/ Has(t, s)

\* What the server knows of the panels of a turn, and what a turn that is over is.
Served == /\ \A t \in 1..Len(turn), s \in Sides :
                turn[t].at[s] \in {"reading", "ended"} => server[t][s] # "absent"
          /\ \A t \in 1..Len(turn), s \in Sides :
                ~turn[t].open => turn[t].at[s] \in {"none", "settled"}

\* What the queue knows of the turn it waits for.
Waits == dispatch # NoDispatch =>
    LET t == dispatch.turn IN
    /\ turn[t].open
    /\ \A s \in Sides : /\ s \in dispatch.accepted <=> Has(t, s) /\ turn[t].at[s] # "asked"
                        /\ s \in dispatch.gens <=> turn[t].at[s] = "reading"
    /\ \A i \in In(items) : i.msg = turn[t].msg =>
                                i.target = Meant(t) /\ dispatch.accepted # Meant(t)

Once ==
    /\ Distinct(items)
    /\ \A t, u \in 1..Len(turn), s \in Sides :
          turn[t].msg = turn[u].msg /\ Live(t, s) /\ Live(u, s) => t = u
    /\ \A i \in In(items), t \in 1..Len(turn), s \in Sides :
          turn[t].msg = i.msg /\ Live(t, s) /\ s \in i.target => t = dispatch.turn

\* A queue that stops to wait for a turn keeps no message for a panel that has it.
Releases ==
    dispatch # NoDispatch /\ dispatch'.turn # dispatch.turn =>
        \A j \in In(items'), s \in Sides :
            j.msg = turn[dispatch.turn].msg /\ s \in j.target => ~Live(dispatch.turn, s)

\* A panel that has or may get a message could before the step.
LEMMA LiveBefore ==
    ASSUME Planned, TypeInv, TypeInv', Frame, NEW t \in 1..Len(turn), NEW s \in Sides,
           Live(t, s)'
    PROVE  Live(t, s)
<1>1. t \in Turns
  BY TurnsAre DEF TypeInv
<1>2. CASE turn'[t].at[s] = "asked"
  BY <1>2 DEF Live, Frame, SameTurns
<1>3. CASE turn'[t].at[s] # "none" /\ server'[t][s] # "absent"
  <2>1. turn[t].at[s] # "none"
    BY <1>3 DEF Frame, SameTurns
  <2>2. server[t][s] # "absent" \/ turn[t].at[s] = "asked"
    BY <1>1, <1>3 DEF Frame, SameServer
  <2> QED BY <2>1, <2>2 DEF Live, Has
<1> QED BY <1>2, <1>3 DEF Live, Has

\* Every step keeps panels from being asked twice.
LEMMA OnceSteps ==
    ASSUME Planned, TypeInv, TypeInv', Frame, Kept, Waits, Once, Releases
    PROVE  Once'
<1>0. /\ Len(turn) \in Nat /\ Len(turn') \in Nat /\ Len(turn) <= Len(turn') /\ typed \in Nat
      /\ \A m \in 1..typed : m # typed + 1
  BY LengthIs, LenProperties DEF TypeInv, TurnT, RestT, Frame, SameTurns
<1>1. /\ \A k \in 1..Len(turn) : turn'[k].msg = turn[k].msg /\ turn[k].msg \in 1..typed
      /\ \A i \in In(items) : i.msg \in 1..typed
  BY DEF Frame, SameTurns, SameTurn, Kept, Numbered
<1>2. Item.msg = typed + 1
  BY DEF Item
<1>3. Distinct(items')
  BY <1>0, <1>1 DEF Frame, StillOne, Once
\* An item is the one that was typed, or waits for no more than before.
<1>4. ASSUME NEW j \in In(items')
      PROVE  \/ j.msg = typed + 1
             \/ \E i \in In(items) : j.msg = i.msg /\ j.target \subseteq i.target
                                     /\ (dispatch = NoDispatch => j.target = i.target)
  <2>1. CASE j = Item
    BY <1>2, <2>1
  <2>2. CASE \E i \in In(items) : j.msg = i.msg /\ (j.target = i.target \/ Lacks(j))
    <3>1. PICK i \in In(items) : j.msg = i.msg /\ (j.target = i.target \/ Lacks(j))
      BY <2>2
    <3>2. CASE j.target = i.target
      BY <3>1, <3>2
    <3>3. CASE Lacks(j)
      <4>1. dispatch # NoDispatch /\ i.msg = turn[dispatch.turn].msg
            /\ j.target \subseteq Meant(dispatch.turn)
        BY <3>1, <3>3, NothingWaits DEF Lacks
      <4>2. i.target = Meant(dispatch.turn)
        BY <4>1 DEF Waits
      <4> QED BY <3>1, <4>1, <4>2
    <3> QED BY <3>1, <3>2, <3>3
  <2> QED BY <2>1, <2>2 DEF Frame, NewItems
\* An old turn for an item.
<1>5. ASSUME NEW j \in In(items'), NEW t \in 1..Len(turn), NEW s \in Sides,
             turn[t].msg = j.msg, Live(t, s), s \in j.target
      PROVE  t = dispatch.turn /\ dispatch # NoDispatch
  <2>1. j.msg # typed + 1
    BY <1>0, <1>1, <1>5
  <2>2. PICK i \in In(items) : j.msg = i.msg /\ j.target \subseteq i.target
    BY <1>4, <2>1
  <2>3. t = dispatch.turn
    BY <1>5, <2>2 DEF Once
  <2>4. t # None
    BY TurnsAre DEF TypeInv
  <2> QED BY <2>3, <2>4, NothingWaits
\* A new turn.
<1>6. ASSUME NEW t \in 1..Len(turn'), NEW s \in Sides, t \notin 1..Len(turn), Live(t, s)'
      PROVE  /\ t = Len(turn) + 1
             /\ \/ turn'[t].msg = typed + 1 /\ items' = items
                \/ /\ dispatch = NoDispatch /\ dispatch'.turn = t
                   /\ \E i \in In(items') : turn'[t].msg = i.msg /\ s \in i.target
  <2>1. s \in Meant(t)'
    BY <1>6 DEF Live, Has, Meant
  <2> QED BY <1>6, <2>1 DEF Frame, NewTurns
<1>7. ASSUME NEW t \in 1..Len(turn'), NEW s \in Sides, t \notin 1..Len(turn), Live(t, s)',
             NEW u \in 1..Len(turn), Live(u, s)', turn'[t].msg = turn'[u].msg
      PROVE  FALSE
  <2>1. Live(u, s)
    BY <1>7, LiveBefore
  <2>2. turn'[t].msg # typed + 1
    BY <1>0, <1>1, <1>7
  <2>3. PICK i \in In(items') : /\ turn'[t].msg = i.msg /\ s \in i.target /\ dispatch = NoDispatch
    BY <1>6, <1>7, <2>2
  <2>4. turn[u].msg = i.msg
    BY <1>1, <1>7, <2>3
  <2> QED BY <1>5, <2>1, <2>3, <2>4
<1>8. ASSUME NEW t \in 1..Len(turn'), NEW u \in 1..Len(turn'), NEW s \in Sides,
             turn'[t].msg = turn'[u].msg, Live(t, s)', Live(u, s)'
      PROVE  t = u
  <2>1. CASE t \in 1..Len(turn) /\ u \in 1..Len(turn)
    <3>1. Live(t, s) /\ Live(u, s) /\ turn[t].msg = turn[u].msg
      BY <1>1, <1>8, <2>1, LiveBefore
    <3> QED BY <2>1, <3>1 DEF Once
  <2>2. CASE t \notin 1..Len(turn) /\ u \notin 1..Len(turn)
    BY <1>6, <1>8, <2>2
  <2>3. CASE t \notin 1..Len(turn) /\ u \in 1..Len(turn)
    BY <1>7, <1>8, <2>3
  <2>4. CASE t \in 1..Len(turn) /\ u \notin 1..Len(turn)
    BY <1>7, <1>8, <2>4
  <2> QED BY <2>1, <2>2, <2>3, <2>4
<1>9. ASSUME NEW j \in In(items'), NEW t \in 1..Len(turn'), NEW s \in Sides,
             turn'[t].msg = j.msg, Live(t, s)', s \in j.target
      PROVE  t = dispatch'.turn
  <2>1. CASE t \in 1..Len(turn)
    <3>1. Live(t, s) /\ turn[t].msg = j.msg
      BY <1>1, <1>9, <2>1, LiveBefore
    <3>2. t = dispatch.turn /\ dispatch # NoDispatch
      BY <1>5, <1>9, <2>1, <3>1
    <3>3. dispatch'.turn = dispatch.turn
      BY <1>9, <3>1, <3>2 DEF Releases
    <3> QED BY <3>2, <3>3
  <2>2. CASE t \notin 1..Len(turn)
    <3>1. \/ turn'[t].msg = typed + 1 /\ items' = items
          \/ dispatch'.turn = t
      BY <1>6, <1>9, <2>2
    <3>2. CASE turn'[t].msg = typed + 1 /\ items' = items
      BY <1>0, <1>1, <1>9, <3>2
    <3> QED BY <3>1, <3>2
  <2> QED BY <2>1, <2>2
<1>10. \A i \in In(items'), t \in 1..Len(turn'), s \in Sides :
          turn'[t].msg = i.msg /\ Live(t, s)' /\ s \in i.target => t = dispatch'.turn
  BY <1>9
<1>11. \A t, u \in 1..Len(turn'), s \in Sides :
          turn'[t].msg = turn'[u].msg /\ Live(t, s)' /\ Live(u, s)' => t = u
  BY <1>8
<1> QED BY <1>3, <1>10, <1>11 DEF Once

Calm == Kept /\ Own /\ Served /\ Waits /\ Once

\* The turn the queue waits for.
LEMMA WaitsFor ==
    ASSUME Planned, TypeInv, dispatch # NoDispatch
    PROVE  dispatch.turn \in 1..Len(turn) /\ dispatch.turn # None
  BY DEF TypeInv, QueueT

\* What the queue knows stays true when little happens to that turn.
LEMMA WaitsKept ==
    ASSUME Planned, TypeInv, TypeInv', Frame, Kept, Waits, dispatch' = dispatch,
           In(items') \subseteq In(items) \cup {Item},
           dispatch # NoDispatch =>
               /\ turn'[dispatch.turn].open = turn[dispatch.turn].open
               /\ \A s \in Sides :
                    LET a == turn[dispatch.turn].at[s]
                        b == turn'[dispatch.turn].at[s]
                    IN  /\ b = "reading" <=> a = "reading"
                        /\ b \notin {"none", "asked"} /\ server'[dispatch.turn][s] # "absent" <=>
                               a \notin {"none", "asked"} /\ server[dispatch.turn][s] # "absent"
    PROVE  Waits'
<1> SUFFICES ASSUME dispatch # NoDispatch PROVE Waits'
  BY DEF Waits
<1>1. PICK t \in 1..Len(turn) : t = dispatch.turn
  BY WaitsFor
<1>2. /\ turn[t].open
      /\ \A s \in Sides : /\ s \in dispatch.accepted <=> Has(t, s) /\ turn[t].at[s] # "asked"
                          /\ s \in dispatch.gens <=> turn[t].at[s] = "reading"
      /\ \A i \in In(items) : i.msg = turn[t].msg => i.target = Meant(t) /\
            dispatch.accepted # Meant(t)
  BY <1>1 DEF Waits
<1>3. /\ turn'[t].open
      /\ \A s \in Sides : /\ s \in dispatch.accepted <=> Has(t, s)' /\ turn'[t].at[s] # "asked"
                          /\ s \in dispatch.gens <=> turn'[t].at[s] = "reading"
  BY <1>1, <1>2 DEF Has
<1>4. Meant(t)' = Meant(t) /\ turn'[t].msg = turn[t].msg
  BY DEF Meant, Frame, SameTurns, SameTurn
<1>5. ASSUME NEW j \in In(items'), j.msg = turn[t].msg PROVE j \in In(items)
  <2>1. turn[t].msg \in 1..typed /\ typed \in Nat
    BY DEF Kept, Numbered, TypeInv, RestT
  <2>2. Item.msg = typed + 1
    BY DEF Item
  <2>3. j # Item
    BY <1>5, <2>1, <2>2
  <2> QED BY <2>3
<1>6. \A j \in In(items') : j.msg = turn'[t].msg => j.target = Meant(t)' /\
      dispatch.accepted # Meant(t)'
  BY <1>2, <1>4, <1>5
<1> QED BY <1>1, <1>3, <1>6 DEF Waits

\* A step that rests keeps the invariant.
LEMMA CalmRests ==
    ASSUME Planned, TypeInv, TypeInv', Frame, Calm, Rests
    PROVE  Served' /\ Waits' /\ Releases
<1>1. turn' = turn /\ server' = server /\ dispatch' = dispatch
  BY DEF Rests
<1>2. In(items') \subseteq In(items) \cup {Item}
  <2>1. CASE Stays
    BY <2>1 DEF Stays
  <2>2. CASE Joins
    <3>1. items \in Seq(ItemRec) /\ Item \in ItemRec /\ items' = Append(items, Item)
      BY <2>2, DispatchOK, TypedIs DEF Joins, TypeInv
    <3> HIDE DEF Item
    <3> QED BY <3>1, AppendIs
  <2>3. CASE Removes
    BY <2>3 DEF Removes, Takes
  <2> QED BY <2>1, <2>2, <2>3 DEF Rests
<1>3. Waits'
  BY <1>1, <1>2, WaitsKept DEF Calm
<1>4. Served'
  BY <1>1 DEF Calm, Served
<1> QED BY <1>1, <1>3, <1>4 DEF Releases

\* A turn that begins has no generation yet.
LEMMA ServedBegun ==
    ASSUME TypeInv, Served, server' = server, NEW sides, NEW by, NEW m, Begins(sides, by, m)
    PROVE  Served'
<1>1. /\ Len(turn) \in Nat /\ Len(turn') = Len(turn) + 1
      /\ \A k \in 1..Len(turn) : turn'[k] = turn[k]
      /\ turn'[Len(turn) + 1].open
      /\ \A s \in Sides : turn'[Len(turn) + 1].at[s] \in {"asked", "none"}
  BY LengthIs DEF Begins, TypeInv
<1>2. \A k \in 1..Len(turn') : k \in 1..Len(turn) \/ k = Len(turn) + 1
  BY <1>1
<1> QED BY <1>1, <1>2 DEF Served

\* A turn of the user keeps the invariant.
LEMMA CalmUserAsks ==
    ASSUME Planned, TypeInv, TypeInv', Frame, Calm, UserAsks
    PROVE  Served' /\ Waits' /\ Releases
<1>1. /\ server' = server /\ dispatch' = dispatch /\ items' = items
      /\ Begins(target, "user", typed + 1)
  BY DEF UserAsks
<1>2. Served'
  BY <1>1, ServedBegun DEF Calm
<1>3. \A k \in 1..Len(turn) : turn'[k] = turn[k]
  BY <1>1 DEF Begins
<1>4. dispatch # NoDispatch => turn'[dispatch.turn] = turn[dispatch.turn]
  BY <1>3, WaitsFor
<1>5. Waits'
  BY <1>1, <1>4, WaitsKept DEF Calm
<1> QED BY <1>1, <1>2, <1>5 DEF Releases

\* A turn of the queue keeps the invariant.
LEMMA CalmQueueAsks ==
    ASSUME Planned, TypeInv, TypeInv', Frame, Calm, QueueAsks
    PROVE  Served' /\ Waits' /\ Releases
<1> DEFINE i == items'[1]
           n == Len(turn) + 1
<1>1. /\ server' = server /\ items' # <<>> /\ dispatch = NoDispatch
      /\ dispatch' = [turn |-> n, gens |-> {}, accepted |-> {}]
      /\ Begins(i.target, "queue", i.msg)
  BY DEF QueueAsks
<1>2. Served'
  BY <1>1, ServedBegun DEF Calm
<1>3. /\ Len(turn') = n /\ Len(turn) \in Nat /\ turn'[n].open /\ turn'[n].msg = i.msg
      /\ \A s \in Sides : turn'[n].at[s] = IF s \in i.target THEN "asked" ELSE "none"
  BY <1>1, LengthIs DEF Begins, TypeInv
<1>4. items' \in Seq(ItemRec) /\ 1 \in 1..Len(items') /\ i \in ItemRec /\ i \in In(items')
  <2>1. items' \in Seq(ItemRec)
    BY ItemsAfter
  <2>2. 1 \in 1..Len(items')
    BY <1>1, <2>1, EmptySeq, LenProperties
  <2> QED BY <2>1, <2>2, ElementOfSeq DEF In
<1>5. \A j \in In(items') : j.msg = i.msg => j = i
  <2>1. Distinct(items')
    <3>1. \A k \in In(items) : k.msg # typed + 1
      BY DEF Calm, Kept, Numbered, TypeInv, RestT
    <3> QED BY <3>1 DEF Frame, StillOne, Calm, Once
  <2> QED BY <1>4, <2>1 DEF Distinct, In
<1> HIDE DEF i
<1>6. PICK t \in 1..Len(turn') : t = n
  BY <1>3
<1>7. Meant(t)' = i.target /\ i.target # {}
  BY <1>3, <1>4, <1>6 DEF Meant, ItemRec, SomeSides
<1>8. \A s \in Sides : ~(Has(t, s)' /\ turn'[t].at[s] # "asked") /\ turn'[t].at[s] # "reading"
  BY <1>3, <1>6 DEF Has
<1>9. dispatch'.turn = t /\ dispatch'.gens = {} /\ dispatch'.accepted = {}
  BY <1>1, <1>6
<1>10. Waits'
  BY <1>3, <1>5, <1>6, <1>7, <1>8, <1>9 DEF Waits
<1> QED BY <1>1, <1>2, <1>10 DEF Releases

\* The server keeps the invariant.
LEMMA CalmServes ==
    ASSUME Planned, TypeInv, TypeInv', Frame, Calm,
           NEW t \in 1..Len(turn), NEW s \in Sides, Serves(t, s)
    PROVE  Served' /\ Waits' /\ Releases
<1>1. /\ turn' = turn /\ dispatch' = dispatch /\ items' = items
      /\ \A u \in Turns, z \in Sides : u # t \/ z # s => server'[u][z] = server[u][z]
      /\ server'[t][s] # "absent" /\ (server[t][s] # "absent" \/ turn[t].at[s] = "asked")
  BY DEF Serves, Stays
<1>2. 1..Len(turn) \subseteq Turns
  BY TurnsAre DEF TypeInv
<1>3. Served'
  BY <1>1, <1>2 DEF Served, Calm
<1>4. dispatch # NoDispatch => \A z \in Sides : turn[dispatch.turn].at[z] # "asked" =>
         (server'[dispatch.turn][z] # "absent" <=> server[dispatch.turn][z] # "absent")
  BY <1>1, <1>2, WaitsFor
<1>5. Waits'
  BY <1>1, <1>4, WaitsKept DEF Calm
<1> QED BY <1>1, <1>3, <1>5 DEF Releases

\* An answer keeps the invariant.
LEMMA CalmAnswers ==
    ASSUME Planned, TypeInv, TypeInv', Frame, Calm,
           NEW t \in 1..Len(turn), NEW s \in Sides, Answers(t, s)
    PROVE  Served' /\ Waits' /\ Releases
<1>1. /\ turn[t].at[s] = "asked" /\ server[t][s] # "absent" /\ server' = server
      /\ TakesUp(t, s)
      /\ Len(turn') = Len(turn)
      /\ \A k \in 1..Len(turn) : turn'[k].msg = turn[k].msg /\ turn'[k].open = turn[k].open
      /\ \A k \in 1..Len(turn), z \in Sides :
            turn'[k].at[z] = IF k = t /\ z = s THEN "reading" ELSE turn[k].at[z]
  BY DEF Answers, Moves, SameTurn
<1>2. turn[t].open
  BY <1>1 DEF Calm, Served
<1>3. Served'
  BY <1>1, <1>2 DEF Calm, Served
<1>4. CASE dispatch.turn # t
  <2>1. items' = items /\ dispatch' = dispatch
    BY <1>1, <1>4 DEF TakesUp
  <2>2. dispatch # NoDispatch => /\ turn'[dispatch.turn].open = turn[dispatch.turn].open
                                 /\ \A z \in Sides :
                                       turn'[dispatch.turn].at[z] = turn[dispatch.turn].at[z]
    BY <1>1, <1>4, WaitsFor
  <2>3. Waits'
    BY <1>1, <2>1, <2>2, WaitsKept DEF Calm
  <2> QED BY <1>3, <2>1, <2>3 DEF Releases
<1>5. CASE dispatch.turn = t
  <2> DEFINE all == dispatch.accepted \cup {s}
  <2>1. /\ dispatch'.turn = t /\ dispatch'.gens = dispatch.gens \cup {s} /\ dispatch'.accepted = all
        /\ \/ all # Meant(t) /\ items' = items
           \/ all = Meant(t) /\ Takes(items, items', turn[t].msg)
    BY <1>1, <1>5 DEF TakesUp
  <2>2. dispatch # NoDispatch
    BY <1>5, TurnsAre, NothingWaits DEF TypeInv
  <2>3. /\ turn[t].open
        /\ \A z \in Sides : /\ z \in dispatch.accepted <=> Has(t, z) /\ turn[t].at[z] # "asked"
                            /\ z \in dispatch.gens <=> turn[t].at[z] = "reading"
        /\ \A i \in In(items) : i.msg = turn[t].msg => i.target = Meant(t) /\
              dispatch.accepted # Meant(t)
    BY <1>5, <2>2 DEF Calm, Waits
  <2>4. \A z \in Sides : /\ z \in dispatch'.accepted <=> Has(t, z)' /\ turn'[t].at[z] # "asked"
                         /\ z \in dispatch'.gens <=> turn'[t].at[z] = "reading"
    BY <1>1, <2>1, <2>3 DEF Has
  <2>5. Meant(t)' = Meant(t)
    BY DEF Meant, Frame, SameTurns
  <2>6. \A j \in In(items') : j.msg = turn'[t].msg => j.target = Meant(t)' /\
        dispatch'.accepted # Meant(t)'
    <3>1. CASE all # Meant(t) /\ items' = items
      BY <1>1, <2>1, <2>3, <2>5, <3>1
    <3>2. CASE Takes(items, items', turn[t].msg)
      BY <1>1, <3>2 DEF Takes, Calm, Once
    <3> QED BY <2>1, <3>1, <3>2
  <2>7. Waits'
    BY <1>1, <2>1, <2>3, <2>4, <2>6 DEF Waits
  <2> QED BY <1>3, <1>5, <2>1, <2>7 DEF Releases
<1> QED BY <1>4, <1>5

\* Without stops and other chats, the parts of turns end in three ways.
LEMMA EndsCalmly ==
    ASSUME Gentle, TypeInv, Own, Served, NEW t \in 1..Len(turn), NEW s \in Sides,
           NEW stage, NEW status, t # None, Why(t, s, stage, status)
    PROVE  /\ turn[t].open
           /\ \/ /\ turn[t].at[s] = "asked" /\ stage = "settled" /\ server[t][s] = "absent"
                 /\ status = "failed" /\ Owns(t, s)
              \/ /\ turn[t].at[s] = "reading" /\ stage \in {"ended", "settled"}
                 /\ server[t][s] # "absent" /\ Owns(t, s) /\ status \in {"finished", "failed"}
                 /\ status = "failed" => stage = "settled"
              \/ /\ turn[t].at[s] = "ended" /\ stage = "settled" /\ server[t][s] # "absent"
                 /\ status = "finished" /\ ~Owns(t, s)
<1>1. ~panel[s].stop
  BY DEF Own
<1>2. turn[t].at[s] \in {"asked", "reading"} <=> Owns(t, s)
  BY DEF Own, Underway, Owns
<1>3. turn[t].at[s] \in {"reading", "ended"} => server[t][s] # "absent"
  BY DEF Served
<1>4. turn[t].at[s] \in {"asked", "reading", "ended"}
  BY DEF Why
<1>5. turn[t].open
  BY <1>4 DEF Served
<1>6. "lost" \notin Mishaps
  BY DEF Gentle
<1> QED BY <1>1, <1>2, <1>3, <1>5, <1>6 DEF Why

\* The end of a panel's part keeps the invariant.
LEMMA CalmEnds ==
    ASSUME Planned, Gentle, TypeInv, TypeInv', Frame, Calm,
           NEW t \in 1..Len(turn), NEW s \in Sides, NEW stage, NEW status, Ends(t, s, stage, status)
    PROVE  Served' /\ Waits' /\ Releases
<1>1. /\ Why(t, s, stage, status) /\ server' = server
      /\ Owns(t, s) => Hears(t, s, status)
      /\ ~Owns(t, s) => items' = items /\ dispatch' = dispatch
      /\ Len(turn') = Len(turn)
      /\ \A k \in 1..Len(turn) : turn'[k].msg = turn[k].msg /\ turn'[k].open = turn[k].open
      /\ \A k \in 1..Len(turn), z \in Sides :
            turn'[k].at[z] = IF k = t /\ z = s THEN stage ELSE turn[k].at[z]
  BY DEF Ends, Moves, SameTurn
<1>2. t # None
  BY TurnsAre DEF TypeInv
<1>3. /\ turn[t].open
      /\ \/ /\ turn[t].at[s] = "asked" /\ stage = "settled" /\ server[t][s] = "absent"
            /\ status = "failed" /\ Owns(t, s)
         \/ /\ turn[t].at[s] = "reading" /\ stage \in {"ended", "settled"}
            /\ server[t][s] # "absent" /\ Owns(t, s) /\ status \in {"finished", "failed"}
            /\ status = "failed" => stage = "settled"
         \/ /\ turn[t].at[s] = "ended" /\ stage = "settled" /\ server[t][s] # "absent"
            /\ status = "finished" /\ ~Owns(t, s)
  BY <1>1, <1>2, EndsCalmly DEF Calm
<1>4. Served'
  BY <1>1, <1>3 DEF Calm, Served
<1>5. dispatch # NoDispatch =>
         /\ dispatch.turn \in 1..Len(turn) /\ turn[dispatch.turn].open
         /\ \A z \in Sides : z \in dispatch.gens <=> turn[dispatch.turn].at[z] = "reading"
         /\ \A i \in In(items) : i.msg = turn[dispatch.turn].msg =>
               dispatch.accepted # Meant(dispatch.turn)
  BY WaitsFor DEF Calm, Waits
\* The queue does not hear, or waits for something else.
<1>6. ASSUME dispatch' = dispatch, items' = items, ~Awaits(t, s) PROVE Waits' /\ Releases
  <2>1. ASSUME dispatch # NoDispatch
        PROVE  /\ turn'[dispatch.turn].open = turn[dispatch.turn].open
               /\ \A z \in Sides :
                    LET a == turn[dispatch.turn].at[z]
                        b == turn'[dispatch.turn].at[z]
                    IN  /\ b = "reading" <=> a = "reading"
                        /\ b \notin {"none", "asked"} /\ server'[dispatch.turn][z] # "absent" <=>
                               a \notin {"none", "asked"} /\ server[dispatch.turn][z] # "absent"
    <3>1. PICK d \in 1..Len(turn) : d = dispatch.turn
      BY <1>5, <2>1
    <3>2. turn[t].at[s] = "reading" => d # t
      BY <1>5, <1>6, <2>1, <3>1 DEF Awaits
    <3> QED BY <1>1, <1>3, <3>1, <3>2
  <2>2. Waits'
    BY <1>6, <2>1, WaitsKept DEF Calm
  <2> QED BY <1>6, <2>2 DEF Releases
<1>7. CASE ~Owns(t, s)
  <2>1. ~Awaits(t, s)
    BY <1>3, <1>5, <1>7 DEF Awaits
  <2> QED BY <1>1, <1>4, <1>6, <1>7, <2>1
<1>8. CASE Ignores(t, s)
  <2>1. dispatch' = dispatch /\ items' = items /\ ~Awaits(t, s)
    BY <1>8 DEF Ignores
  <2> QED BY <1>4, <1>6, <2>1
<1>9. CASE Frees(t, s, status)
  <2>1. dispatch' = NoDispatch /\ items' = items
        /\ (dispatch = NoDispatch \/ (dispatch.turn = t /\ dispatch.accepted = Meant(t)))
    BY <1>9, QIs DEF Frees, Awaits, Complete
  <2>2. Waits'
    BY <2>1 DEF Waits
  <2>3. Releases
    BY <1>5, <2>1 DEF Releases
  <2> QED BY <1>4, <2>2, <2>3
<1>10. CASE Gives(t, s)
  <2>1. dispatch # NoDispatch /\ dispatch.turn = t /\ ~turn[t].open
    BY <1>10 DEF Gives, Awaits
  <2> QED BY <1>3, <2>1
<1>11. CASE Awaited(t, s)
  <2>1. /\ dispatch # NoDispatch /\ dispatch.turn = t /\ s \in dispatch.gens
        /\ dispatch'.turn = t /\ dispatch'.accepted = dispatch.accepted
        /\ dispatch'.gens = dispatch.gens \ {s} /\ items' = items
    BY <1>11 DEF Awaited, Awaits
  <2>2. /\ turn[t].open
        /\ \A z \in Sides : /\ z \in dispatch.accepted <=> Has(t, z) /\ turn[t].at[z] # "asked"
                            /\ z \in dispatch.gens <=> turn[t].at[z] = "reading"
        /\ \A i \in In(items) : i.msg = turn[t].msg => i.target = Meant(t) /\
              dispatch.accepted # Meant(t)
    BY <2>1 DEF Calm, Waits
  <2>3. turn[t].at[s] = "reading"
    BY <2>1, <2>2
  <2>4. \A z \in Sides : /\ z \in dispatch'.accepted <=> Has(t, z)' /\ turn'[t].at[z] # "asked"
                         /\ z \in dispatch'.gens <=> turn'[t].at[z] = "reading"
    BY <1>1, <1>3, <2>1, <2>2, <2>3 DEF Has
  <2>5. Meant(t)' = Meant(t)
    BY DEF Meant, Frame, SameTurns
  <2>6. turn'[t].open /\ turn'[t].msg = turn[t].msg
    BY <1>1, <1>3
  <2>7. Waits'
    BY <2>1, <2>2, <2>4, <2>5, <2>6 DEF Waits
  <2> QED BY <1>4, <2>1, <2>7 DEF Releases
<1> QED BY <1>1, <1>7, <1>8, <1>9, <1>10, <1>11 DEF Hears

\* The end of split.send keeps the invariant.
LEMMA CalmSettles ==
    ASSUME Planned, TypeInv, TypeInv', Frame, Calm, NEW t \in 1..Len(turn), Settles(t)
    PROVE  Served' /\ Waits' /\ Releases
<1>1. /\ \A z \in Sides : turn[t].at[z] \in {"none", "settled"}
      /\ server' = server /\ Gathers(t)
      /\ Len(turn') = Len(turn)
      /\ \A k \in 1..Len(turn) : /\ turn'[k].at = turn[k].at
                                 /\ turn'[k].open = (k # t /\ turn[k].open)
  BY DEF Settles, Closes
<1>2. Served'
  BY <1>1 DEF Calm, Served
<1>3. CASE dispatch.turn # t
  <2>1. items' = items /\ dispatch' = dispatch
    BY <1>1, <1>3 DEF Gathers
  <2>2. dispatch # NoDispatch => /\ turn'[dispatch.turn].open = turn[dispatch.turn].open
                                 /\ turn'[dispatch.turn].at = turn[dispatch.turn].at
    <3>1. ASSUME dispatch # NoDispatch
          PROVE  /\ turn'[dispatch.turn].open = turn[dispatch.turn].open
                 /\ turn'[dispatch.turn].at = turn[dispatch.turn].at
      <4>1. PICK d \in 1..Len(turn) : d = dispatch.turn
        BY <3>1, WaitsFor
      <4>2. turn[d].open \in BOOLEAN
        BY LengthIs DEF TypeInv, TurnRec
      <4>3. turn'[d].open = (d # t /\ turn[d].open) /\ turn'[d].at = turn[d].at
        BY <1>1
      <4>4. (d # t /\ turn[d].open) = turn[d].open
        BY <1>3, <4>1, <4>2
      <4> QED BY <4>1, <4>3, <4>4
    <3> QED BY <3>1
  <2>3. Waits'
    BY <1>1, <2>1, <2>2, WaitsKept DEF Calm
  <2> QED BY <1>2, <2>1, <2>3 DEF Releases
<1>4. CASE dispatch.turn = t
  <2>1. dispatch # NoDispatch
    BY <1>4, TurnsAre, NothingWaits DEF TypeInv
  <2>2. /\ \A z \in Sides : /\ z \in dispatch.accepted <=> Has(t, z) /\ turn[t].at[z] # "asked"
                            /\ z \in dispatch.gens <=> turn[t].at[z] = "reading"
        /\ \A i \in In(items) : i.msg = turn[t].msg => i.target = Meant(t) /\
              dispatch.accepted # Meant(t)
    BY <1>4, <2>1 DEF Calm, Waits
  <2>3. \A z \in Sides : z \notin dispatch.accepted => ~Live(t, z)
    BY <1>1, <2>2 DEF Live
  <2>4. dispatch.gens = {}
    <3>1. dispatch.gens \subseteq dispatch.accepted /\ dispatch.accepted \subseteq Sides
      BY DispatchOK DEF DispatchRec
    <3> QED BY <1>1, <2>2, <3>1
  <2>5. /\ dispatch' = NoDispatch
        /\ \/ dispatch.accepted = {} /\ items' = items
           \/ dispatch.accepted = Meant(t) /\ items' = items
           \/ NarrowsNow
    BY <1>1, <1>4, <2>4, QIs DEF Gathers, Complete
  <2>6. Waits'
    BY <2>5 DEF Waits
  <2>7. ASSUME NEW j \in In(items'), NEW z \in Sides, j.msg = turn[t].msg, z \in j.target
        PROVE  ~Live(t, z)
    <3>1. CASE items' = items
      <4>1. j.target = Meant(t) /\ dispatch.accepted # Meant(t)
        BY <2>2, <2>7, <3>1
      <4>2. dispatch.accepted \subseteq Meant(t)
        <5>1. dispatch.accepted \subseteq Sides
          BY DispatchOK DEF DispatchRec
        <5> QED BY <2>2, <5>1 DEF Has, Meant
      <4>3. dispatch.accepted = {}
        <5>1. CASE dispatch.accepted = {} \/ dispatch.accepted = Meant(t)
          BY <4>1, <5>1
        <5>2. CASE NarrowsNow /\ dispatch.accepted # {}
          <6>1. Meant(t) \ dispatch.accepted # {}
            BY <4>1, <4>2
          <6>2. Narrows(items, items', turn[t].msg, Meant(t) \ dispatch.accepted)
            BY <1>4, <5>2, <6>1 DEF NarrowsNow
          <6>3. j.target = Meant(t) \ dispatch.accepted
            BY <2>7, <6>2 DEF Narrows, In
          <6> QED BY <4>1, <4>2, <6>3
        <5> QED BY <2>5, <5>1, <5>2
      <4> QED BY <2>3, <4>3
    <3>2. CASE items' # items
      <4>1. j.target = Meant(t) \ dispatch.accepted
        <5>1. Narrows(items, items', turn[t].msg, Meant(t) \ dispatch.accepted)
          BY <1>4, <2>5, <3>2 DEF NarrowsNow
        <5> QED BY <2>7, <5>1 DEF Narrows, In
      <4> QED BY <2>3, <2>7, <4>1
    <3> QED BY <3>1, <3>2
  <2>8. Releases
    BY <1>4, <2>7 DEF Releases
  <2> QED BY <1>2, <2>6, <2>8
<1> QED BY <1>3, <1>4

\* Every step keeps the invariant.
LEMMA CalmSteps ==
    ASSUME Planned, UNCHANGED plan, Gentle, TypeInv, TypeInv', Kind \/ UNCHANGED vars, Calm
    PROVE  Calm'
<1>1. Frame
  BY FrameIs
<1>2. NoReplace
  BY DEF Gentle, NoReplace
<1>3. Kept' /\ Own'
  BY <1>1, <1>2, KeptSteps, OwnSteps, ItemsAfter DEF Calm
<1>4. Served' /\ Waits' /\ Releases
  <2>1. CASE Rests
    BY <1>1, <2>1, CalmRests
  <2>2. CASE UserAsks
    BY <1>1, <2>2, CalmUserAsks
  <2>3. CASE QueueAsks
    BY <1>1, <2>3, CalmQueueAsks
  <2>4. ASSUME NEW t \in 1..Len(turn), Settles(t) PROVE Served' /\ Waits' /\ Releases
    BY <1>1, <2>4, CalmSettles
  <2>5. ASSUME NEW t \in 1..Len(turn), NEW s \in Sides, Serves(t, s)
        PROVE  Served' /\ Waits' /\ Releases
    BY <1>1, <2>5, CalmServes
  <2>6. ASSUME NEW t \in 1..Len(turn), NEW s \in Sides, Answers(t, s)
        PROVE  Served' /\ Waits' /\ Releases
    BY <1>1, <2>6, CalmAnswers
  <2>7. ASSUME NEW t \in 1..Len(turn), NEW s \in Sides, NEW stage, NEW status,
               Ends(t, s, stage, status)
        PROVE  Served' /\ Waits' /\ Releases
    BY <1>1, <2>7, CalmEnds
  <2>8. ASSUME NEW s \in Sides, Evicts(s) PROVE FALSE
    BY <2>8 DEF Evicts, Calm, Own
  <2>9. CASE UNCHANGED vars
    <3>1. turn' = turn /\ server' = server /\ dispatch' = dispatch /\ items' = items
      BY <2>9 DEF vars, queue, view
    <3>2. Waits'
      BY <1>1, <3>1, WaitsKept DEF Calm
    <3> QED BY <3>1, <3>2 DEF Served, Calm, Releases
  <2> QED BY <2>1, <2>2, <2>3, <2>4, <2>5, <2>6, <2>7, <2>8, <2>9 DEF Kind
<1>5. Once'
  BY <1>1, <1>4, OnceSteps DEF Calm
<1> QED BY <1>3, <1>4, <1>5 DEF Calm

\* Initially nothing is under way.
LEMMA InitCalm == ASSUME Planned, Init PROVE Calm
<1>1. Len(turn) = 0 /\ items = <<>> /\ Len(items) = 0 /\ dispatch = NoDispatch
  BY DEF Init
<1>2. 1..0 = {}
  OBVIOUS
<1> QED BY <1>1, <1>2, InitKept, InitOwn DEF Calm, Served, Waits, Once, In, Distinct

\* The inductive invariant without stops and replaced chats.
CalmInv == Planned /\ (Gentle => TypeInv /\ Calm)
LEMMA CalmAlways == ASSUME SplitAssumption PROVE Spec => []CalmInv
<1>1. Init => CalmInv
  BY HasPlan, InitTypes, InitCalm DEF CalmInv
<1>2. CalmInv /\ [Next /\ UNCHANGED plan]_<<vars, plan>> => CalmInv'
  <2> SUFFICES ASSUME Planned, TypeInv, Calm, Gentle, [Next]_vars, UNCHANGED plan
               PROVE  TypeInv' /\ Calm'
    BY KeepsPlan DEF CalmInv, Gentle, Mishaps
  <2> QED BY EveryStep, CalmSteps
<1> QED BY <1>1, <1>2, PTL DEF Spec

\* A set without two different elements has at most one.
LEMMA AtMostOne ==
    ASSUME NEW S, \A x, y \in S : x = y
    PROVE  Cardinality(S) <= 1
<1>1. CASE S = {}
  BY <1>1, FS_EmptySet
<1>2. CASE S # {}
  <2>1. PICK x \in S : TRUE
    BY <1>2
  <2>2. S = {x}
    BY <2>1
  <2> QED BY <2>2, FS_Singleton
<1> QED BY <1>1, <1>2

\* While nothing is stopped or replaced and no answer is lost, no panel gets a message
\* twice, however often the rest of it is sent again after one panel failed or refused.
\* A request that fails although the server took it counts as not taken
\* (splitScreen/streaming.js:120-124): the panel then gets the message again.
THEOREM SplitOncePerPanel ==
    ASSUME SplitAssumption PROVE Spec => [](Gentle => OncePerPanel)
<1>1. Planned /\ TypeInv /\ Calm => OncePerPanel
  <2> SUFFICES ASSUME Planned, TypeInv, Calm, NEW m \in Messages, NEW s \in Sides
               PROVE  Cardinality({x \in TakenBy(m) : x[2] = s}) <= 1
    BY DEF OncePerPanel
  <2>1. ASSUME NEW x \in TakenBy(m), NEW y \in TakenBy(m), x[2] = s, y[2] = s PROVE x = y
    <3>1. /\ x[1] \in 1..Len(turn) /\ turn[x[1]].msg = m /\ Live(x[1], s) /\ x = <<x[1], s>>
          /\ y[1] \in 1..Len(turn) /\ turn[y[1]].msg = m /\ Live(y[1], s) /\ y = <<y[1], s>>
      BY <2>1, LengthIs DEF TakenBy, TypeInv, Live, Has
    <3>2. x[1] = y[1]
      BY <3>1 DEF Calm, Once
    <3> QED BY <3>1, <3>2
  <2> QED BY <2>1, AtMostOne
<1>2. CalmInv => (Gentle => OncePerPanel)
  BY <1>1 DEF CalmInv
<1> QED BY <1>2, CalmAlways, PTL

\* Under the same hypothesis, a message that waits while another one or none is under
\* way waits for exactly the panels that have not taken it (narrowQueuedItem).
THEOREM SplitRetryIsExact ==
    ASSUME SplitAssumption PROVE Spec => [](Gentle => RetryIsExact)
<1>1. Planned /\ TypeInv /\ Calm => RetryIsExact
  <2> SUFFICES ASSUME Planned, TypeInv, Calm, NEW k \in DOMAIN items,
                      dispatch.turn = None \/ turn[dispatch.turn].msg # items[k].msg
               PROVE  items[k].target =
                        wanted[items[k].msg].to \ {x[2] : x \in TakenBy(items[k].msg)}
    BY DEF RetryIsExact
  <2> DEFINE i == items[k]
  <2>1. i \in In(items) /\ i.target \subseteq Sides
    <3>1. items \in Seq(ItemRec) /\ k \in 1..Len(items)
      BY DispatchOK, LenProperties
    <3>2. i \in ItemRec
      BY <3>1, ElementOfSeq
    <3> QED BY <3>1, <3>2 DEF In, ItemRec, SomeSides
  <2>2. {x[2] : x \in TakenBy(i.msg)} = HasIt(i.msg)
    BY TakenIs
  <2>3. wanted[i.msg].to = i.target \cup HasIt(i.msg)
    BY <2>1 DEF Calm, Kept, ItemsLack
  <2>4. ASSUME NEW s \in i.target, s \in HasIt(i.msg) PROVE FALSE
    <3>1. PICK t \in 1..Len(turn) : turn[t].msg = i.msg /\ Has(t, s)
      BY <2>4 DEF HasIt
    <3>2. t = dispatch.turn
      BY <2>1, <2>4, <3>1 DEF Calm, Once, Live
    <3>3. dispatch.turn # None
      BY <3>2, TurnsAre DEF TypeInv
    <3> QED BY <3>1, <3>2, <3>3
  <2> QED BY <2>2, <2>3, <2>4
<1>2. CalmInv => (Gentle => RetryIsExact)
  BY <1>1 DEF CalmInv
<1> QED BY <1>2, CalmAlways, PTL

-----------------------------------------------------------------------------
(* After a failure nothing leaves the queue before the user resumes it, when *)
(* every message is for one panel.                                           *)

Solo(sides) == \E s \in Sides : sides = {s}
OneEach == \A sides \in Targets : Solo(sides)
Singles == /\ Solo(target) /\ \A i \in In(items) : Solo(i.target)
           /\ \A t \in 1..Len(turn) : Solo(Meant(t)) /\ turn[t].failed \subseteq Meant(t)

\* The turn the queue waits for is over, and no panel took it.
Doomed == /\ dispatch # NoDispatch /\ dispatch.accepted = {}
          /\ \A s \in Sides : turn[dispatch.turn].at[s] \in {"none", "settled"}
Break == broken => items # <<>> /\ (paused \/ Doomed)

\* A panel's failure is the turn's only new one.
LEMMA FailedMoved ==
    ASSUME TypeInv, Frame, Singles, NEW t \in 1..Len(turn), NEW s \in Sides, NEW stage,
           Moves(t, s, stage), turn[t].at[s] # "none"
    PROVE  \A k \in 1..Len(turn') : turn'[k].failed \subseteq Meant(k)'
<1> SUFFICES ASSUME NEW k \in 1..Len(turn'), NEW z \in turn'[k].failed PROVE z \in Meant(k)'
  OBVIOUS
<1>1. k \in 1..Len(turn) /\ (z \in turn[k].failed \/ (k = t /\ z = s))
  BY DEF Moves
<1>2. Meant(k)' = Meant(k)
  BY <1>1 DEF Meant, Frame, SameTurns
<1>3. z \in Meant(k)
  BY <1>1 DEF Singles, Meant
<1> QED BY <1>2, <1>3

\* A turn that begins has failed nowhere.
LEMMA FailedBegun ==
    ASSUME TypeInv, Frame, Singles, NEW sides, NEW by, NEW m, Begins(sides, by, m)
    PROVE  \A k \in 1..Len(turn') : turn'[k].failed \subseteq Meant(k)'
<1> SUFFICES ASSUME NEW k \in 1..Len(turn') PROVE turn'[k].failed \subseteq Meant(k)'
  OBVIOUS
<1>1. /\ Len(turn) \in Nat /\ Len(turn') = Len(turn) + 1
      /\ \A u \in 1..Len(turn) : turn'[u] = turn[u]
      /\ turn'[Len(turn) + 1].failed = {}
  BY LengthIs DEF Begins, TypeInv
<1>2. CASE k \in 1..Len(turn)
  <2>1. Meant(k)' = Meant(k) /\ turn'[k].failed = turn[k].failed
    BY <1>1, <1>2 DEF Meant
  <2> QED BY <1>2, <2>1 DEF Singles
<1>3. CASE k \notin 1..Len(turn)
  <2>1. k = Len(turn) + 1
    BY <1>1, <1>3
  <2> QED BY <1>1, <2>1
<1> QED BY <1>2, <1>3

\* Every step keeps messages for one panel each.
LEMMA SinglesSteps ==
    ASSUME Planned, OneEach, TypeInv, TypeInv', Frame, Kind \/ UNCHANGED vars, Own, Singles
    PROVE  Singles'
<1>1. Solo(target)' /\ \A k \in 1..Len(turn') : turn'[k].failed \subseteq Meant(k)'
  <2>0. ASSUME turn' = turn PROVE \A k \in 1..Len(turn') : turn'[k].failed \subseteq Meant(k)'
    BY <2>0 DEF Singles, Meant
  <2>1. CASE Rests
    <3>1. turn' = turn /\ (target' = target \/ target' \in Targets)
      BY <2>1 DEF Rests
    <3> QED BY <2>0, <3>1 DEF Singles, OneEach, Solo
  <2>2. CASE UserAsks
    BY <2>2, FailedBegun DEF UserAsks, Singles, Solo
  <2>3. CASE QueueAsks
    BY <2>3, FailedBegun DEF QueueAsks, Singles, Solo
  <2>4. ASSUME NEW t \in 1..Len(turn), Settles(t)
        PROVE  Solo(target)' /\ \A k \in 1..Len(turn') : turn'[k].failed \subseteq Meant(k)'
    <3>1. /\ target' = target /\ Len(turn') = Len(turn)
          /\ \A k \in 1..Len(turn) : turn'[k].at = turn[k].at /\ turn'[k].failed = turn[k].failed
      BY <2>4 DEF Settles, Closes
    <3> QED BY <3>1 DEF Singles, Meant, Solo
  <2>5. ASSUME NEW t \in 1..Len(turn), NEW s \in Sides, Serves(t, s)
        PROVE  Solo(target)' /\ \A k \in 1..Len(turn') : turn'[k].failed \subseteq Meant(k)'
    <3>1. target' = target /\ turn' = turn
      BY <2>5 DEF Serves
    <3> QED BY <2>0, <3>1 DEF Singles, Solo
  <2>6. ASSUME NEW t \in 1..Len(turn), NEW s \in Sides, Answers(t, s)
        PROVE  Solo(target)' /\ \A k \in 1..Len(turn') : turn'[k].failed \subseteq Meant(k)'
    <3>1. target' = target /\ Moves(t, s, "reading") /\ turn[t].at[s] # "none"
      BY <2>6 DEF Answers
    <3> QED BY <3>1, FailedMoved DEF Singles, Solo
  <2>7. ASSUME NEW t \in 1..Len(turn), NEW s \in Sides, NEW stage, NEW status,
               Ends(t, s, stage, status)
        PROVE  Solo(target)' /\ \A k \in 1..Len(turn') : turn'[k].failed \subseteq Meant(k)'
    <3>1. Moves(t, s, stage) /\ turn[t].at[s] # "none" /\ Fails(t, s, status)
      BY <2>7 DEF Ends, Why
    <3>2. turn[t].failed \ {s} = {}
      <4>1. s \in Meant(t) /\ Solo(Meant(t)) /\ turn[t].failed \subseteq Meant(t)
        BY <3>1 DEF Meant, Singles
      <4> QED BY <4>1 DEF Solo
    <3>3. target' = target \/ target' = {s}
      BY <3>1, <3>2 DEF Fails
    <3> QED BY <3>1, <3>3, FailedMoved DEF Singles, Solo
  <2>8. ASSUME NEW s \in Sides, Evicts(s)
        PROVE  FALSE
    BY <2>8 DEF Evicts, Own
  <2>9. CASE UNCHANGED vars
    <3>1. turn' = turn /\ target' = target
      BY <2>9 DEF vars, view
    <3> QED BY <2>0, <3>1 DEF Singles, Solo
  <2> QED BY <2>1, <2>2, <2>3, <2>4, <2>5, <2>6, <2>7, <2>8, <2>9 DEF Kind
<1>2. ASSUME NEW j \in In(items') PROVE Solo(j.target)
  <2>1. CASE j = Item
    BY <2>1 DEF Item, Singles
  <2>2. CASE \E i \in In(items) : j.target = i.target
    BY <2>2 DEF Singles
  <2>3. CASE Lacks(j)
    <3>1. dispatch # NoDispatch /\ j.target \subseteq Meant(dispatch.turn)
      BY <2>3, NothingWaits DEF Lacks
    <3>2. Solo(Meant(dispatch.turn))
      BY <3>1, WaitsFor DEF Singles
    <3>3. j.target # {}
      <4>1. items' \in Seq(ItemRec)
        BY ItemsAfter
      <4>2. j \in ItemRec
        BY <4>1, ElementOfSeq DEF In
      <4> QED BY <4>2 DEF ItemRec, SomeSides
    <3> QED BY <3>1, <3>2, <3>3 DEF Solo
  <2> QED BY <2>1, <2>2, <2>3 DEF Frame, NewItems
<1>3. ASSUME NEW k \in 1..Len(turn') PROVE Solo(Meant(k)')
  <2>1. CASE k \in 1..Len(turn)
    <3>1. Meant(k)' = Meant(k)
      BY <2>1 DEF Meant, Frame, SameTurns
    <3> QED BY <2>1, <3>1 DEF Singles
  <2>2. CASE k \notin 1..Len(turn)
    <3>1. Meant(k)' = target \/ \E i \in In(items') : Meant(k)' = i.target
      BY <2>2 DEF Frame, NewTurns
    <3> QED BY <1>2, <3>1 DEF Singles
  <2> QED BY <2>1, <2>2
<1> QED BY <1>1, <1>2, <1>3 DEF Singles, Solo

\* A queue that is not empty stays so when a generation ends.
LEMMA HearsItems ==
    ASSUME TypeInv, TypeInv', NEW t, NEW s, NEW status, Hears(t, s, status), items # <<>>
    PROVE  items' # <<>>
<1>1. items \in Seq(ItemRec) /\ items' \in Seq(ItemRec)
  BY DispatchOK, ItemsAfter
<1>2. items' = items \/ NarrowsNow
  BY DEF Hears, Frees, Ignores, Awaited, Gives
<1>3. items' = items \/ \E m, l : Narrows(items, items', m, l)
  BY <1>2 DEF NarrowsNow
<1>4. items' = items \/ ((items' = <<>>) = (items = <<>>))
  BY <1>1, <1>3, NarrowedKeeps
<1> QED BY <1>4

\* The turn the queue waits for stays over.
LEMMA DoomedStays ==
    ASSUME Planned, TypeInv, Doomed, dispatch' = dispatch,
           \A z \in Sides : turn'[dispatch.turn].at[z] = turn[dispatch.turn].at[z]
    PROVE  Doomed'
  BY DEF Doomed

\* The end of a panel's part keeps a queue behind a break paused.
LEMMA BreakEnds ==
    ASSUME Planned, Gentle, TypeInv, TypeInv', Calm, Singles, Break,
           NEW t \in 1..Len(turn), NEW s \in Sides, NEW stage, NEW status, Ends(t, s, stage, status)
    PROVE  Break'
<1> SUFFICES ASSUME broken' PROVE items' # <<>> /\ (paused' \/ Doomed')
  BY DEF Break
<1>1. /\ Why(t, s, stage, status) /\ server' = server /\ Fails(t, s, status) /\ (paused => paused')
      /\ Owns(t, s) => Hears(t, s, status)
      /\ ~Owns(t, s) => items' = items /\ dispatch' = dispatch
      /\ \A k \in 1..Len(turn), z \in Sides :
            turn'[k].at[z] = IF k = t /\ z = s THEN stage ELSE turn[k].at[z]
  BY DEF Ends, Moves
<1>2. t # None
  BY TurnsAre DEF TypeInv
<1>3. /\ turn[t].open
      /\ \/ /\ turn[t].at[s] = "asked" /\ stage = "settled" /\ server[t][s] = "absent"
            /\ status = "failed" /\ Owns(t, s)
         \/ /\ turn[t].at[s] = "reading" /\ stage \in {"ended", "settled"}
            /\ server[t][s] # "absent" /\ Owns(t, s) /\ status \in {"finished", "failed"}
            /\ status = "failed" => stage = "settled"
         \/ /\ turn[t].at[s] = "ended" /\ stage = "settled" /\ server[t][s] # "absent"
            /\ status = "finished" /\ ~Owns(t, s)
  BY <1>1, <1>2, EndsCalmly DEF Calm
<1>4. items # <<>> /\ (broken \/ (status = "failed" /\ dispatch.turn \in {t, None}))
  BY <1>1 DEF Fails, Quietly, Break
<1>5. items' # <<>>
  <2>1. CASE Owns(t, s)
    BY <1>1, <1>4, <2>1, HearsItems
  <2>2. CASE ~Owns(t, s)
    BY <1>1, <1>4, <2>2
  <2> QED BY <2>1, <2>2
<1>6. CASE paused
  BY <1>1, <1>5, <1>6
<1>7. CASE ~paused /\ broken
  <2>1. Doomed
    BY <1>7 DEF Break
  <2>2. dispatch.turn \in 1..Len(turn) /\ dispatch.turn # t /\ dispatch # NoDispatch
    BY <1>3, <2>1, WaitsFor DEF Doomed
  <2>3. dispatch' = dispatch
    <3>1. ~Awaits(t, s)
      BY <2>2 DEF Awaits
    <3> QED BY <1>1, <2>2, <3>1 DEF Hears, Frees, Ignores, Awaited, Gives
  <2>4. \A z \in Sides : turn'[dispatch.turn].at[z] = turn[dispatch.turn].at[z]
    BY <1>1, <2>2
  <2>5. Doomed'
    BY <2>1, <2>3, <2>4, DoomedStays
  <2> QED BY <1>5, <2>5
<1>8. CASE ~broken
  <2>1. /\ status = "failed" /\ dispatch.turn \in {t, None} /\ Owns(t, s) /\ stage = "settled"
        /\ Hears(t, s, status) /\ turn[t].at[s] \in {"asked", "reading"}
    BY <1>1, <1>3, <1>4, <1>8
  <2>2. CASE Frees(t, s, status)
    <3>1. paused'
      BY <1>4, <2>1, <2>2 DEF Frees, After
    <3> QED BY <1>5, <3>1
  <2>3. CASE Gives(t, s)
    BY <1>5, <2>3 DEF Gives
  <2>4. CASE dispatch.turn = t /\ (Ignores(t, s) \/ Awaited(t, s))
    <3>1. dispatch # NoDispatch
      BY <1>2, <2>4, NothingWaits
    <3>2. \A z \in Sides : /\ z \in dispatch.accepted <=> Has(t, z) /\ turn[t].at[z] # "asked"
                           /\ z \in dispatch.gens <=> turn[t].at[z] = "reading"
      BY <2>4, <3>1 DEF Calm, Waits
    <3>3. Meant(t) = {s}
      <4>1. s \in Meant(t) /\ Solo(Meant(t))
        BY <2>1 DEF Meant, Singles
      <4> QED BY <4>1 DEF Solo
    <3>4. dispatch.accepted \subseteq {s} /\ dispatch.gens \subseteq dispatch.accepted
      <4>1. dispatch.accepted \subseteq Sides /\ dispatch.gens \subseteq dispatch.accepted
        BY DispatchOK DEF DispatchRec
      <4>2. dispatch.accepted \subseteq Meant(t)
        BY <3>2, <4>1 DEF Has, Meant
      <4> QED BY <3>3, <4>1, <4>2
    <3>5. CASE Ignores(t, s)
      <4>1. s \notin dispatch.gens /\ dispatch' = dispatch
        BY <2>4, <3>1, <3>5 DEF Ignores, Awaits
      <4>2. turn[t].at[s] = "asked"
        BY <2>1, <3>2, <4>1
      <4>3. dispatch.accepted = {}
        BY <3>2, <3>4, <4>2
      <4>4. \A z \in Sides : turn'[t].at[z] \in {"none", "settled"}
        <5>1. \A z \in Sides : z # s => turn[t].at[z] = "none"
          BY <3>3 DEF Meant
        <5> QED BY <1>1, <2>1, <5>1
      <4>5. Doomed'
        BY <2>4, <3>1, <4>1, <4>3, <4>4 DEF Doomed
      <4> QED BY <1>5, <4>5
    <3>6. CASE Awaited(t, s)
      <4>1. s \in dispatch.gens /\ (dispatch.gens # {s} \/ ~Complete(Q))
        BY <3>6 DEF Awaited, Awaits
      <4>2. dispatch.accepted = Meant(t)
        BY <3>3, <3>4, <4>1
      <4> QED BY <2>4, <3>4, <4>1, <4>2, QIs DEF Complete
    <3> QED BY <2>4, <3>5, <3>6
  <2>5. CASE dispatch.turn = None /\ (Ignores(t, s) \/ Awaited(t, s))
    BY <1>2, <2>5, DispatchOK DEF Ignores, Awaited, Awaits
  <2> QED BY <2>1, <2>2, <2>3, <2>4, <2>5 DEF Hears
<1> QED BY <1>6, <1>7, <1>8

\* Every step keeps a queue behind a break paused, or about to be.
LEMMA BreakSteps ==
    ASSUME Planned, Gentle, TypeInv, TypeInv', Kind \/ UNCHANGED vars, Calm, Singles, Break
    PROVE  Break' /\ LeavesUnbroken
<1>1. CASE Rests
  <2>1. dispatch' = dispatch /\ turn' = turn /\ Quietly
    BY <1>1 DEF Rests
  <2>2. Break'
    BY <2>1 DEF Break, Quietly, Doomed
  <2> QED BY <2>1, <2>2 DEF LeavesUnbroken
<1>2. CASE UserAsks
  <2>1. /\ dispatch' = dispatch /\ Quietly
        /\ \A k \in 1..Len(turn) : turn'[k] = turn[k]
    BY <1>2 DEF UserAsks, Begins
  <2>2. Doomed => Doomed'
    <3>1. dispatch # NoDispatch => turn'[dispatch.turn] = turn[dispatch.turn]
      BY <2>1, WaitsFor
    <3> QED BY <2>1, <3>1 DEF Doomed
  <2>3. Break'
    BY <2>1, <2>2 DEF Break, Quietly
  <2> QED BY <2>1, <2>3 DEF LeavesUnbroken
<1>3. CASE QueueAsks
  <2>1. dispatch = NoDispatch /\ (broken' => broken /\ ~paused)
    BY <1>3 DEF QueueAsks, Quietly
  <2>2. ~broken'
    BY <2>1 DEF Break, Doomed
  <2> QED BY <2>2 DEF Break, LeavesUnbroken
<1>4. ASSUME NEW t \in 1..Len(turn), Settles(t) PROVE Break' /\ LeavesUnbroken
  <2>1. /\ Quietly /\ Gathers(t) /\ \A k \in 1..Len(turn) : turn'[k].at = turn[k].at
    BY <1>4 DEF Settles, Closes
  <2>2. LeavesUnbroken
    BY <2>1, NothingWaits DEF Gathers, LeavesUnbroken
  <2>3. ASSUME broken' PROVE items' # <<>> /\ (paused' \/ Doomed')
    <3>1. items' # <<>> /\ broken /\ (paused => paused')
      BY <2>1, <2>3 DEF Quietly, Break
    <3>2. CASE Doomed /\ ~paused
      <4>1. dispatch.turn \in 1..Len(turn) /\ dispatch.accepted = {} /\ dispatch.gens = {}
        BY <3>2, WaitsFor, DispatchOK DEF Doomed
      <4>2. CASE dispatch.turn = t
        <5>1. paused'
          BY <2>1, <3>1, <4>1, <4>2 DEF Gathers
        <5> QED BY <3>1, <5>1
      <4>3. CASE dispatch.turn # t
        <5>1. dispatch' = dispatch
          BY <2>1, <4>3 DEF Gathers
        <5>2. Doomed'
          BY <2>1, <3>2, <4>1, <5>1, DoomedStays
        <5> QED BY <3>1, <5>2
      <4> QED BY <4>2, <4>3
    <3> QED BY <3>1, <3>2 DEF Break
  <2> QED BY <2>2, <2>3 DEF Break
<1>5. ASSUME NEW t \in 1..Len(turn), NEW s \in Sides, Serves(t, s) PROVE Break' /\ LeavesUnbroken
  <2>1. turn' = turn /\ dispatch' = dispatch /\ items' = items /\ paused' = paused /\
        broken' = broken
    BY <1>5 DEF Serves, Stays
  <2> QED BY <2>1 DEF Break, Doomed, LeavesUnbroken
<1>6. ASSUME NEW t \in 1..Len(turn), NEW s \in Sides, Answers(t, s) PROVE Break' /\ LeavesUnbroken
  <2>1. /\ Quietly /\ TakesUp(t, s) /\ turn[t].at[s] = "asked"
        /\ \A k \in 1..Len(turn), z \in Sides :
              turn'[k].at[z] = IF k = t /\ z = s THEN "reading" ELSE turn[k].at[z]
    BY <1>6 DEF Answers, Moves
  <2>2. LeavesUnbroken
    BY <2>1 DEF TakesUp, LeavesUnbroken
  <2>3. Doomed => Doomed'
    <3>1. ASSUME Doomed PROVE Doomed'
      <4>1. dispatch.turn \in 1..Len(turn) /\ dispatch.turn # t
        BY <2>1, <3>1, WaitsFor DEF Doomed
      <4>2. dispatch' = dispatch
        BY <2>1, <4>1 DEF TakesUp
      <4>3. \A z \in Sides : turn'[dispatch.turn].at[z] = turn[dispatch.turn].at[z]
        BY <2>1, <4>1
      <4> QED BY <3>1, <4>2, <4>3, DoomedStays
    <3> QED BY <3>1
  <2> QED BY <2>1, <2>2, <2>3 DEF Break, Quietly
<1>7. ASSUME NEW t \in 1..Len(turn), NEW s \in Sides, NEW stage, NEW status,
             Ends(t, s, stage, status)
      PROVE  Break' /\ LeavesUnbroken
  <2>1. dispatch' = NoDispatch \/ dispatch'.turn = dispatch.turn
    BY <1>7, HearsDispatch DEF Ends
  <2> QED BY <1>7, <2>1, BreakEnds, NothingWaits DEF LeavesUnbroken
<1>8. ASSUME NEW s \in Sides, Evicts(s) PROVE FALSE
  BY <1>8 DEF Evicts, Calm, Own
<1>9. CASE UNCHANGED vars
  <2>1. turn' = turn /\ dispatch' = dispatch /\ items' = items /\ paused' = paused /\
        broken' = broken
    BY <1>9 DEF vars, view, queue, history
  <2> QED BY <2>1 DEF Break, Doomed, LeavesUnbroken
<1> QED BY <1>1, <1>2, <1>3, <1>4, <1>5, <1>6, <1>7, <1>8, <1>9 DEF Kind

\* Initially nothing is broken.
LEMMA InitBreak == ASSUME Planned, OneEach, Init PROVE Singles /\ Break
<1>1. Len(turn) = 0 /\ items = <<>> /\ Len(items) = 0 /\ target \in Targets /\ ~broken
  BY DEF Init
<1>2. 1..0 = {}
  OBVIOUS
<1> QED BY <1>1, <1>2 DEF Singles, Break, OneEach, In

\* When every message is for one panel, nothing is stopped or replaced and no answer is
\* lost, nothing leaves the queue behind a turn that failed before the user resumes it.  For messages
\* for both panels it does not hold: a failure in one panel while the queue waits for
\* the other is not counted against the queue (messageQueue.js, finishActiveQueueDispatch).
THEOREM SplitBreakHolds ==
    ASSUME SplitAssumption PROVE Spec => [][Gentle /\ OneEach => LeavesUnbroken]_vars
<1> DEFINE Fit == Gentle /\ OneEach
           Inv == Planned /\ (Fit => TypeInv /\ Calm /\ Singles /\ Break)
<1>1. Init => Inv
  BY HasPlan, InitTypes, InitCalm, InitBreak
<1>2. Inv /\ [Next /\ UNCHANGED plan]_<<vars, plan>> => Inv' /\ (Fit => LeavesUnbroken)
  <2> SUFFICES ASSUME Planned, TypeInv, Calm, Singles, Break, Gentle, OneEach, [Next]_vars,
                      UNCHANGED plan
               PROVE  /\ TypeInv' /\ Calm' /\ Singles' /\ Break' /\ LeavesUnbroken
    BY KeepsPlan DEF Gentle, OneEach, Mishaps, Targets
  <2>1. TypeInv' /\ (Kind \/ UNCHANGED vars)
    BY EveryStep
  <2>2. Frame
    BY <2>1, FrameIs
  <2>3. Calm' /\ Singles'
    BY <2>1, <2>2, CalmSteps, SinglesSteps DEF Calm
  <2>4. Break' /\ LeavesUnbroken
    BY <2>1, BreakSteps
  <2> QED BY <2>1, <2>3, <2>4
<1> QED BY <1>1, <1>2, PTL DEF Spec

-----------------------------------------------------------------------------
(* Both queues of MCQueue.  What MessageQueueProofs proves of a chat's queue  *)
(* holds of the one that runs beside the split screen, and the other way      *)
(* round: a part that rests stutters.                                         *)

Page == INSTANCE MessageQueueProofs WITH
            typed <- written, items <- waiting, paused <- halted, dispatch <- sending,
            handoff <- soon, server <- backend, thrown <- removed, broken <- failed,
            spent <- used

\* The module of the proofs says what Chat says.
LEMMA ChatAgrees ==
    /\ Chat!Init => Page!Init
    /\ Chat!Next => Page!Next
    /\ Chat!QueueAssumption => Page!QueueAssumption
    /\ Page!TypeOK => Chat!TypeOK
    /\ Page!NeverTwice => Chat!NeverTwice
    /\ Page!NothingDropped => Chat!NothingDropped
    /\ Page!StaysInItsChat => Chat!StaysInItsChat
    /\ Page!NoOverlap => Chat!NoOverlap
    /\ Page!LeavesUnbroken => Chat!LeavesUnbroken
<1>1. (\E z \in {0} : Chat!Next) => (\E z \in {0} : Page!Next)
  BY PTL DEF
     Chat!RemoveFirstMatch, Chat!RemoveAt, Chat!SelectInSeq, Chat!Min, Chat!Blank, Chat!None,
     Chat!Gens, Chat!queue, Chat!world, Chat!history, Chat!NoDispatch, Chat!Mishaps, Chat!May, Chat!Urgent,
     Chat!Quiet, Chat!Q, Chat!Redrawn, Chat!Halt, Chat!Released, Chat!Without, Chat!Scheduled,
     Chat!Promoted, Chat!Waits, Chat!Terminal, Chat!SetQueue, Chat!Breaks, Chat!Holds,
     Chat!Begin, Chat!ProcessNext, Chat!Item, Chat!Here, Chat!Submit, Chat!Resume, Chat!SendNext,
     Chat!Arrange, Chat!Stop, Chat!Open, Chat!NewChat, Chat!Loaded, Chat!RunningIn, Chat!Probe,
     Chat!Accept, Chat!Finish, Chat!Acknowledged, Chat!Unheard, Chat!Let_go, Chat!Owns,
     Chat!Free, Chat!Settling, Chat!Answered, Chat!Refused, Chat!Cut, Chat!Reads, Chat!Named,
     Chat!Done, Chat!Errored, Chat!Closed, Chat!Stale, Chat!Handoff, Chat!Settle, Chat!Reader,
     Chat!Next, Page!RemoveFirstMatch, Page!RemoveAt, Page!SelectInSeq, Page!Min, Page!Blank,
     Page!None, Page!Gens, Page!queue, Page!world, Page!history, Page!NoDispatch, Page!Mishaps, Page!May,
     Page!Urgent, Page!Quiet, Page!Q, Page!Redrawn, Page!Halt, Page!Released, Page!Without,
     Page!Scheduled, Page!Promoted, Page!Waits, Page!Terminal, Page!SetQueue, Page!Breaks,
     Page!Holds, Page!Begin, Page!ProcessNext, Page!Item, Page!Here, Page!Submit, Page!Resume,
     Page!SendNext, Page!Arrange, Page!Stop, Page!Open, Page!NewChat, Page!Loaded,
     Page!RunningIn, Page!Probe, Page!Accept, Page!Finish, Page!Acknowledged, Page!Unheard,
     Page!Let_go, Page!Owns, Page!Free, Page!Settling, Page!Answered, Page!Refused, Page!Cut,
     Page!Reads, Page!Named, Page!Done, Page!Errored, Page!Closed, Page!Stale, Page!Handoff,
     Page!Settle, Page!Reader, Page!Next
<1>2. /\ (\E z \in {0} : Chat!Init) => (\E z \in {0} : Page!Init)
      /\ (\E z \in {0} : Chat!QueueAssumption) => (\E z \in {0} : Page!QueueAssumption)
      /\ (\E z \in {0} : Page!TypeOK) => (\E z \in {0} : Chat!TypeOK)
      /\ (\E z \in {0} : Page!NeverTwice) => (\E z \in {0} : Chat!NeverTwice)
      /\ (\E z \in {0} : Page!NothingDropped) => (\E z \in {0} : Chat!NothingDropped)
      /\ (\E z \in {0} : Page!StaysInItsChat) => (\E z \in {0} : Chat!StaysInItsChat)
      /\ (\E z \in {0} : Page!NoOverlap) => (\E z \in {0} : Chat!NoOverlap)
      /\ (\E z \in {0} : Page!LeavesUnbroken) => (\E z \in {0} : Chat!LeavesUnbroken)
  BY PTL DEF
     Chat!Cardinality, Chat!QueueAssumption, Chat!Blank, Chat!None, Chat!Gens,
     Chat!Messages, Chat!Chats, Chat!NoDispatch, Chat!Queue, Chat!TypeOK, Chat!Init,
     Chat!RunningIn, Chat!Sent, Chat!RequestsOf, Chat!Waiting, Chat!NeverTwice,
     Chat!StaysInItsChat, Chat!NoOverlap, Chat!NothingDropped, Chat!LeavesUnbroken,
     Page!Cardinality, Page!QueueAssumption, Page!Blank, Page!None, Page!Gens,
     Page!Messages, Page!Chats, Page!NoDispatch, Page!Queue, Page!TypeOK, Page!Init,
     Page!RunningIn, Page!Sent, Page!RequestsOf, Page!Waiting, Page!NeverTwice,
     Page!StaysInItsChat, Page!NoOverlap, Page!NothingDropped, Page!LeavesUnbroken
<1> QED BY <1>1, <1>2, Zenon

LEMMA QueuesAssumed == SplitAssumption /\ Page!QueueAssumption
  BY QueuesAssumption, ChatAgrees

\* What runs is a run of the split screen, and a run of the chat.
LEMMA QueuesRun == QueuesSpec => Spec /\ Page!Spec
<1>1. QueuesInit => Init /\ Page!Init
  BY ChatAgrees DEF QueuesInit
<1>2. [QueuesNext]_allVars => [Next /\ UNCHANGED plan]_<<vars, plan>>
  BY DEF QueuesNext, allVars
<1>3. [QueuesNext]_allVars => [Page!Next /\ UNCHANGED plan]_<<Page!vars, plan>>
  <2>1. [QueuesNext]_allVars => [Chat!Next /\ UNCHANGED plan]_<<Page!vars, plan>>
    BY DEF QueuesNext, allVars, chatVars, Page!queue, Page!world, Page!history, Page!vars
  <2> QED BY <2>1, ChatAgrees
<1> QED BY <1>1, <1>2, <1>3, PTL DEF QueuesSpec, Spec, Page!Spec

\* Types: neither queue, page or server leaves its domains, and an empty queue is not
\* paused (updateQueueUI, renderQueue), whatever the user and the network do.
THEOREM QueuesTypes == QueuesSpec => []TypesOK
<1>1. Spec => []TypeOK
  BY QueuesAssumed, SplitTypes
<1>2. Page!Spec => []Page!TypeOK
  BY QueuesAssumed, Page!QueueTypes
<1>3. TypeOK /\ Page!TypeOK => TypesOK
  BY ChatAgrees DEF TypesOK
<1> QED BY QueuesRun, <1>1, <1>2, <1>3, PTL

\* No typed message disappears unless the user removes it or saw it refused; a split
\* screen sends none but to the chats it was typed beside, and a page that shows a chat
\* from the start sends none to another chat than the one it was typed in.
THEOREM QueuesKeep == QueuesSpec => []MessagesKept
<1>1. Spec => []NothingDropped /\ []StaysInItsChats
  BY QueuesAssumed, SplitNothingDropped, SplitStaysInItsChats
<1>2. Page!Spec => /\ []Page!NothingDropped
                   /\ [](plan.start # Page!Blank /\ "new" \notin Page!Mishaps
                         => Page!StaysInItsChat)
  BY QueuesAssumed, Page!NoMessageDropped, Page!MessagesStayInTheirChat
<1>3. /\ NothingDropped /\ StaysInItsChats /\ Page!NothingDropped
      /\ plan.start # Page!Blank /\ "new" \notin Page!Mishaps => Page!StaysInItsChat
      => MessagesKept
  BY ChatAgrees DEF MessagesKept, Never, Page!Mishaps, Page!Blank, Chat!Blank
<1> QED BY QueuesRun, <1>1, <1>2, <1>3, PTL

\* Where nothing is stopped or replaced and no answer is lost, no chat and no panel
\* gets a message twice, however often it is sent again.
THEOREM QueuesSendOnce == QueuesSpec => []SentOnce
<1>1. Spec => [](Gentle => OncePerPanel)
  BY QueuesAssumed, SplitOncePerPanel
<1>2. Page!Spec => [](Page!Mishaps \cap {"stop", "lost"} = {} => Page!NeverTwice)
  BY QueuesAssumed, Page!NoMessageTwice
<1>3. /\ Gentle => OncePerPanel
      /\ Page!Mishaps \cap {"stop", "lost"} = {} => Page!NeverTwice
      => SentOnce
  BY ChatAgrees DEF SentOnce, Never, Gentle, Mishaps, Page!Mishaps
<1> QED BY QueuesRun, <1>1, <1>2, <1>3, PTL

\* The queue starts no turn beside another of the same chat or panel, nor in a panel
\* that has its message: where no connection drops, no answer is lost, and nothing is
\* stopped or replaced.
THEOREM QueuesTurns == QueuesSpec => []TurnsApart
<1>1. Spec => [](NoReplace => TurnsDoNotMix) /\ [](Gentle => RetryIsExact)
  BY QueuesAssumed, SplitTurnsDoNotMix, SplitRetryIsExact
<1>2. Page!Spec => [](Page!Mishaps \subseteq {"command", "fail", "refuse"} => Page!NoOverlap)
  BY QueuesAssumed, Page!TurnsRunAlone
<1>3. /\ NoReplace => TurnsDoNotMix
      /\ Gentle => RetryIsExact
      /\ Page!Mishaps \subseteq {"command", "fail", "refuse"} => Page!NoOverlap
      => TurnsApart
  BY ChatAgrees DEF TurnsApart, Never, Only, NoReplace, Gentle, Mishaps, Page!Mishaps
<1> QED BY QueuesRun, <1>1, <1>2, <1>3, PTL

\* Behind a turn that failed, was refused or dropped nothing leaves a queue before the
\* user resumes it; on a split screen, when every message is for one panel and no answer
\* is lost.
THEOREM QueuesHold == QueuesSpec => BreaksHold
<1>1. Spec => [][Gentle /\ OneEach => LeavesUnbroken]_vars
  BY QueuesAssumed, SplitBreakHolds
<1>2. Page!Spec => [][Page!Orderly => Page!LeavesUnbroken]_Page!vars
  BY QueuesAssumed, Page!BreakIsHeld
<1>3. /\ [Gentle /\ OneEach => LeavesUnbroken]_vars
      /\ [Page!Orderly => Page!LeavesUnbroken]_Page!vars
      => [Unbroken]_allVars
  <2>1. (\A sides \in plan.targets : sides \in {{"left"}, {"right"}}) => OneEach
    BY DEF OneEach, Solo, Sides, Targets
  <2>2. Never({"stop", "replace", "lost"}) => Gentle
    BY DEF Never, Gentle, Mishaps
  <2>3. UNCHANGED vars => ~(dispatch'.turn # dispatch.turn)
    BY DEF vars, queue
  <2>4. UNCHANGED Page!vars => ~(sending'.by # sending.by)
    BY DEF Page!vars, Page!queue
  <2>5. /\ Page!LeavesUnbroken => Chat!LeavesUnbroken
        /\ ~(sending'.by # sending.by) => Chat!LeavesUnbroken
    BY ChatAgrees DEF Chat!LeavesUnbroken
  <2>6. Only({"command", "fail", "refuse", "drop"}) => Page!Orderly
    BY DEF Only, Page!Orderly, Page!Mishaps
  <2>7. ~(dispatch'.turn # dispatch.turn) => LeavesUnbroken
    BY DEF LeavesUnbroken
  <2> QED BY <2>1, <2>2, <2>3, <2>4, <2>5, <2>6, <2>7 DEF Unbroken, OnePanel
<1> QED BY QueuesRun, <1>1, <1>2, <1>3, PTL DEF BreaksHold
=============================================================================
