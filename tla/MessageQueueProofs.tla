------------------------- MODULE MessageQueueProofs -------------------------
(***************************************************************************)
(* Proofs about MessageQueue, for any number of messages, requests and     *)
(* chats, any plans and any budget: types, no message is dropped, none is sent twice, *)
(* each stays in its chat, nothing leaves a queue behind a broken turn, and*)
(* turns do not overlap.  Every action is read once, into what a step does *)
(* (Effect) and whether it keeps the turns in order (Turn).                *)
(***************************************************************************)
EXTENDS MessageQueue, TLAPS, SequenceTheorems, WellFoundedInduction, FiniteSetTheorems

-----------------------------------------------------------------------------
(* Sequences, and the queue as a value. *)

\* What a sequence holds.
In(s) == {s[k] : k \in 1..Len(s)}
Distinct(s) == \A j, k \in 1..Len(s) : s[j].msg = s[k].msg => j = k

\* A set of numbers that is not empty has a least one.
LEMMA Least ==
  ASSUME NEW I \in SUBSET Nat, I # {}
  PROVE  Min(I) \in I
<1> DEFINE T == {1..i : i \in I}
           F == FiniteSubsetsOf(Nat)
<1>1. IsWellFoundedOn(StrictSubsetOrdering(Nat), F)
  BY FS_StrictSubsetOrderingWellFounded
<1>2. T \subseteq F
  BY FS_Interval DEF FiniteSubsetsOf
<1>3. PICK X \in T : \A Y \in T : <<Y, X>> \notin StrictSubsetOrdering(Nat)
  <2> HIDE DEF T, F
  <2>1. T # {} BY DEF T
  <2> QED BY <1>1, <1>2, <2>1, WFMin
<1>4. PICK x \in I : X = 1..x
  OBVIOUS
<1>5. ASSUME NEW y \in I, y < x PROVE FALSE
  <2>1. 1..y \subseteq 1..x /\ x \in 1..x /\ x \notin 1..y
    BY <1>5
  <2>2. <<1..y, 1..x>> \in StrictSubsetOrdering(Nat)
    BY <2>1 DEF StrictSubsetOrdering
  <2>3. 1..y \in T
    OBVIOUS
  <2> QED BY <1>3, <1>4, <2>2, <2>3 DEF StrictSubsetOrdering
<1>6. \A y \in I : x =< y BY <1>5
<1> QED BY <1>6 DEF Min


\* What is in a sequence after an element was appended.
LEMMA AppendIs ==
    ASSUME NEW S, NEW s \in Seq(S), NEW e \in S
    PROVE  /\ Append(s, e) \in Seq(S) /\ Len(Append(s, e)) = Len(s) + 1
           /\ In(Append(s, e)) = In(s) \cup {e}
           /\ \A k \in 1..Len(s) : Append(s, e)[k] = s[k]
           /\ Append(s, e)[Len(s) + 1] = e
           /\ Distinct(s) /\ (\A i \in In(s) : i.msg # e.msg) => Distinct(Append(s, e))
<1> DEFINE t == Append(s, e)
<1>1. /\ t \in Seq(S) /\ Len(t) = Len(s) + 1 /\ Len(s) \in Nat
      /\ t[Len(s) + 1] = e /\ \A k \in 1..Len(s) : t[k] = s[k]
  BY AppendProperties, LenProperties
<1>2. 1..Len(t) = 1..Len(s) \cup {Len(s) + 1}
  BY <1>1
<1> HIDE DEF t
<1>3. In(t) = In(s) \cup {e}
  <2>1. \A k \in 1..Len(t) : t[k] \in In(s) \cup {e}
    BY <1>1, <1>2 DEF In
  <2>2. \A k \in 1..Len(s) : s[k] \in In(t)
    BY <1>1, <1>2 DEF In
  <2>3. e \in In(t)
    BY <1>1, <1>2 DEF In
  <2> QED BY <2>1, <2>2, <2>3 DEF In
<1>4. Distinct(s) /\ (\A i \in In(s) : i.msg # e.msg) => Distinct(t)
  BY <1>1, <1>2 DEF Distinct, In
<1> QED BY <1>1, <1>3, <1>4 DEF t

\* RemoveAt takes one element out and closes the gap.
LEMMA RemoveIs ==
    ASSUME NEW S, NEW s \in Seq(S), NEW n \in 1..Len(s)
    PROVE  /\ RemoveAt(s, n) \in Seq(S) /\ Len(RemoveAt(s, n)) = Len(s) - 1
           /\ \A i \in 1..Len(s)-1 : RemoveAt(s, n)[i] = IF i < n THEN s[i] ELSE s[i+1]
<1> DEFINE a == SubSeq(s, 1, n-1)
           b == SubSeq(s, n+1, Len(s))
<1>1. a \in Seq(S) /\ Len(a) = n-1 /\ \A i \in 1..n-1 : a[i] = s[i]
  BY SubSeqProperties, ElementOfSeq
<1>2. b \in Seq(S) /\ Len(b) = Len(s)-n /\ \A i \in 1..Len(s)-n : b[i] = s[i+n]
  <2>1. Len(s) \in Nat
    BY LenProperties
  <2>2. \A i \in n+1..Len(s) : s[i] \in S
    BY ElementOfSeq
  <2> QED BY <2>1, <2>2, SubSeqProperties
<1>3. RemoveAt(s, n) = a \o b
  BY DEF RemoveAt
<1> HIDE DEF a, b
<1>4. /\ a \o b \in Seq(S) /\ Len(a \o b) = Len(a) + Len(b)
      /\ \A i \in 1 .. Len(a) + Len(b) : (a \o b)[i] = IF i <= Len(a) THEN a[i] ELSE b[i - Len(a)]
  BY <1>1, <1>2, ConcatProperties
<1>5. Len(s) \in Nat
  BY LenProperties
<1>6. Len(a) + Len(b) = Len(s) - 1
  BY <1>1, <1>2, <1>5
<1>7. ASSUME NEW i \in 1..Len(s)-1 PROVE (a \o b)[i] = IF i < n THEN s[i] ELSE s[i+1]
  <2>1. CASE i < n
    BY <1>1, <1>4, <1>5, <1>6, <2>1
  <2>2. CASE ~(i < n)
    <3>1. (a \o b)[i] = b[i - (n-1)]
      BY <1>1, <1>4, <1>5, <1>6, <2>2
    <3>2. i - (n-1) \in 1..Len(s)-n /\ (i - (n-1)) + n = i + 1
      BY <1>5, <2>2
    <3> QED BY <1>2, <1>5, <2>2, <3>1, <3>2
  <2> QED BY <2>1, <2>2
<1> QED BY <1>3, <1>4, <1>6, <1>7

\* Taking out the first match of a message leaves the others, and no other match when
\* the messages differ.
LEMMA RemoveMatchIs ==
    ASSUME NEW S, NEW s \in Seq(S), NEW m
    PROVE  LET t == RemoveFirstMatch(s, LAMBDA i : i.msg = m) IN
           /\ t \in Seq(S) /\ In(t) \subseteq In(s) /\ {i \in In(s) : i.msg # m} \subseteq In(t)
           /\ Distinct(s) => Distinct(t) /\ \A i \in In(t) : i.msg # m
<1> DEFINE I == {i \in 1..Len(s) : s[i].msg = m}
           t == RemoveFirstMatch(s, LAMBDA i : i.msg = m)
<1>a. Len(s) \in Nat
  BY LenProperties
<1>1. CASE I = {}
  <2>1. t = s
    BY <1>1 DEF RemoveFirstMatch
  <2> QED BY <1>1, <2>1 DEF In
<1>2. CASE I # {}
  <2>1. SelectInSeq(s, LAMBDA i : i.msg = m) = Min(I)
    BY <1>2 DEF SelectInSeq
  <2>2. PICK n \in I : t = RemoveAt(s, n)
    <3>1. Min(I) \in I
      BY <1>2, Least
    <3> QED BY <2>1, <3>1 DEF RemoveFirstMatch
  <2> HIDE DEF t
  <2>3. /\ t \in Seq(S) /\ Len(t) = Len(s) - 1 /\ n \in 1..Len(s) /\ s[n].msg = m
        /\ \A i \in 1..Len(t) : t[i] = IF i < n THEN s[i] ELSE s[i+1]
    BY <2>2, RemoveIs
  <2>4. In(t) \subseteq In(s)
    BY <1>a, <2>3 DEF In
  <2>5. ASSUME NEW k \in 1..Len(s), s[k].msg # m PROVE s[k] \in In(t)
    <3>1. CASE k < n
      BY <1>a, <2>3, <3>1 DEF In
    <3>2. CASE k > n
      <4>1. k - 1 \in 1..Len(t) /\ t[k - 1] = s[k]
        BY <1>a, <2>3, <3>2
      <4> QED BY <4>1 DEF In
    <3> QED BY <1>a, <2>3, <2>5, <3>1, <3>2
  <2>6. ASSUME Distinct(s) PROVE Distinct(t) /\ \A i \in In(t) : i.msg # m
    <3>1. Distinct(t)
      BY <1>a, <2>3, <2>6 DEF Distinct
    <3>2. \A i \in 1..Len(t) : t[i].msg # m
      BY <1>a, <2>3, <2>6 DEF Distinct
    <3> QED BY <3>1, <3>2 DEF In
  <2> QED BY <2>3, <2>4, <2>5, <2>6 DEF In, t
<1> QED BY <1>1, <1>2

\* The first element moved to the end: the same elements.
LEMMA RotateIs ==
    ASSUME NEW S, NEW s \in Seq(S), s # <<>>
    PROVE  LET t == Append(Tail(s), Head(s)) IN
           t \in Seq(S) /\ In(t) = In(s) /\ t # <<>> /\ (Distinct(s) => Distinct(t))
<1> DEFINE n == Len(s)
           t == Append(Tail(s), Head(s))
<1>a. n \in Nat \ {0}
  BY EmptySeq, LenProperties
<1>1. Head(s) = s[1] /\ Head(s) \in S
  BY HeadTailProperties
<1>2. /\ Tail(s) \in Seq(S) /\ Len(Tail(s)) = n - 1
      /\ \A i \in 1..n-1 : Tail(s)[i] = s[i+1]
  BY HeadTailProperties
<1>3. /\ t \in Seq(S) /\ t # <<>> /\ Len(t) = n
      /\ \A k \in 1..n-1 : t[k] = s[k+1]
  BY <1>a, <1>1, <1>2, AppendProperties
<1>4. t[n] = s[1]
  <2>1. t[Len(Tail(s)) + 1] = Head(s)
    BY <1>1, <1>2, AppendProperties
  <2> QED BY <1>1, <1>2, <2>1
<1> HIDE DEF t
<1>5. \A k \in 1..n : t[k] = s[IF k = n THEN 1 ELSE k+1]
  BY <1>a, <1>3, <1>4
<1>6. In(t) \subseteq In(s)
  BY <1>a, <1>3, <1>5 DEF In
<1>7. In(s) \subseteq In(t)
  <2>1. ASSUME NEW k \in 1..n PROVE s[k] \in In(t)
    <3>1. CASE k = 1
      BY <1>a, <1>3, <1>4, <3>1 DEF In
    <3>2. CASE k # 1
      <4>1. k - 1 \in 1..n-1 /\ t[k - 1] = s[k]
        BY <1>a, <1>3, <3>2
      <4> QED BY <1>a, <1>3, <4>1 DEF In
    <3> QED BY <3>1, <3>2
  <2> QED BY <2>1 DEF In
<1>8. Distinct(s) => Distinct(t)
  BY <1>a, <1>3, <1>5 DEF Distinct
<1> QED BY <1>3, <1>6, <1>7, <1>8 DEF t

-----------------------------------------------------------------------------
\* The types of the parts of a queue.
ItemRec == [msg : Messages, chat : Chats, origin : Gens \cup {None}]
DispatchRec == [by : Gens \cup {None}, accepted : BOOLEAN]

Renamed(s, t) == /\ Len(t) = Len(s)
                 /\ \A k \in 1..Len(s) : /\ t[k].msg = s[k].msg
                                         /\ s[k].chat # Blank => t[k] = s[k]

\* The fields of a queue.
LEMMA QueueIs ==
    \A q : q \in Queue <=>
        /\ q = [items |-> q.items, paused |-> q.paused, dispatch |-> q.dispatch,
                handoff |-> q.handoff]
        /\ q.items \in Seq(ItemRec) /\ q.paused \in BOOLEAN
        /\ q.dispatch \in DispatchRec /\ q.handoff \in BOOLEAN
<1> DEFINE I == Seq(ItemRec)
           D == DispatchRec
<1>1. Queue = [items : I, paused : BOOLEAN, dispatch : D, handoff : BOOLEAN]
  BY DEF Queue, ItemRec, DispatchRec
<1> HIDE DEF I, D
<1>2. \A q : q \in [items : I, paused : BOOLEAN, dispatch : D, handoff : BOOLEAN] <=>
        /\ q = [items |-> q.items, paused |-> q.paused, dispatch |-> q.dispatch,
                handoff |-> q.handoff]
        /\ q.items \in I /\ q.paused \in BOOLEAN
        /\ q.dispatch \in D /\ q.handoff \in BOOLEAN
  OBVIOUS
<1> QED BY <1>1, <1>2 DEF I, D

\* NoDispatch waits for no request.
LEMMA NothingWaits == NoDispatch \in DispatchRec /\ NoDispatch.by = None /\ ~NoDispatch.accepted
  BY DEF NoDispatch, DispatchRec

\* A queue with another `paused`.
LEMMA PausedIs ==
    ASSUME NEW q \in Queue, NEW b \in BOOLEAN
    PROVE  LET p == [q EXCEPT !.paused = b] IN
           p \in Queue /\ p.paused = b /\ p.items = q.items /\ p.dispatch = q.dispatch /\
             p.handoff = q.handoff
  BY DEF Queue

\* A queue with another `dispatch`.
LEMMA DispatchIs ==
    ASSUME NEW q \in Queue, NEW d \in DispatchRec
    PROVE  LET p == [q EXCEPT !.dispatch = d] IN
           p \in Queue /\ p.dispatch = d /\ p.items = q.items /\ p.handoff = q.handoff /\
             p.paused = q.paused
  BY DEF Queue, DispatchRec

\* What Redrawn changes.
LEMMA RedrawnIs ==
    ASSUME NEW q \in Queue
    PROVE  LET p == Redrawn(q) IN
           p \in Queue /\ p.paused = (q.paused /\ q.items # <<>>) /\ p.items = q.items /\
             p.dispatch = q.dispatch /\ p.handoff = q.handoff
<1> DEFINE b == q.paused /\ q.items # <<>>
<1>1. b \in BOOLEAN
  OBVIOUS
<1>2. Redrawn(q) = [q EXCEPT !.paused = b]
  BY DEF Redrawn
<1> HIDE DEF b
<1>3. LET p == [q EXCEPT !.paused = b] IN
      p \in Queue /\ p.paused = b /\ p.items = q.items /\ p.dispatch = q.dispatch /\
        p.handoff = q.handoff
  BY <1>1, PausedIs
<1> QED BY <1>2, <1>3 DEF b

\* What Halt changes.
LEMMA HaltIs ==
    ASSUME NEW q \in Queue
    PROVE  LET p == Halt(q) IN
           p \in Queue /\ p.paused = (q.items # <<>>) /\ p.items = q.items /\
             p.dispatch = q.dispatch /\ p.handoff = q.handoff
<1> DEFINE h == [q EXCEPT !.paused = TRUE]
<1>1. h \in Queue /\ h.paused = TRUE /\ h.items = q.items /\ h.dispatch = q.dispatch /\
      h.handoff = q.handoff
  BY PausedIs
<1>2. Halt(q) = Redrawn(h)
  BY DEF Halt
<1> HIDE DEF h
<1> QED BY <1>1, <1>2, RedrawnIs

\* What Released changes.
LEMMA ReleasedIs ==
    ASSUME NEW q \in Queue
    PROVE  LET p == Released(q) IN
           /\ p \in Queue /\ p.paused = (q.paused /\ q.items # <<>>)
           /\ p.dispatch = NoDispatch /\ p.items = q.items /\ p.handoff = q.handoff
<1> DEFINE h == [q EXCEPT !.dispatch = NoDispatch]
<1>1. h \in Queue /\ h.dispatch = NoDispatch /\ h.items = q.items /\ h.handoff = q.handoff /\
      h.paused = q.paused
  BY DispatchIs, NothingWaits
<1>2. Released(q) = Redrawn(h)
  BY DEF Released
<1> HIDE DEF h
<1> QED BY <1>1, <1>2, RedrawnIs

\* What Scheduled changes.
LEMMA ScheduledIs ==
    ASSUME NEW q \in Queue
    PROVE  /\ Scheduled(q) \in Queue /\ Scheduled(q).items = q.items
           /\ Scheduled(q).dispatch = q.dispatch /\ Scheduled(q).paused = q.paused
           /\ Scheduled(q).handoff = (q.handoff \/ q.items # <<>>)
<1>1. /\ q = [items |-> q.items, paused |-> q.paused, dispatch |-> q.dispatch,
              handoff |-> q.handoff]
      /\ q.items \in Seq(ItemRec) /\ q.paused \in BOOLEAN
      /\ q.dispatch \in DispatchRec /\ q.handoff \in BOOLEAN
  BY QueueIs
<1> DEFINE t == [items |-> q.items, paused |-> q.paused, dispatch |-> q.dispatch,
                 handoff |-> q.handoff \/ q.items # <<>>]
<1>2. Scheduled(q) = t
  BY <1>1 DEF Scheduled
<1>3. t \in Queue
  <2>1. t.items \in Seq(ItemRec) /\ t.paused \in BOOLEAN /\ t.dispatch \in DispatchRec /\
        t.handoff \in BOOLEAN
    BY <1>1, NothingWaits
  <2> QED BY <2>1, QueueIs
<1> QED BY <1>2, <1>3

\* What Without changes: at most the first item of that message leaves.
LEMMA WithoutIs ==
    ASSUME NEW q \in Queue, NEW m
    PROVE
        /\ Without(q, m) \in Queue
        /\ In(Without(q, m).items) \subseteq In(q.items)
        /\ \A i \in In(q.items) : i.msg # m => i \in In(Without(q, m).items)
        /\ Distinct(q.items) => /\ Distinct(Without(q, m).items)
                                /\ \A i \in In(Without(q, m).items) : i.msg # m
        /\ Without(q, m).dispatch = q.dispatch /\ Without(q, m).handoff = q.handoff
        /\ Without(q, m).paused = (q.paused /\ Without(q, m).items # <<>>)
<1> DEFINE s == q.items
           t == RemoveFirstMatch(s, LAMBDA i : i.msg = m)
<1>1. s \in Seq(ItemRec)
  BY QueueIs
<1>2. /\ t \in Seq(ItemRec) /\ In(t) \subseteq In(s) /\ {i \in In(s) : i.msg # m} \subseteq In(t)
      /\ Distinct(s) => Distinct(t) /\ \A i \in In(t) : i.msg # m
  BY <1>1, RemoveMatchIs
<1> HIDE DEF t
<1>3. [q EXCEPT !.items = t] = [items |-> t, paused |-> q.paused, dispatch |-> q.dispatch,
                                handoff |-> q.handoff]
  BY QueueIs
<1>4. Without(q, m) = [items |-> t, paused |-> q.paused /\ t # <<>>, dispatch |-> q.dispatch,
                       handoff |-> q.handoff]
  <2>1. Without(q, m) = Redrawn([q EXCEPT !.items = t])
    BY DEF Without, t
  <2> QED BY <1>3, <2>1 DEF Redrawn
<1>5. Without(q, m) \in Queue
  BY <1>2, <1>4, QueueIs
<1> QED BY <1>2, <1>4, <1>5

\* What Promoted changes: only items without a chat get one.
LEMMA PromotedIs ==
    ASSUME page.chat \in Chats, NEW q \in Queue, NEW g
    PROVE  /\ Promoted(q, g) \in Queue
           /\ Renamed(q.items, Promoted(q, g).items)
           /\ Promoted(q, g).dispatch = q.dispatch /\ Promoted(q, g).handoff = q.handoff
           /\ Promoted(q, g).paused = q.paused
<1>1. q.items \in Seq(ItemRec) /\ DOMAIN q.items = 1..Len(q.items)
      /\ \A k \in 1..Len(q.items) : q.items[k] \in ItemRec
  BY QueueIs, LenProperties, ElementOfSeq
<1>2. CASE page.chat = Blank
  BY <1>2 DEF Promoted, Renamed
<1>3. CASE page.chat # Blank
  <2> DEFINE new(k) == IF q.items[k].chat = Blank /\ q.items[k].origin = g
                       THEN [q.items[k] EXCEPT !.chat = page.chat] ELSE q.items[k]
             t == [k \in 1..Len(q.items) |-> new(k)]
  <2>1. \A k \in 1..Len(q.items) : /\ new(k) \in ItemRec /\ new(k).msg = q.items[k].msg
                                   /\ q.items[k].chat # Blank => new(k) = q.items[k]
    BY <1>1 DEF ItemRec
  <2> HIDE DEF new
  <2>2. t \in Seq(ItemRec) /\ Len(t) = Len(q.items)
    BY <2>1, <1>1, LenProperties
  <2>3. Promoted(q, g) = [q EXCEPT !.items = t]
    BY <1>1, <1>3 DEF Promoted, new
  <2> HIDE DEF t
  <2>4. Promoted(q, g) = [items |-> t, paused |-> q.paused, dispatch |-> q.dispatch,
                          handoff |-> q.handoff]
    BY <2>3, QueueIs
  <2>5. Promoted(q, g) \in Queue
    BY <2>2, <2>4, QueueIs
  <2>6. Renamed(q.items, t)
    BY <2>1, <2>2 DEF Renamed, t
  <2> QED BY <2>4, <2>5, <2>6
<1> QED BY <1>2, <1>3

\* Items that only learnt their chat are the same messages.
LEMMA RenamedKeeps ==
    ASSUME NEW s \in Seq(ItemRec), NEW t \in Seq(ItemRec), Renamed(s, t)
    PROVE  /\ (t = <<>>) = (s = <<>>)
           /\ Distinct(s) => Distinct(t)
           /\ \A i \in In(s) : \E j \in In(t) : j.msg = i.msg
           /\ \A i \in In(t) : \E j \in In(s) : j.msg = i.msg
<1>1. Len(s) = Len(t) /\ Len(s) \in Nat
  BY LenProperties DEF Renamed
<1>2. (t = <<>>) = (s = <<>>)
  BY <1>1, EmptySeq
<1>3. Distinct(s) => Distinct(t)
  BY <1>1 DEF Renamed, Distinct
<1>4. \A i \in In(s) : \E j \in In(t) : j.msg = i.msg
  BY <1>1 DEF Renamed, In
<1>5. \A i \in In(t) : \E j \in In(s) : j.msg = i.msg
  BY <1>1 DEF Renamed, In
<1> QED BY <1>2, <1>3, <1>4, <1>5

\* What the end of a generation does to the queue.
LEMMA TerminalIs ==
    ASSUME page.chat \in Chats, NEW q \in Queue, NEW g, NEW status
    PROVE  LET t == Terminal(q, g, status)
               free == q.dispatch = NoDispatch \/ Waits(q, g)
           IN  /\ t \in Queue /\ Renamed(q.items, t.items)
               /\ ~free => t = q
               /\ free => t.dispatch = NoDispatch
               /\ free /\ status = "finished" =>
                     t.paused = (q.paused /\ (q.dispatch = NoDispatch \/ q.items # <<>>))
               /\ free /\ status # "finished" /\ q.items # <<>> => t.paused
               /\ (q.paused => q.items # <<>>) => (t.paused => t.items # <<>>)
<1> DEFINE f == IF q.dispatch = NoDispatch THEN Promoted(q, g) ELSE Released(q)
<1>1. /\ f \in Queue /\ Renamed(q.items, f.items) /\ f.dispatch = NoDispatch
      /\ f.paused = (q.paused /\ (q.dispatch = NoDispatch \/ q.items # <<>>))
      /\ (f.items = <<>>) = (q.items = <<>>)
  <2>1. CASE q.dispatch = NoDispatch
    <3>1. f = Promoted(q, g)
      BY <2>1
    <3> HIDE DEF f
    <3>2. f \in Queue /\ Renamed(q.items, f.items) /\ f.dispatch = NoDispatch /\ f.paused = q.paused
      BY <2>1, <3>1, PromotedIs
    <3>3. q.items \in Seq(ItemRec) /\ f.items \in Seq(ItemRec) /\ q.paused \in BOOLEAN
      BY <3>2, QueueIs
    <3>4. (f.items = <<>>) = (q.items = <<>>)
      BY <3>2, <3>3, RenamedKeeps
    <3> QED BY <2>1, <3>2, <3>3, <3>4
  <2>2. CASE q.dispatch # NoDispatch
    <3>1. f = Released(q)
      BY <2>2
    <3>2. Renamed(q.items, q.items)
      BY DEF Renamed
    <3> QED BY <2>2, <3>1, <3>2, ReleasedIs
  <2> QED BY <2>1, <2>2
<1> HIDE DEF f
<1> DEFINE t == Terminal(q, g, status)
<1>2. t = IF q.dispatch # NoDispatch /\ ~Waits(q, g) THEN q
          ELSE IF status = "finished" THEN Scheduled(f)
          ELSE IF f.items # <<>> THEN Halt(f) ELSE f
  BY DEF Terminal, f
<1> HIDE DEF t
<1>3. CASE q.dispatch # NoDispatch /\ ~Waits(q, g)
  <2>1. t = q /\ Renamed(q.items, q.items)
    BY <1>2, <1>3 DEF Renamed
  <2> QED BY <1>3, <2>1 DEF t
<1>4. CASE ~(q.dispatch # NoDispatch /\ ~Waits(q, g)) /\ status = "finished"
  <2>1. t = Scheduled(f)
    BY <1>2, <1>4
  <2>2. t \in Queue /\ t.items = f.items /\ t.dispatch = NoDispatch /\ t.paused = f.paused
    BY <1>1, <2>1, ScheduledIs
  <2> QED BY <1>1, <1>4, <2>2 DEF t
<1>5. CASE ~(q.dispatch # NoDispatch /\ ~Waits(q, g)) /\ status # "finished"
  <2>1. t = IF f.items # <<>> THEN Halt(f) ELSE f
    BY <1>2, <1>5
  <2>2. t \in Queue /\ t.items = f.items /\ t.dispatch = NoDispatch
    BY <1>1, <2>1, HaltIs
  <2>3. f.items # <<>> => t.paused
    BY <1>1, <2>1, HaltIs
  <2>4. f.items = <<>> => t.paused = f.paused
    BY <2>1
  <2> QED BY <1>1, <1>5, <2>2, <2>3, <2>4 DEF t
<1> QED BY <1>3, <1>4, <1>5

-----------------------------------------------------------------------------
(* Requests, and what a request that begins changes. *)

\* The types of the parts of a page and of a request.
Page == [chat : Chats, own : Gens \cup {None}, busy : BOOLEAN, loading : BOOLEAN,
         probing : BOOLEAN]
Ats == {"asked", "reading", "ended", "settling", "settled"}
Statuses == {"interrupted", "error", "finished"}
Request == [gen : Gens, msg : Messages \cup {None}, by : {"queue", "user", "attach"},
            chat : Chats, at : Ats, accepted : BOOLEAN, notified : BOOLEAN,
            cancelled : BOOLEAN, status : Statuses]

\* Request r of the readers is replaced, the others stay.
Replaced(rd, r, e) == /\ rd \in Seq(Request) /\ Len(rd) = Len(reader)
                      /\ \A k \in 1..Len(reader) : rd[k] = IF k = r THEN e ELSE reader[k]

\* A sequence with one element replaced.
LEMMA ReplacedIs ==
    ASSUME reader \in Seq(Request), NEW r \in 1..Len(reader), NEW e \in Request,
           NEW rd, rd = [reader EXCEPT ![r] = e]
    PROVE  Replaced(rd, r, e)
  BY ExceptSeq DEF Replaced

\* What stays of a request whatever happens to it.
Same(e, f) == e.gen = f.gen /\ e.msg = f.msg /\ e.by = f.by

\* A request that is cut off.
LEMMA CancelIs ==
    ASSUME reader \in Seq(Request), NEW r \in 1..Len(reader)
    PROVE  \E e \in Request : /\ Replaced([reader EXCEPT ![r].cancelled = TRUE], r, e) /\
                                    Same(e, reader[r])
                             /\ e.at = reader[r].at /\ e.accepted = reader[r].accepted /\
                                   e.notified = reader[r].notified /\ e.cancelled = TRUE /\
                                     e.status = reader[r].status /\ e.chat = reader[r].chat
<1> DEFINE f == [reader[r] EXCEPT !.cancelled = TRUE]
<1>1. reader[r] \in Request
  BY ElementOfSeq
<1>2. f \in Request /\ Same(f, reader[r]) /\ f.at = reader[r].at /\
      f.accepted = reader[r].accepted /\ f.notified = reader[r].notified /\ f.cancelled = TRUE /\
        f.status = reader[r].status /\ f.chat = reader[r].chat
  BY <1>1 DEF Request, Same, Ats, Statuses
<1>3. [reader EXCEPT ![r].cancelled = TRUE] = [reader EXCEPT ![r] = f]
  BY LenProperties
<1> HIDE DEF f
<1>4. Replaced([reader EXCEPT ![r].cancelled = TRUE], r, f)
  BY <1>2, <1>3, ReplacedIs
<1> QED BY <1>2, <1>4

\* A request whose reader ends.
LEMMA SettlingIs ==
    ASSUME reader \in Seq(Request), NEW r \in 1..Len(reader)
    PROVE  \E e \in Request : /\ Replaced(Settling(r), r, e) /\ Same(e, reader[r])
                             /\ e.at = "settling" /\ e.accepted = reader[r].accepted /\
                                   e.notified = TRUE /\ e.cancelled = reader[r].cancelled /\
                                     e.status = reader[r].status /\ e.chat = reader[r].chat
<1> DEFINE f == [reader[r] EXCEPT !.at = "settling", !.notified = TRUE]
<1>1. reader[r] \in Request
  BY ElementOfSeq
<1>2. f \in Request /\ Same(f, reader[r]) /\ f.at = "settling" /\ f.accepted = reader[r].accepted /\
      f.notified = TRUE /\ f.cancelled = reader[r].cancelled /\ f.status = reader[r].status /\
        f.chat = reader[r].chat
  BY <1>1 DEF Request, Same, Ats, Statuses
<1>3. Settling(r) = [reader EXCEPT ![r] = f]
  BY LenProperties DEF Settling
<1> HIDE DEF f
<1>4. Replaced(Settling(r), r, f)
  BY <1>2, <1>3, ReplacedIs
<1> QED BY <1>2, <1>4

\* A request that is answered.
LEMMA AnsweringIs ==
    ASSUME reader \in Seq(Request), NEW r \in 1..Len(reader)
    PROVE  \E e \in Request : /\ Replaced([reader EXCEPT ![r].at = "reading", ![r].accepted = TRUE],
                                    r, e) /\ Same(e, reader[r])
                             /\ e.at = "reading" /\ e.accepted = TRUE /\
                                   e.notified = reader[r].notified /\
                                     e.cancelled = reader[r].cancelled /\
                                       e.status = reader[r].status /\ e.chat = reader[r].chat
<1> DEFINE f == [reader[r] EXCEPT !.at = "reading", !.accepted = TRUE]
<1>1. reader[r] \in Request
  BY ElementOfSeq
<1>2. f \in Request /\ Same(f, reader[r]) /\ f.at = "reading" /\ f.accepted = TRUE /\
      f.notified = reader[r].notified /\ f.cancelled = reader[r].cancelled /\
        f.status = reader[r].status /\ f.chat = reader[r].chat
  BY <1>1 DEF Request, Same, Ats, Statuses
<1>3. [reader EXCEPT ![r].at = "reading", ![r].accepted = TRUE] = [reader EXCEPT ![r] = f]
  BY LenProperties
<1> HIDE DEF f
<1>4. Replaced([reader EXCEPT ![r].at = "reading", ![r].accepted = TRUE], r, f)
  BY <1>2, <1>3, ReplacedIs
<1> QED BY <1>2, <1>4

\* A request that learns its chat.
LEMMA NamingIs ==
    ASSUME reader \in Seq(Request), NEW r \in 1..Len(reader), NEW c \in Chats
    PROVE  \E e \in Request : /\ Replaced([reader EXCEPT ![r].chat = c], r, e) /\ Same(e, reader[r])
                             /\ e.at = reader[r].at /\ e.accepted = reader[r].accepted /\
                                   e.notified = reader[r].notified /\
                                     e.cancelled = reader[r].cancelled /\
                                       e.status = reader[r].status /\ e.chat = c
<1> DEFINE f == [reader[r] EXCEPT !.chat = c]
<1>1. reader[r] \in Request
  BY ElementOfSeq
<1>2. f \in Request /\ Same(f, reader[r]) /\ f.at = reader[r].at /\
      f.accepted = reader[r].accepted /\ f.notified = reader[r].notified /\
        f.cancelled = reader[r].cancelled /\ f.status = reader[r].status /\ f.chat = c
  BY <1>1 DEF Request, Same, Ats, Statuses
<1>3. [reader EXCEPT ![r].chat = c] = [reader EXCEPT ![r] = f]
  BY LenProperties
<1> HIDE DEF f
<1>4. Replaced([reader EXCEPT ![r].chat = c], r, f)
  BY <1>2, <1>3, ReplacedIs
<1> QED BY <1>2, <1>4

\* A request whose response is complete.
LEMMA FinishingIs ==
    ASSUME reader \in Seq(Request), NEW r \in 1..Len(reader)
    PROVE  \E e \in Request : /\ Replaced([reader EXCEPT ![r].at = "ended",
                                    ![r].status = "finished", ![r].notified = TRUE], r, e) /\
                                      Same(e, reader[r])
                             /\ e.at = "ended" /\ e.accepted = reader[r].accepted /\
                                   e.notified = TRUE /\ e.cancelled = reader[r].cancelled /\
                                     e.status = "finished" /\ e.chat = reader[r].chat
<1> DEFINE f == [reader[r] EXCEPT !.at = "ended", !.status = "finished", !.notified = TRUE]
<1>1. reader[r] \in Request
  BY ElementOfSeq
<1>2. f \in Request /\ Same(f, reader[r]) /\ f.at = "ended" /\ f.accepted = reader[r].accepted /\
      f.notified = TRUE /\ f.cancelled = reader[r].cancelled /\ f.status = "finished" /\
        f.chat = reader[r].chat
  BY <1>1 DEF Request, Same, Ats, Statuses
<1>3. [reader EXCEPT ![r].at = "ended", ![r].status = "finished",
      ![r].notified = TRUE] = [reader EXCEPT ![r] = f]
  BY LenProperties
<1> HIDE DEF f
<1>4. Replaced([reader EXCEPT ![r].at = "ended", ![r].status = "finished", ![r].notified = TRUE], r,
      f)
  BY <1>2, <1>3, ReplacedIs
<1> QED BY <1>2, <1>4

\* A request whose response failed.
LEMMA FailingIs ==
    ASSUME reader \in Seq(Request), NEW r \in 1..Len(reader)
    PROVE  \E e \in Request : /\ Replaced([reader EXCEPT ![r].at = "ended", ![r].status = "error"],
                                    r, e) /\ Same(e, reader[r])
                             /\ e.at = "ended" /\ e.accepted = reader[r].accepted /\
                                   e.notified = reader[r].notified /\
                                     e.cancelled = reader[r].cancelled /\ e.status = "error" /\
                                       e.chat = reader[r].chat
<1> DEFINE f == [reader[r] EXCEPT !.at = "ended", !.status = "error"]
<1>1. reader[r] \in Request
  BY ElementOfSeq
<1>2. f \in Request /\ Same(f, reader[r]) /\ f.at = "ended" /\ f.accepted = reader[r].accepted /\
      f.notified = reader[r].notified /\ f.cancelled = reader[r].cancelled /\ f.status = "error" /\
        f.chat = reader[r].chat
  BY <1>1 DEF Request, Same, Ats, Statuses
<1>3. [reader EXCEPT ![r].at = "ended", ![r].status = "error"] = [reader EXCEPT ![r] = f]
  BY LenProperties
<1> HIDE DEF f
<1>4. Replaced([reader EXCEPT ![r].at = "ended", ![r].status = "error"], r, f)
  BY <1>2, <1>3, ReplacedIs
<1> QED BY <1>2, <1>4

\* A request whose sender goes on.
LEMMA SettledIs ==
    ASSUME reader \in Seq(Request), NEW r \in 1..Len(reader)
    PROVE  \E e \in Request : /\ Replaced([reader EXCEPT ![r].at = "settled"], r, e) /\
                                    Same(e, reader[r])
                             /\ e.at = "settled" /\ e.accepted = reader[r].accepted /\
                                   e.notified = reader[r].notified /\
                                     e.cancelled = reader[r].cancelled /\
                                       e.status = reader[r].status /\ e.chat = reader[r].chat
<1> DEFINE f == [reader[r] EXCEPT !.at = "settled"]
<1>1. reader[r] \in Request
  BY ElementOfSeq
<1>2. f \in Request /\ Same(f, reader[r]) /\ f.at = "settled" /\ f.accepted = reader[r].accepted /\
      f.notified = reader[r].notified /\ f.cancelled = reader[r].cancelled /\
        f.status = reader[r].status /\ f.chat = reader[r].chat
  BY <1>1 DEF Request, Same, Ats, Statuses
<1>3. [reader EXCEPT ![r].at = "settled"] = [reader EXCEPT ![r] = f]
  BY LenProperties
<1> HIDE DEF f
<1>4. Replaced([reader EXCEPT ![r].at = "settled"], r, f)
  BY <1>2, <1>3, ReplacedIs
<1> QED BY <1>2, <1>4

\* The request as it is made.
Starts(e, by, m, g) ==
    /\ e.gen = g /\ e.msg = m /\ e.by = by /\ e.chat = page.chat /\ e.at = "asked"
    /\ ~e.accepted /\ ~e.notified /\ ~e.cancelled /\ e.status = "interrupted"

\* What Begin changes: one request more, which owns the page.
LEMMA BeginIs ==
    ASSUME QueueAssumption, page \in Page, NEW rd \in Seq(Request),
           NEW by \in {"queue", "user", "attach"}, NEW m \in Messages \cup {None}, NEW g \in Gens,
           Begin(rd, by, m, g)
    PROVE  /\ reader' \in Seq(Request) /\ Len(reader') = Len(rd) + 1 /\ Len(reader') <= MaxReaders
           /\ \A k \in 1..Len(rd) : reader'[k] = rd[k]
           /\ Starts(reader'[Len(rd) + 1], by, m, g)
           /\ page' \in Page /\ page'.chat = page.chat /\ page'.own = g /\ page'.busy = TRUE
           /\ page'.loading = page.loading /\ (page'.probing => page.probing)
           /\ by = "attach" => ~page'.probing
           /\ transport' = Len(rd) + 1 /\ transport' \in Gens
<1> DEFINE e == [gen |-> g, msg |-> m, by |-> by, chat |-> page.chat,
                 at |-> "asked", accepted |-> FALSE, notified |-> FALSE,
                 cancelled |-> FALSE, status |-> "interrupted"]
           b == page.probing /\ by # "attach"
<1>1. e \in Request
  BY DEF Request, Page, Ats, Statuses
<1>2. Len(rd) \in Nat /\ Len(rd) < MaxReaders /\ reader' = Append(rd, e) /\ transport' = Len(rd) + 1
  BY LenProperties DEF Begin
<1>3. page' = [page EXCEPT !.own = g, !.busy = TRUE, !.probing = b]
  BY DEF Begin
<1>4. b \in BOOLEAN
  OBVIOUS
<1>5. b => page.probing
  OBVIOUS
<1>6. by = "attach" => ~b
  OBVIOUS
<1>e. Starts(e, by, m, g)
  BY DEF Starts
<1> HIDE DEF e, b
<1>7. page' \in Page /\ page'.chat = page.chat /\ page'.own = g /\ page'.busy = TRUE
      /\ page'.loading = page.loading /\ page'.probing = b
  BY <1>3, <1>4 DEF Page
<1>8. /\ reader' \in Seq(Request) /\ Len(reader') = Len(rd) + 1 /\ reader'[Len(rd) + 1] = e
      /\ \A k \in 1..Len(rd) : reader'[k] = rd[k]
  BY <1>1, <1>2, AppendProperties
<1>9. transport' \in Gens /\ Len(reader') <= MaxReaders
  BY <1>2, <1>8 DEF Gens, QueueAssumption
<1> QED BY <1>2, <1>5, <1>6, <1>7, <1>8, <1>9, <1>e

\* A message is sent: the first one, and nothing else happens to the queue.
Sends(rd, q, force, draft) ==
    /\ q.items # <<>> /\ q.dispatch = NoDispatch /\ (q.paused => force) /\ ~page.busy /\ ~draft
    /\ q.items[1].chat = page.chat /\ paused' = q.paused
    /\ dispatch' = [by |-> Len(rd) + 1, accepted |-> FALSE]
    /\ Begin(rd, "queue", q.items[1].msg, Len(rd) + 1)

\* The queue after SetQueue.
LEMMA SetQueueIs ==
    ASSUME NEW q \in Queue, SetQueue(q)
    PROVE  /\ Q' \in Queue /\ items' = q.items /\ paused' = q.paused
           /\ dispatch' = q.dispatch /\ handoff' = q.handoff
<1>1. Q' = q
  BY QueueIs DEF Q, SetQueue
<1> QED BY <1>1 DEF SetQueue

\* ProcessNext sends the first message, or sends nothing and may pause.
LEMMA ProcessNextIs ==
    ASSUME QueueAssumption, NEW q \in Queue, q.paused => q.items # <<>>,
           NEW rd \in Seq(Request), NEW force, NEW draft, ProcessNext(rd, q, force, draft)
    PROVE  /\ Q' \in Queue /\ items' = q.items /\ handoff' = q.handoff
           /\ (q.paused => paused') /\ (paused' => items' # <<>>)
           /\ \/ dispatch' = q.dispatch /\ reader' = rd /\ page' = page /\ transport' = transport
              \/ Sends(rd, q, force, draft)
<1> DEFINE blocked == \/ q.dispatch # NoDispatch \/ (q.paused /\ ~force)
                      \/ page.busy \/ draft \/ q.items = <<>>
<1>1. CASE blocked /\ SetQueue(q) /\ reader' = rd /\ UNCHANGED <<page, transport>>
  BY <1>1, SetQueueIs
<1>2. CASE /\ ~blocked /\ q.items[1].chat # page.chat /\ SetQueue(Halt(q))
           /\ reader' = rd /\ UNCHANGED <<page, transport>>
  <2>1. Halt(q) \in Queue /\ Halt(q).items = q.items /\ Halt(q).dispatch = q.dispatch
        /\ Halt(q).handoff = q.handoff /\ Halt(q).paused = (q.items # <<>>)
    BY HaltIs
  <2> QED BY <1>2, <2>1, SetQueueIs
<1>3. CASE /\ ~blocked /\ q.items[1].chat = page.chat
           /\ Begin(rd, "queue", q.items[1].msg, Len(rd) + 1)
           /\ SetQueue([q EXCEPT !.dispatch = [by |-> Len(rd) + 1, accepted |-> FALSE]])
  <2> DEFINE d == [by |-> Len(rd) + 1, accepted |-> FALSE]
             p == [q EXCEPT !.dispatch = d]
  <2>1. Len(rd) < MaxReaders /\ Len(rd) \in Nat
    BY <1>3, LenProperties DEF Begin
  <2>2. d \in DispatchRec
    BY <2>1 DEF QueueAssumption, DispatchRec, Gens
  <2>3. p \in Queue /\ p.dispatch = d /\ p.items = q.items /\ p.handoff = q.handoff
        /\ p.paused = q.paused
    BY <2>2, DispatchIs
  <2>4. SetQueue(p)
    BY <1>3
  <2> HIDE DEF p, d
  <2>5. /\ Q' \in Queue /\ items' = q.items /\ paused' = q.paused
        /\ dispatch' = d /\ handoff' = q.handoff
    BY <2>3, <2>4, SetQueueIs
  <2>6. Sends(rd, q, force, draft)
    BY <1>3, <2>5 DEF Sends, d
  <2> QED BY <2>5, <2>6
<1> QED BY <1>1, <1>2, <1>3 DEF ProcessNext

-----------------------------------------------------------------------------
(* Types: the inductive invariant, and what every step keeps of them. *)

\* The inductive invariant about types: requests, queue, server, the rest.
Servers == [Gens -> [state : {"absent", "running", "stopping", "ok", "failed", "stopped"},
                     chat : Chats]]
ReaderT == /\ reader \in Seq(Request) /\ Len(reader) <= MaxReaders
           /\ \A r \in 1..Len(reader) :
                /\ reader[r].gen <= r
                /\ reader[r].by # "attach" => reader[r].gen = r /\ reader[r].msg # None
QueueT == /\ Q \in Queue /\ (paused => items # <<>>)
          /\ dispatch.by \in 0..Len(reader) /\ (dispatch.accepted => dispatch.by # None)
          /\ dispatch.by # None => reader[dispatch.by].by = "queue"
ServerT == server \in Servers /\ \A g \in Gens : server[g].state # "absent" => g <= Len(reader)
RestT == /\ typed \in 0..MaxMessages /\ home \in [Messages -> Chats]
         /\ page \in Page /\ transport \in 0..Len(reader) /\ drafting \in BOOLEAN
         /\ asking \subseteq Gens /\ thrown \subseteq Messages /\ broken \in BOOLEAN
         /\ spent \in 0..Budget
TypeInv == ReaderT /\ QueueT /\ ServerT /\ RestT

\* The strengthened types imply the types the runs check.
LEMMA TypeInvTypes == QueueAssumption /\ TypeInv /\ plan \in Plans => TypeOK
<1>a. SUFFICES ASSUME QueueAssumption, TypeInv, plan \in Plans PROVE TypeOK
  OBVIOUS
<1>1. Len(reader) \in 0..MaxReaders /\ Gens = 1..MaxReaders
  BY <1>a, LenProperties DEF TypeInv, ReaderT, Gens, QueueAssumption
<1>2. \A r \in 1..Len(reader) : reader[r] \in
         [gen : 1..r, msg : Messages \cup {None}, by : {"queue", "user", "attach"}, chat : Chats,
          at : {"asked", "reading", "ended", "settling", "settled"},
          accepted : BOOLEAN, notified : BOOLEAN, cancelled : BOOLEAN,
          status : {"interrupted", "error", "finished"}]
  <2>1. ASSUME NEW r \in 1..Len(reader) PROVE reader[r] \in Request /\ reader[r].gen \in 1..r
    <3>1. reader[r] \in Request /\ reader[r].gen <= r
      BY <1>a, ElementOfSeq DEF TypeInv, ReaderT
    <3>2. reader[r].gen \in Gens
      BY <3>1 DEF Request
    <3> QED BY <1>1, <3>1, <3>2
  <2> QED BY <2>1 DEF Request, Ats, Statuses
<1>3. transport \in Gens \cup {None}
  BY <1>a, <1>1 DEF TypeInv, ReaderT, RestT, QueueAssumption, None
<1>4. [items |-> items, paused |-> paused, dispatch |-> dispatch, handoff |-> handoff] \in Queue
      /\ (paused => items # <<>>)
  BY <1>a DEF TypeInv, QueueT, Q
<1> QED BY <1>a, <1>1, <1>2, <1>3, <1>4 DEF TypeInv, RestT, ServerT, Servers, Page, TypeOK

\* What a step keeps of every request.
Kept == /\ ReaderT' /\ Len(reader) <= Len(reader')
        /\ \A k \in 1..Len(reader) : Same(reader'[k], reader[k])

\* The requests are a sequence of requests.
LEMMA LengthIs == ReaderT => /\ Len(reader) \in Nat
                            /\ \A r \in 1..Len(reader) : reader[r] \in Request
  BY LenProperties, ElementOfSeq DEF ReaderT

\* Replacing a request keeps what stays of every request.
LEMMA ReplacedKeeps ==
    ASSUME ReaderT, NEW r \in 1..Len(reader), NEW e, Same(e, reader[r]), Replaced(reader', r, e)
    PROVE  Kept /\ Len(reader') = Len(reader)
<1>1. Len(reader) \in Nat /\ Len(reader') = Len(reader) /\ reader' \in Seq(Request)
      /\ \A k \in 1..Len(reader) : reader'[k] = IF k = r THEN e ELSE reader[k]
  BY LengthIs DEF Replaced
<1>2. \A k \in 1..Len(reader) : Same(reader'[k], reader[k])
  BY <1>1 DEF Same
<1> QED BY <1>1, <1>2 DEF Kept, ReaderT, Same

\* So does leaving the requests alone.
LEMMA StaysKept == ReaderT /\ reader' = reader => Kept
  BY LengthIs DEF ReaderT, Kept, Same

\* So does beginning one more.
LEMMA BegunKeeps ==
    ASSUME QueueAssumption, ReaderT, page \in Page,
           NEW rd \in Seq(Request), Len(rd) = Len(reader),
           \A k \in 1..Len(reader) : Same(rd[k], reader[k]),
           NEW by \in {"queue", "user", "attach"}, NEW m \in Messages \cup {None}, NEW g \in Gens,
           g <= Len(reader) + 1, by # "attach" => g = Len(reader) + 1 /\ m # None,
           Begin(rd, by, m, g)
    PROVE  Kept /\ page' \in Page /\ transport' \in 0..Len(reader') /\ transport' # None
           /\ Len(reader') = Len(reader) + 1
<1>1. /\ reader' \in Seq(Request) /\ Len(reader') = Len(rd) + 1 /\ Len(reader') <= MaxReaders
      /\ \A k \in 1..Len(rd) : reader'[k] = rd[k]
      /\ Starts(reader'[Len(rd) + 1], by, m, g)
      /\ page' \in Page /\ transport' = Len(rd) + 1
  BY BeginIs
<1>2. Len(reader) \in Nat
  BY LengthIs
<1>3. \A k \in 1..Len(reader) : Same(reader'[k], reader[k])
  BY <1>1, <1>2
<1>4. Len(reader') = Len(reader) + 1 /\ transport' = Len(reader) + 1
  BY <1>1
<1>5. ASSUME NEW k \in 1..Len(reader')
      PROVE  /\ reader'[k].gen <= k
             /\ reader'[k].by # "attach" => reader'[k].gen = k /\ reader'[k].msg # None
  <2>1. CASE k \in 1..Len(reader)
    BY <1>3, <2>1 DEF ReaderT, Same
  <2>2. CASE k = Len(reader) + 1
    BY <1>1, <2>2 DEF Starts
  <2> QED BY <1>2, <1>4, <2>1, <2>2
<1> QED BY <1>1, <1>2, <1>3, <1>4, <1>5 DEF Kept, ReaderT, None

\* The queue stays well-formed when its dispatch stays, ends or is accepted.
LEMMA QueueKept ==
    ASSUME QueueT, ReaderT, Kept, NEW q \in Queue, SetQueue(q), q.paused => q.items # <<>>,
           \/ q.dispatch = dispatch \/ q.dispatch = NoDispatch
           \/ q.dispatch.by = dispatch.by /\ dispatch.by # None
    PROVE  QueueT'
<1>1. /\ Q' \in Queue /\ items' = q.items /\ paused' = q.paused /\ dispatch' = q.dispatch
  BY SetQueueIs
<1>2. Len(reader) \in Nat /\ Len(reader') \in Nat
  BY LengthIs, LenProperties DEF Kept, ReaderT
<1>3. Q'.dispatch = dispatch'
  BY DEF Q
<1> QED BY <1>1, <1>2, NothingWaits DEF QueueT, Kept, Same, None

\* The queue stays well-formed when nothing in it changes.
LEMMA QueueStays ==
    ASSUME QueueT, ReaderT, Kept, UNCHANGED queue
    PROVE  QueueT'
<1>1. SetQueue(Q)
  BY DEF SetQueue, Q, queue
<1>2. Q \in Queue /\ Q.dispatch = dispatch /\ (Q.paused => Q.items # <<>>)
  BY DEF QueueT, Q
<1> QED BY <1>1, <1>2, QueueKept

\* What the server knows stays well-formed when nothing in it changes.
LEMMA ServerStays ==
    ASSUME ServerT, ReaderT, Kept, UNCHANGED server
    PROVE  ServerT'
<1>1. Len(reader) \in Nat /\ Len(reader') \in Nat
  BY LengthIs, LenProperties DEF Kept, ReaderT
<1> QED BY <1>1 DEF ServerT, Kept, Gens

\* Sending the next message, after request r has settled or not.
LEMMA NextKeeps ==
    ASSUME QueueAssumption, ReaderT, QueueT, page \in Page, transport \in 0..Len(reader),
           NEW q \in Queue, q.paused => q.items # <<>>, q.dispatch = dispatch,
           NEW rd \in Seq(Request), Len(rd) = Len(reader),
           \A k \in 1..Len(reader) : Same(rd[k], reader[k]),
           NEW force, NEW draft, ProcessNext(rd, q, force, draft)
    PROVE  Kept /\ QueueT' /\ page' \in Page /\ transport' \in 0..Len(reader')
<1>a. Len(reader) \in Nat
  BY LengthIs
<1>1. /\ Q' \in Queue /\ items' = q.items /\ handoff' = q.handoff
      /\ (q.paused => paused') /\ (paused' => items' # <<>>)
      /\ \/ dispatch' = q.dispatch /\ reader' = rd /\ page' = page /\ transport' = transport
         \/ Sends(rd, q, force, draft)
  BY ProcessNextIs
<1>2. CASE dispatch' = q.dispatch /\ reader' = rd /\ page' = page /\ transport' = transport
  <2>1. Kept
    BY <1>a, <1>2 DEF Kept, ReaderT, Same
  <2>2. Len(reader') = Len(reader) /\ \A k \in 1..Len(reader) : reader'[k].by = reader[k].by
    BY <1>2 DEF Same
  <2>3. QueueT'
    BY <1>a, <1>1, <1>2, <2>2 DEF QueueT, None
  <2> QED BY <1>2, <2>1, <2>2, <2>3
<1>3. CASE Sends(rd, q, force, draft)
  <2>1. q.items \in Seq(ItemRec) /\ q.items # <<>>
    BY <1>3, QueueIs DEF Sends
  <2>2. q.items[1].msg \in Messages
    <3>1. 1 \in 1..Len(q.items)
      BY <2>1, EmptySeq, LenProperties
    <3>2. q.items[1] \in ItemRec
      BY <2>1, <3>1, ElementOfSeq
    <3> QED BY <3>2 DEF ItemRec
  <2>3. Begin(rd, "queue", q.items[1].msg, Len(reader) + 1) /\ Len(reader) + 1 \in Gens
        /\ dispatch' = [by |-> Len(reader) + 1, accepted |-> FALSE]
    BY <1>a, <1>3 DEF Sends, Begin, Gens, QueueAssumption
  <2>4. q.items[1].msg # None
    BY <2>2 DEF Messages, None
  <2>5. Kept /\ page' \in Page /\ transport' \in 0..Len(reader') /\ Len(reader') = Len(reader) + 1
    BY <1>a, <2>2, <2>3, <2>4, BegunKeeps
  <2>6. reader'[Len(reader) + 1].by = "queue"
    <3>1. Begin(rd, "queue", q.items[1].msg, Len(rd) + 1) /\ Len(rd) + 1 \in Gens
      BY <2>3
    <3>2. Starts(reader'[Len(rd) + 1], "queue", q.items[1].msg, Len(rd) + 1)
      BY <2>2, <3>1, BeginIs
    <3> QED BY <3>2 DEF Starts
  <2> QED BY <1>a, <1>1, <2>3, <2>5, <2>6 DEF QueueT, None
<1> QED BY <1>1, <1>2, <1>3

-----------------------------------------------------------------------------
(* What a step does (Effect): to the items, the requests, the dispatch, the
   server and the page.  All later proofs read a step through it. *)

\* The messages of a sequence of items.
Msgs(s) == {i.msg : i \in In(s)}

\* The same messages, of which only those without a chat may have learnt one.
KeepsItems(s, t) ==
    /\ Msgs(t) = Msgs(s) /\ (Distinct(s) => Distinct(t))
    /\ \A i \in In(t) : i \in In(s) \/ \E j \in In(s) : j.chat = Blank /\ j.msg = i.msg

\* Message m has left.
Drops(s, t, m) ==
    /\ In(t) \subseteq In(s) /\ Msgs(s) \ {m} \subseteq Msgs(t)
    /\ Distinct(s) => Distinct(t) /\ m \notin Msgs(t)

\* The dispatched request k is answered, and its item leaves the queue.
Takes(k) == /\ dispatch.by = k /\ k # None /\ reader[k].at = "asked" /\ Sent(k)
            /\ dispatch' = [by |-> k, accepted |-> TRUE] /\ reader'[k].at = "reading"
            /\ Drops(items, items', reader[k].msg)

\* What a step does to the queue: nothing, a message joins or goes out past it, the user
\* removes one, or one is taken.
ItemsStep ==
    \/ UNCHANGED <<typed, home, thrown>> /\ KeepsItems(items, items')
    \/ /\ typed' = typed + 1 /\ home' = [home EXCEPT ![typed + 1] = Here] /\ thrown' = thrown
       /\ items' = Append(items, Item)
    \/ /\ typed' = typed + 1 /\ home' = [home EXCEPT ![typed + 1] = Here] /\ thrown' = thrown
       /\ items' = items /\ Len(reader') = Len(reader) + 1
       /\ Starts(reader'[Len(reader) + 1], "user", typed + 1, Len(reader) + 1)
    \/ /\ UNCHANGED <<typed, home>>
       /\ \E m \in Messages : thrown' = thrown \cup {m} /\ Drops(items, items', m)
    \/ /\ UNCHANGED <<typed, home, thrown>>
       /\ \E k \in 1..Len(reader) : Takes(k)

\* A step in which the queue sends its first message.
Dispatched ==
    /\ dispatch = NoDispatch /\ dispatch' = [by |-> Len(reader) + 1, accepted |-> FALSE]
    /\ Len(reader') = Len(reader) + 1 /\ items' # <<>> /\ items'[1].chat = page.chat
    /\ Starts(reader'[Len(reader) + 1], "queue", items'[1].msg, Len(reader) + 1)

\* A step makes at most one request.
AskStep ==
    \/ Len(reader') = Len(reader)
    \/ Dispatched
    \/ /\ Len(reader') = Len(reader) + 1 /\ dispatch' = dispatch
       /\ \/ \E g \in Gens : Starts(reader'[Len(reader) + 1], "attach", None, g)
          \/ /\ Starts(reader'[Len(reader) + 1], "user", typed + 1, Len(reader) + 1)
             /\ typed' = typed + 1 /\ items' = items

\* What the queue waits for.
DispatchStep ==
    \/ dispatch' = dispatch
    \/ dispatch' = NoDispatch /\ dispatch.accepted
    \/ /\ dispatch' = NoDispatch
       /\ \E k \in 1..Len(reader) : /\ dispatch = [by |-> k, accepted |-> FALSE]
                                    /\ reader[k].at = "settling" /\ reader'[k].at = "settled"
    \/ Dispatched
    \/ \E k \in 1..Len(reader) : Takes(k)

\* Where request k may go.
Goes(k, e, f) ==
    /\ f.at = "asked" => e.at = "asked"
    /\ e.at = "asked" /\ f.at # "asked" =>
         \/ f.at = "reading" /\ (dispatch.by = k => Takes(k))
         \/ /\ f.at = "settling"
            /\ e.by = "attach" \/ ~Sent(k) \/ e.cancelled \/ "lost" \in Mishaps
    /\ e.at = "reading" /\ f.at # "reading" =>
         \/ e.cancelled \/ page.own # e.gen \/ "drop" \in Mishaps
         \/ server[e.gen].state \notin {"running", "stopping"}
    /\ e.at = "settling" /\ f.at # "settling" =>
         f.at = "settled" /\ (dispatch = [by |-> k, accepted |-> FALSE] => dispatch' = NoDispatch)
    /\ f.cancelled => e.cancelled \/ "stop" \in Mishaps
    /\ f.chat = e.chat \/ e.chat = Blank

\* Every request goes where it may.
RequestStep == \A k \in 1..Len(reader) : Goes(k, reader[k], reader'[k])

\* The server learns of a request that is waiting for its answer, and forgets none.
ServerStep == \A g \in Gens :
    /\ Sent(g) => Sent(g)' /\ server'[g].chat = server[g].chat
    /\ ~Sent(g) /\ Sent(g)' =>
         /\ g \in 1..Len(reader) /\ reader[g].by # "attach" /\ reader[g].at = "asked"
         /\ server'[g].chat = (IF reader[g].chat = Blank THEN g ELSE reader[g].chat)
         /\ reader' = reader /\ dispatch' = dispatch

\* The chat on the page.
PageStep == \/ page'.chat = page.chat \/ page'.chat # Blank \/ "new" \in Mishaps
            \/ \E r \in 1..Len(reader) : reader[r].chat = Blank

\* Everything a step does that the proofs below need.
Effect == Kept /\ ItemsStep /\ AskStep /\ DispatchStep /\ RequestStep /\ ServerStep /\ PageStep

\* A step that leaves the requests alone.
LEMMA Resting == ASSUME ReaderT, reader' = reader PROVE Kept /\ AskStep /\ RequestStep
<1>1. AskStep /\ RequestStep
  BY DEF AskStep, RequestStep, Goes
<1> QED BY <1>1, StaysKept

\* A step that changes one request, as it may go.
LEMMA Replacing ==
    ASSUME ReaderT, NEW r \in 1..Len(reader), NEW e, Same(e, reader[r]),
           Replaced(reader', r, e), Goes(r, reader[r], e)
    PROVE  Kept /\ Len(reader') = Len(reader) /\ AskStep /\ RequestStep
<1>1. Kept /\ Len(reader') = Len(reader)
  BY ReplacedKeeps
<1>2. \A k \in 1..Len(reader) : reader'[k] = IF k = r THEN e ELSE reader[k]
  BY DEF Replaced
<1>3. ASSUME NEW k \in 1..Len(reader) PROVE Goes(k, reader[k], reader'[k])
  <2>1. CASE k = r
    BY <1>2, <2>1
  <2>2. CASE k # r
    <3>1. reader'[k] = reader[k]
      BY <1>2, <2>2
    <3> QED BY <3>1 DEF Goes
  <2> QED BY <2>1, <2>2
<1> QED BY <1>1, <1>3 DEF AskStep, RequestStep

\* A step that leaves the server alone.
LEMMA SameServer == ServerT /\ server' = server => ServerStep
  BY DEF ServerStep, Sent

\* A queue keeps its own items.
LEMMA SameItems == KeepsItems(items, items)
  BY DEF KeepsItems

\* Items that only learnt their chat are kept.
LEMMA SameMessages ==
    ASSUME NEW s \in Seq(ItemRec), NEW t \in Seq(ItemRec), Renamed(s, t)
    PROVE  KeepsItems(s, t)
<1>1. Len(s) = Len(t) /\ \A k \in 1..Len(s) : t[k].msg = s[k].msg /\
      (s[k].chat # Blank => t[k] = s[k])
  BY DEF Renamed
<1>2. Msgs(t) = Msgs(s)
  <2>1. \A i \in In(s) : \E j \in In(t) : j.msg = i.msg
    BY RenamedKeeps
  <2>2. \A i \in In(t) : \E j \in In(s) : j.msg = i.msg
    BY RenamedKeeps
  <2>3. \A m \in Msgs(t) : m \in Msgs(s)
    BY <2>2 DEF Msgs
  <2>4. \A m \in Msgs(s) : m \in Msgs(t)
    BY <2>1 DEF Msgs
  <2> QED BY <2>3, <2>4
<1>3. Distinct(s) => Distinct(t)
  BY RenamedKeeps
<1>4. ASSUME NEW i \in In(t) PROVE i \in In(s) \/ \E j \in In(s) : j.chat = Blank /\ j.msg = i.msg
  BY <1>1, <1>4 DEF In
<1> QED BY <1>2, <1>3, <1>4 DEF KeepsItems

\* The end of a generation, as the queue hears of it or not.
LEMMA Ending ==
    ASSUME QueueAssumption, QueueT, ReaderT, Kept, page \in Page, NEW g, NEW status, NEW q,
           q = Q \/ q = Terminal(Q, g, status), SetQueue(q)
    PROVE  QueueT' /\ KeepsItems(items, items') /\ DispatchStep
<1>1. Q \in Queue /\ Q.items = items /\ Q.paused = paused /\ Q.dispatch = dispatch /\
      page.chat \in Chats
  BY DEF QueueT, Q, Page
<1>2. /\ q \in Queue /\ Renamed(items, q.items) /\ (q.paused => q.items # <<>>)
      /\ q.dispatch = dispatch \/
            (q.dispatch = NoDispatch /\ (dispatch = NoDispatch \/ dispatch.accepted))
  <2>1. CASE q = Q
    BY <1>1, <2>1 DEF Renamed, QueueT
  <2>2. CASE q = Terminal(Q, g, status)
    <3>0. Q.paused => Q.items # <<>>
      BY <1>1 DEF QueueT
    <3>1. /\ q \in Queue /\ Renamed(Q.items, q.items)
          /\ ~(Q.dispatch = NoDispatch \/ Waits(Q, g)) => q = Q
          /\ Q.dispatch = NoDispatch \/ Waits(Q, g) => q.dispatch = NoDispatch
          /\ (Q.paused => Q.items # <<>>) => (q.paused => q.items # <<>>)
      BY <1>1, <2>2, TerminalIs
    <3>2. Waits(Q, g) => dispatch.accepted
      BY <1>1 DEF Waits
    <3> QED BY <1>1, <3>0, <3>1, <3>2
  <2> QED BY <2>1, <2>2
<1>3. QueueT'
  BY <1>2, QueueKept
<1>4. items' = q.items /\ dispatch' = q.dispatch
  BY DEF SetQueue
<1>5. items \in Seq(ItemRec) /\ items' \in Seq(ItemRec)
  BY <1>1, <1>2, <1>4, QueueIs
<1>6. KeepsItems(items, items')
  BY <1>2, <1>4, <1>5, SameMessages
<1>7. DispatchStep
  BY <1>2, <1>4 DEF DispatchStep
<1> QED BY <1>3, <1>6, <1>7

\* The queue is left alone.
LEMMA QueueRests ==
    ASSUME QueueAssumption, QueueT, ReaderT, Kept, UNCHANGED queue
    PROVE  QueueT' /\ KeepsItems(items, items') /\ DispatchStep /\ dispatch' = dispatch
<1>1. QueueT'
  BY QueueStays
<1> QED BY <1>1, SameItems DEF queue, DispatchStep

\* The queue sends its next message, or does not.
LEMMA NextSteps ==
    ASSUME QueueAssumption, ReaderT, QueueT, page \in Page, transport \in 0..Len(reader),
           NEW q \in Queue, q.paused => q.items # <<>>, q.dispatch = dispatch,
           NEW rd \in Seq(Request), Len(rd) = Len(reader),
           \A k \in 1..Len(reader) : Same(rd[k], reader[k]),
           \A k \in 1..Len(reader) : Goes(k, reader[k], rd[k]),
           NEW force, NEW draft, ProcessNext(rd, q, force, draft)
    PROVE  /\ Kept /\ QueueT' /\ page' \in Page /\ transport' \in 0..Len(reader')
           /\ items' = q.items /\ page'.chat = page.chat
           /\ AskStep /\ DispatchStep /\ RequestStep
<1>a. Len(reader) \in Nat
  BY LengthIs
<1>1. Kept /\ QueueT' /\ page' \in Page /\ transport' \in 0..Len(reader')
  BY NextKeeps
<1>2. /\ items' = q.items
      /\ \/ dispatch' = q.dispatch /\ reader' = rd /\ page' = page /\ transport' = transport
         \/ Sends(rd, q, force, draft)
  BY ProcessNextIs
<1>3. CASE dispatch' = q.dispatch /\ reader' = rd /\ page' = page /\ transport' = transport
  <2>1. AskStep /\ DispatchStep /\ RequestStep
    BY <1>3 DEF AskStep, DispatchStep, RequestStep
  <2> QED BY <1>1, <1>2, <1>3, <2>1
<1>4. CASE Sends(rd, q, force, draft)
  <2>1. q.items \in Seq(ItemRec) /\ q.items # <<>>
    BY <1>4, QueueIs DEF Sends
  <2>2. q.items[1].msg \in Messages
    <3>1. 1 \in 1..Len(q.items)
      BY <2>1, EmptySeq, LenProperties
    <3>2. q.items[1] \in ItemRec
      BY <2>1, <3>1, ElementOfSeq
    <3> QED BY <3>2 DEF ItemRec
  <2>3. Begin(rd, "queue", q.items[1].msg, Len(rd) + 1) /\ Len(rd) + 1 \in Gens
        /\ dispatch' = [by |-> Len(reader) + 1, accepted |-> FALSE]
    BY <1>a, <1>4 DEF Sends, Begin, Gens, QueueAssumption
  <2>4. /\ Len(reader') = Len(rd) + 1 /\ \A k \in 1..Len(rd) : reader'[k] = rd[k]
        /\ Starts(reader'[Len(rd) + 1], "queue", q.items[1].msg, Len(rd) + 1)
        /\ page'.chat = page.chat
    BY <2>2, <2>3, BeginIs
  <2>5. Dispatched
    BY <1>2, <1>4, <2>3, <2>4 DEF Dispatched, Sends
  <2>6. RequestStep
    BY <2>4 DEF RequestStep
  <2> QED BY <1>1, <1>2, <2>4, <2>5, <2>6 DEF AskStep, DispatchStep
<1> QED BY <1>2, <1>3, <1>4

-----------------------------------------------------------------------------
(* Each action keeps the types and has such an effect: the user. *)

\* Both ways to record a break keep its type.
LEMMA BrokenIs == broken \in BOOLEAN /\ (Breaks \/ Holds) => broken' \in BOOLEAN /\ thrown' = thrown
<1> DEFINE a == broken \/ items # <<>>
           b == broken /\ items' # <<>>
<1>1. a \in BOOLEAN /\ b \in BOOLEAN
  OBVIOUS
<1> HIDE DEF a, b
<1>2. (broken' = a \/ broken' = b) /\ thrown' = thrown => broken' \in BOOLEAN /\ thrown' = thrown
  BY <1>1
<1> QED BY <1>2 DEF Breaks, Holds, a, b

\* The budget is respected.
LEMMA SpentIs == QueueAssumption /\ spent \in 0..Budget /\
  (spent' = spent \/ \E k : May(k))
                 => spent' \in 0..Budget
  BY DEF QueueAssumption, May

\* The lengths of the requests before and after a step.
LEMMA LengthKept == ASSUME ReaderT, Kept
                    PROVE  Len(reader) \in Nat /\ Len(reader') \in Nat /\
                           Len(reader) <= Len(reader')
  BY LengthIs, LenProperties DEF Kept, ReaderT

\* A page with some of its fields changed is a page.
LEMMA PageIs ==
    ASSUME page \in Page
    PROVE  /\ [page EXCEPT !.busy = FALSE] \in Page /\ [page EXCEPT !.busy = FALSE].chat = page.chat
           /\ [page EXCEPT !.loading = FALSE, !.probing = TRUE] \in Page
           /\ [page EXCEPT !.loading = FALSE, !.probing = TRUE].chat = page.chat
           /\ [page EXCEPT !.probing = FALSE] \in Page /\
                 [page EXCEPT !.probing = FALSE].chat = page.chat
           /\ Let_go(page) \in Page /\ Let_go(page).chat = page.chat
           /\ \A c \in Chats : /\ [page EXCEPT !.chat = c] \in Page
                               /\ [page EXCEPT !.chat = c].chat = c
                               /\ [page EXCEPT !.chat = c, !.loading = TRUE,
                                     !.probing = FALSE] \in Page
                               /\ [page EXCEPT !.chat = c, !.loading = TRUE,
                                     !.probing = FALSE].chat = c
                               /\ [chat |-> c, own |-> None, busy |-> FALSE, loading |-> TRUE,
                                   probing |-> FALSE] \in Page
                               /\ [chat |-> c, own |-> None, busy |-> FALSE, loading |-> FALSE,
                                   probing |-> FALSE] \in Page
  BY DEF Page, Let_go

\* The transport names a request, or none.
LEMMA FreeIs == ASSUME transport \in 0..Len(reader), NEW r PROVE Free(r) \in 0..Len(reader)
  BY DEF Free, None

\* Actions that only concern the page, or the user's commands to it.
LEMMA Typed ==
    ASSUME QueueAssumption, TypeInv, typed < MaxMessages, typed' = typed + 1,
           home' = [home EXCEPT ![typed + 1] = Here]
    PROVE  typed' \in 0..MaxMessages /\ home' \in [Messages -> Chats] /\ typed + 1 \in Messages
<1>1. typed \in Nat /\ MaxMessages \in Nat /\ typed' \in 0..MaxMessages /\ typed + 1 \in Messages
  BY DEF TypeInv, RestT, QueueAssumption, Messages
<1>2. Here \in Chats
  BY DEF Here, TypeInv, RestT, Page, Chats, None
<1> QED BY <1>1, <1>2 DEF TypeInv, RestT

\* The queue with the message that was typed.
LEMMA ItemIs ==
    ASSUME QueueAssumption, TypeInv, typed + 1 \in Messages
    PROVE  LET q == [Q EXCEPT !.items = Append(@, Item)] IN
           /\ Item \in ItemRec /\ q \in Queue /\ q.items = Append(items, Item) /\ q.items # <<>>
           /\ q.dispatch = dispatch /\ q.paused = paused /\ q.handoff = handoff
<1>1. Q \in Queue /\ Q.items = items /\ Q.dispatch = dispatch /\ Q.paused = paused /\
      Q.handoff = handoff
  BY DEF TypeInv, QueueT, Q
<1>2. items \in Seq(ItemRec)
  BY <1>1, QueueIs
<1>3. Item \in ItemRec
  BY DEF Item, ItemRec, TypeInv, RestT, Page
<1> DEFINE t == Append(items, Item)
<1>4. t \in Seq(ItemRec) /\ t # <<>>
  BY <1>2, <1>3, AppendProperties
<1>5. [Q EXCEPT !.items = Append(@, Item)] = [items |-> t, paused |-> paused, dispatch |-> dispatch,
                                             handoff |-> handoff]
  BY DEF Q
<1> HIDE DEF t
<1>6. [items |-> t, paused |-> paused, dispatch |-> dispatch, handoff |-> handoff] \in Queue
  BY <1>1, <1>4, QueueIs
<1> QED BY <1>3, <1>4, <1>5, <1>6 DEF t

\* Submit keeps the types and has a step's effect.
LEMMA SubmitSteps == ASSUME QueueAssumption, TypeInv, Submit PROVE TypeInv' /\ Effect
<1> USE DEF TypeInv
<1>1. /\ typed' \in 0..MaxMessages /\ home' \in [Messages -> Chats] /\ typed + 1 \in Messages
      /\ typed' = typed + 1 /\ home' = [home EXCEPT ![typed + 1] = Here]
  BY Typed DEF Submit
<1> DEFINE q == [Q EXCEPT !.items = Append(@, Item)]
<1>2. /\ q \in Queue /\ q.items = Append(items, Item) /\ q.items # <<>>
      /\ q.dispatch = dispatch /\ q.paused = paused /\ q.handoff = handoff
  BY <1>1, ItemIs
<1>3. broken' \in BOOLEAN /\ thrown' = thrown /\ server' = server /\ asking' = asking /\
      spent' = spent
  BY BrokenIs DEF Submit, RestT, world
<1>4. ServerStep
  BY <1>3, SameServer
<1>5. CASE /\ SetQueue(q) /\ UNCHANGED <<page, transport, reader, drafting>>
  <2> HIDE DEF q
  <2>1. Kept /\ AskStep /\ RequestStep
    BY <1>5, Resting
  <2>2. QueueT'
    BY <1>2, <1>5, <2>1, QueueKept
  <2>3. ServerT'
    BY <1>3, <2>1, ServerStays
  <2>4. items' = Append(items, Item) /\ dispatch' = dispatch
    BY <1>2, <1>5 DEF SetQueue
  <2>5. RestT'
    BY <1>1, <1>3, <1>5 DEF RestT
  <2>6. ItemsStep
    BY <1>1, <1>3, <2>4 DEF ItemsStep
  <2>7. DispatchStep /\ PageStep
    BY <1>5, <2>4 DEF DispatchStep, PageStep
  <2> QED BY <1>4, <2>1, <2>2, <2>3, <2>5, <2>6, <2>7 DEF Effect, Kept
<1>6. CASE ProcessNext(reader, q, FALSE, drafting) /\ UNCHANGED drafting
  <2> HIDE DEF q
  <2>1. \A k \in 1..Len(reader) : Same(reader[k], reader[k]) /\ Goes(k, reader[k], reader[k])
    BY DEF Same, Goes
  <2>2. /\ Kept /\ QueueT' /\ page' \in Page /\ transport' \in 0..Len(reader')
        /\ items' = q.items /\ page'.chat = page.chat
        /\ AskStep /\ DispatchStep /\ RequestStep
    BY <1>2, <1>6, <2>1, NextSteps DEF ReaderT, RestT
  <2>3. ServerT'
    BY <1>3, <2>2, ServerStays
  <2>5. RestT'
    BY <1>1, <1>3, <1>6, <2>2 DEF RestT
  <2>6. ItemsStep
    BY <1>1, <1>2, <1>3, <2>2 DEF ItemsStep
  <2>7. PageStep
    BY <2>2 DEF PageStep
  <2> QED BY <1>4, <2>2, <2>3, <2>5, <2>6, <2>7 DEF Effect, Kept
<1>7. CASE Begin(reader, "user", typed + 1, Len(reader) + 1) /\ drafting' = TRUE /\ UNCHANGED queue
  <2>1. \A k \in 1..Len(reader) : Same(reader[k], reader[k])
    BY DEF Same
  <2>2. Len(reader) \in Nat /\ Len(reader) + 1 \in Gens /\ typed + 1 # None
    BY <1>1, <1>7, LengthIs DEF Begin, Gens, QueueAssumption, Messages, None
  <2>3. Kept /\ page' \in Page /\ transport' \in 0..Len(reader')
    BY <1>1, <1>7, <2>1, <2>2, BegunKeeps DEF RestT, ReaderT
  <2>4. /\ Len(reader') = Len(reader) + 1 /\ \A k \in 1..Len(reader) : reader'[k] = reader[k]
        /\ Starts(reader'[Len(reader) + 1], "user", typed + 1, Len(reader) + 1)
        /\ page'.chat = page.chat
    BY <1>1, <1>7, <2>2, BeginIs DEF RestT, ReaderT
  <2>5. QueueT' /\ KeepsItems(items, items') /\ DispatchStep /\ dispatch' = dispatch
    BY <1>7, <2>3, QueueRests
  <2>6. ServerT'
    BY <1>3, <2>3, ServerStays
  <2>7. RestT'
    BY <1>1, <1>3, <1>7, <2>3 DEF RestT
  <2>8. items' = items
    BY <1>7 DEF queue
  <2>9. ItemsStep /\ AskStep
    BY <1>1, <1>3, <2>4, <2>5, <2>8 DEF ItemsStep, AskStep
  <2>10. RequestStep
    BY <2>4 DEF RequestStep, Goes
  <2>11. PageStep
    BY <2>4 DEF PageStep
  <2> QED BY <1>4, <2>3, <2>5, <2>6, <2>7, <2>9, <2>10, <2>11 DEF Effect, Kept
<1> QED BY <1>5, <1>6, <1>7 DEF Submit

\* A command that may send the next message.
LEMMA CommandSteps ==
    ASSUME QueueAssumption, TypeInv, NEW q \in Queue, q.items = items, q.dispatch = dispatch,
           q.paused => items # <<>>, NEW force, ProcessNext(reader, q, force, drafting),
           broken' \in BOOLEAN, spent' \in 0..Budget,
           UNCHANGED <<typed, home, drafting, world, thrown>>
    PROVE  TypeInv' /\ Effect
<1> USE DEF TypeInv
<1>1. \A k \in 1..Len(reader) : Same(reader[k], reader[k]) /\ Goes(k, reader[k], reader[k])
  BY DEF Same, Goes
<1>2. /\ Kept /\ QueueT' /\ page' \in Page /\ transport' \in 0..Len(reader')
      /\ items' = q.items /\ page'.chat = page.chat
      /\ AskStep /\ DispatchStep /\ RequestStep
  BY <1>1, NextSteps DEF ReaderT, RestT
<1>3. ServerT' /\ ServerStep
  BY <1>2, ServerStays, SameServer DEF world
<1>4. RestT'
  BY <1>2 DEF RestT, world
<1>5. ItemsStep /\ PageStep
  BY <1>2, SameItems DEF ItemsStep, PageStep
<1> QED BY <1>2, <1>3, <1>4, <1>5 DEF Effect, Kept

\* Resume keeps the types and has a step's effect.
LEMMA ResumeSteps == ASSUME QueueAssumption, TypeInv, Resume PROVE TypeInv' /\ Effect
<1>1. Q \in Queue /\ Q.items = items /\ Q.dispatch = dispatch
  BY DEF TypeInv, QueueT, Q
<1> DEFINE q == [Q EXCEPT !.paused = FALSE]
<1>2. q \in Queue /\ q.items = items /\ q.dispatch = dispatch /\ q.paused = FALSE
  BY <1>1, PausedIs
<1> HIDE DEF q
<1>3. /\ ProcessNext(reader, q, FALSE, drafting) /\ broken' \in BOOLEAN
      /\ UNCHANGED <<typed, home, drafting, world, thrown>>
  BY DEF Resume, q
<1>4. spent' \in 0..Budget
  BY SpentIs DEF Resume, TypeInv, RestT
<1> QED BY <1>2, <1>3, <1>4, CommandSteps

\* SendNext keeps the types and has a step's effect.
LEMMA SendNextSteps == ASSUME QueueAssumption, TypeInv, SendNext PROVE TypeInv' /\ Effect
<1>1. Q \in Queue /\ Q.items = items /\ Q.dispatch = dispatch /\ (Q.paused => items # <<>>)
  BY DEF TypeInv, QueueT, Q
<1>3. /\ ProcessNext(reader, Q, TRUE, drafting) /\ broken' \in BOOLEAN
      /\ UNCHANGED <<typed, home, drafting, world, thrown>>
  BY DEF SendNext
<1>4. spent' \in 0..Budget
  BY SpentIs DEF SendNext, TypeInv, RestT
<1> QED BY <1>1, <1>3, <1>4, CommandSteps

\* A queue with another `handoff`.
LEMMA HandoffIs ==
    ASSUME NEW q \in Queue, NEW b \in BOOLEAN
    PROVE  LET p == [q EXCEPT !.handoff = b] IN
           p \in Queue /\ p.handoff = b /\ p.items = q.items /\ p.dispatch = q.dispatch /\
             p.paused = q.paused
  BY DEF Queue

\* Handoff keeps the types and has a step's effect.
LEMMA HandoffSteps == ASSUME QueueAssumption, TypeInv, Handoff PROVE TypeInv' /\ Effect
<1>1. Q \in Queue /\ Q.items = items /\ Q.dispatch = dispatch /\ Q.paused = paused
  BY DEF TypeInv, QueueT, Q
<1> DEFINE q == [Q EXCEPT !.handoff = FALSE]
<1>2. q \in Queue /\ q.items = items /\ q.dispatch = dispatch /\ q.paused = paused
  BY <1>1, HandoffIs
<1> HIDE DEF q
<1>3. /\ ProcessNext(reader, q, FALSE, drafting) /\ Holds
      /\ UNCHANGED <<typed, home, drafting, world, spent>>
  BY DEF Handoff, q
<1>4. broken' \in BOOLEAN /\ thrown' = thrown
  BY <1>3, BrokenIs DEF TypeInv, RestT
<1>5. spent' \in 0..Budget /\ (q.paused => items # <<>>)
  BY <1>2, <1>3 DEF TypeInv, RestT, QueueT
<1> QED BY <1>2, <1>3, <1>4, <1>5, CommandSteps

-----------------------------------------------------------------------------
(* Each action: the page. *)

\* An action of the page alone, or of the server: the requests and the queue rest.
LEMMA PageSteps ==
    ASSUME QueueAssumption, TypeInv, reader' = reader,
           UNCHANGED <<typed, home, queue, drafting, thrown>>,
           ServerT', ServerStep, asking' \subseteq Gens, broken' \in BOOLEAN, spent' \in 0..Budget,
           page' \in Page, PageStep, transport' \in 0..Len(reader)
    PROVE  TypeInv' /\ Effect
<1> USE DEF TypeInv
<1>1. Kept /\ AskStep /\ RequestStep
  BY Resting
<1>2. QueueT' /\ KeepsItems(items, items') /\ DispatchStep
  BY <1>1, QueueRests
<1>3. RestT' /\ ItemsStep
  BY <1>2 DEF RestT, ItemsStep
<1> QED BY <1>1, <1>2, <1>3 DEF Effect, Kept

\* One request changes, and the queue hears of the end of its generation or not.
LEMMA RequestSteps ==
    ASSUME QueueAssumption, TypeInv, NEW r \in 1..Len(reader), NEW e, Same(e, reader[r]),
           Replaced(reader', r, e), Goes(r, reader[r], e),
           NEW g, NEW status, NEW q, q = Q \/ q = Terminal(Q, g, status), SetQueue(q),
           UNCHANGED <<typed, home, drafting, world, thrown>>,
           broken' \in BOOLEAN, spent' \in 0..Budget,
           page' \in Page, PageStep, transport' \in 0..Len(reader)
    PROVE  TypeInv' /\ Effect
<1> USE DEF TypeInv
<1>1. Kept /\ Len(reader') = Len(reader) /\ AskStep /\ RequestStep
  BY Replacing
<1>2. QueueT' /\ KeepsItems(items, items') /\ DispatchStep
  BY <1>1, Ending DEF RestT
<1>3. ServerT' /\ ServerStep
  BY <1>1, ServerStays, SameServer DEF world
<1>4. RestT' /\ ItemsStep
  BY <1>1, <1>2 DEF RestT, ItemsStep, world
<1> QED BY <1>1, <1>2, <1>3, <1>4 DEF Effect, Kept

\* Arrange keeps the types and has a step's effect.
LEMMA ArrangeSteps == ASSUME QueueAssumption, TypeInv, Arrange PROVE TypeInv' /\ Effect
<1> USE DEF TypeInv
<1>1. Kept /\ AskStep /\ RequestStep
  BY Resting DEF Arrange
<1>2. Q \in Queue /\ Q.items = items /\ Q.dispatch = dispatch /\ Q.paused = paused
      /\ items \in Seq(ItemRec) /\ items # <<>>
  <2>1. Q \in Queue /\ Q.items = items
    BY DEF QueueT, Q
  <2> QED BY <2>1, QueueIs DEF Arrange, QueueT, Q
<1>3. ServerT' /\ ServerStep
  BY <1>1, ServerStays, SameServer DEF Arrange, world
<1>4. spent' \in 0..Budget
  BY SpentIs DEF Arrange, RestT
<1>5. PageStep /\ page' \in Page /\ transport' \in 0..Len(reader') /\
      UNCHANGED <<typed, home, drafting, asking>>
  BY DEF Arrange, PageStep, RestT, world
<1>6. CASE SetQueue(Halt(Q)) /\ Holds
  <2>1. Halt(Q) \in Queue /\ Halt(Q).items = items /\ Halt(Q).dispatch = dispatch /\
        Halt(Q).paused = (items # <<>>)
    BY <1>2, HaltIs
  <2>2. QueueT'
    BY <1>1, <1>6, <2>1, QueueKept
  <2>3. items' = items /\ dispatch' = dispatch
    BY <1>6, <2>1 DEF SetQueue
  <2>4. broken' \in BOOLEAN /\ thrown' = thrown
    BY <1>6, BrokenIs DEF RestT
  <2>5. RestT'
    BY <1>4, <1>5, <2>4 DEF RestT
  <2>6. ItemsStep /\ DispatchStep
    BY <1>5, <2>3, <2>4, SameItems DEF ItemsStep, DispatchStep
  <2> QED BY <1>1, <1>3, <1>5, <2>2, <2>5, <2>6 DEF Effect, Kept
<1>7. ASSUME NEW k \in DOMAIN items, SetQueue(Without(Q, items[k].msg)),
             thrown' = thrown \cup {items[k].msg}, broken' = (broken /\ items' # <<>>)
      PROVE  TypeInv' /\ Effect
  <2> DEFINE m == items[k].msg
             q == Without(Q, m)
  <2>1. m \in Messages
    <3>1. items[k] \in ItemRec
      BY <1>2, <1>7, ElementOfSeq, LenProperties
    <3> QED BY <3>1 DEF ItemRec
  <2> HIDE DEF m
  <2>2. /\ q \in Queue
        /\ In(q.items) \subseteq In(Q.items)
        /\ \A i \in In(Q.items) : i.msg # m => i \in In(q.items)
        /\ Distinct(Q.items) => /\ Distinct(q.items)
                                /\ \A i \in In(q.items) : i.msg # m
        /\ q.dispatch = Q.dispatch /\ q.handoff = Q.handoff
        /\ q.paused = (Q.paused /\ q.items # <<>>)
    BY <1>2, <2>1, WithoutIs
  <2>a. SetQueue(q) /\ thrown' = thrown \cup {m}
    BY <1>7 DEF m
  <2> HIDE DEF q
  <2>3. QueueT'
    BY <1>1, <1>2, <2>a, <2>2, QueueKept
  <2>4. items' = q.items /\ dispatch' = dispatch
    BY <1>2, <2>a, <2>2 DEF SetQueue
  <2>5. Drops(items, items', m)
    BY <1>2, <2>2, <2>4 DEF Drops, Msgs
  <2>6. broken' \in BOOLEAN
    <3>1. CASE items' # <<>>
      BY <1>7, <3>1 DEF RestT
    <3>2. CASE ~(items' # <<>>)
      BY <1>7, <3>2
    <3> QED BY <3>1, <3>2
  <2>7. RestT'
    BY <1>4, <1>5, <2>1, <2>a, <2>6 DEF RestT
  <2>8. ItemsStep /\ DispatchStep
    BY <1>5, <2>1, <2>a, <2>4, <2>5 DEF ItemsStep, DispatchStep
  <2> QED BY <1>1, <1>3, <1>5, <2>3, <2>7, <2>8 DEF Effect, Kept
<1>8. CASE SetQueue([Q EXCEPT !.items = Append(Tail(@), Head(@))]) /\ Holds
  <2> DEFINE t == Append(Tail(items), Head(items))
             q == [items |-> t, paused |-> paused, dispatch |-> dispatch, handoff |-> handoff]
  <2>1. t \in Seq(ItemRec) /\ In(t) = In(items) /\ t # <<>> /\ (Distinct(items) => Distinct(t))
    BY <1>2, RotateIs
  <2>2. SetQueue(q)
    BY <1>8 DEF SetQueue, Q
  <2> HIDE DEF t
  <2>3. q \in Queue
    BY <1>2, <2>1, QueueIs DEF Q
  <2>4. q.items = t /\ q.dispatch = dispatch
    OBVIOUS
  <2> HIDE DEF q
  <2>5. QueueT'
    BY <1>1, <2>1, <2>2, <2>3, <2>4, QueueKept
  <2>6. items' = t /\ dispatch' = dispatch
    BY <2>2, <2>4 DEF SetQueue
  <2>7. broken' \in BOOLEAN /\ thrown' = thrown
    BY <1>8, BrokenIs DEF RestT
  <2>8. RestT'
    BY <1>4, <1>5, <2>7 DEF RestT
  <2>9. ItemsStep /\ DispatchStep
    BY <1>5, <2>1, <2>6, <2>7 DEF ItemsStep, DispatchStep, KeepsItems, Msgs
  <2> QED BY <1>1, <1>3, <1>5, <2>5, <2>8, <2>9 DEF Effect, Kept
<1> QED BY <1>6, <1>7, <1>8 DEF Arrange

\* Stop keeps the types and has a step's effect.
LEMMA StopSteps == ASSUME QueueAssumption, TypeInv, Stop PROVE TypeInv' /\ Effect
<1> USE DEF TypeInv
<1>1. transport \in 1..Len(reader) /\ "stop" \in Mishaps
  BY LengthIs DEF Stop, RestT, None, May
<1>2. PICK e \in Request : /\ Replaced(reader', transport, e) /\ Same(e, reader[transport])
           /\ e.at = reader[transport].at /\ e.chat = reader[transport].chat
  BY <1>1, CancelIs DEF Stop, ReaderT
<1>3. Goes(transport, reader[transport], e)
  BY <1>1, <1>2 DEF Goes
<1>4. Kept /\ Len(reader') = Len(reader) /\ AskStep /\ RequestStep
  BY <1>1, <1>2, <1>3, Replacing
<1>5. QueueT' /\ KeepsItems(items, items') /\ DispatchStep
  BY <1>4, QueueRests DEF Stop
<1>6. ServerT' /\ ServerStep
  BY <1>4, ServerStays, SameServer DEF Stop
<1>7. page' \in Page /\ page'.chat = page.chat
  BY PageIs DEF Stop, RestT
<1>8. broken' \in BOOLEAN /\ thrown' = thrown
  BY BrokenIs DEF Stop, RestT
<1>9. spent' \in 0..Budget
  BY SpentIs DEF Stop, RestT
<1>10. asking' \subseteq Gens
  BY <1>1, LengthIs DEF Stop, RestT, Request
<1>11. RestT'
  BY <1>4, <1>7, <1>8, <1>9, <1>10 DEF Stop, RestT
<1>12. ItemsStep /\ PageStep
  BY <1>5, <1>7, <1>8 DEF ItemsStep, PageStep, Stop
<1> QED BY <1>4, <1>5, <1>6, <1>11, <1>12 DEF Effect, Kept

\* Open keeps the types and has a step's effect.
LEMMA OpenSteps ==
    ASSUME QueueAssumption, TypeInv, NEW c \in Existing \cup Gens, Open(c) PROVE TypeInv' /\ Effect
<1> USE DEF TypeInv
<1>1. c \in Chats /\ c # Blank
  BY DEF Chats, Gens, QueueAssumption, Blank
<1>2. page' \in Page /\ page'.chat = c
  BY <1>1, PageIs DEF Open, RestT
<1>3. PageStep
  BY <1>1, <1>2 DEF PageStep
<1>4. spent' \in 0..Budget
  BY SpentIs DEF Open, RestT
<1>5. ServerStep /\ ServerT'
  <2>1. reader' = reader /\ server' = server
    BY DEF Open, world
  <2> QED BY <2>1, SameServer, StaysKept, ServerStays
<1>6. /\ reader' = reader /\ UNCHANGED <<typed, home, queue, drafting, thrown>>
      /\ asking' \subseteq Gens /\ broken' \in BOOLEAN /\ transport' \in 0..Len(reader)
  BY DEF Open, RestT, world, history
<1> QED BY <1>2, <1>3, <1>4, <1>5, <1>6, PageSteps

\* NewChat keeps the types and has a step's effect.
LEMMA NewChatSteps == ASSUME QueueAssumption, TypeInv, NewChat PROVE TypeInv' /\ Effect
<1> USE DEF TypeInv
<1>1. Blank \in Chats
  BY DEF Chats
<1>2. page' \in Page
  BY <1>1, PageIs DEF NewChat, RestT
<1>3. PageStep
  BY DEF PageStep, NewChat, May
<1>4. spent' \in 0..Budget
  BY SpentIs DEF NewChat, RestT
<1>5. ServerStep /\ ServerT'
  <2>1. reader' = reader /\ server' = server
    BY DEF NewChat, world
  <2> QED BY <2>1, SameServer, StaysKept, ServerStays
<1>6. /\ reader' = reader /\ UNCHANGED <<typed, home, queue, drafting, thrown>>
      /\ asking' \subseteq Gens /\ broken' \in BOOLEAN /\ transport' \in 0..Len(reader)
  BY DEF NewChat, RestT, world, history
<1> QED BY <1>2, <1>3, <1>4, <1>5, <1>6, PageSteps

\* Loaded keeps the types and has a step's effect.
LEMMA LoadedSteps == ASSUME QueueAssumption, TypeInv, Loaded PROVE TypeInv' /\ Effect
<1> USE DEF TypeInv
<1>2. page' \in Page /\ page'.chat = page.chat
  BY PageIs DEF Loaded, RestT
<1>3. PageStep
  BY <1>2 DEF PageStep
<1>5. ServerStep /\ ServerT'
  <2>1. reader' = reader /\ server' = server
    BY DEF Loaded, world
  <2> QED BY <2>1, SameServer, StaysKept, ServerStays
<1>6. /\ reader' = reader /\ UNCHANGED <<typed, home, queue, drafting, thrown>> /\
            spent' \in 0..Budget
      /\ asking' \subseteq Gens /\ broken' \in BOOLEAN /\ transport' \in 0..Len(reader)
  BY DEF Loaded, RestT, world, history
<1> QED BY <1>2, <1>3, <1>5, <1>6, PageSteps

\* Probe keeps the types and has a step's effect.
LEMMA ProbeSteps == ASSUME QueueAssumption, TypeInv, Probe PROVE TypeInv' /\ Effect
<1> USE DEF TypeInv
<1>1. /\ UNCHANGED <<typed, home, queue, drafting, thrown>> /\ spent' \in 0..Budget /\
            server' = server
      /\ asking' \subseteq Gens /\ broken' \in BOOLEAN
  BY DEF Probe, RestT, world, history
<1>2. ASSUME NEW g \in RunningIn(page.chat), Begin(reader, "attach", None, g)
      PROVE  TypeInv' /\ Effect
  <2>1. g \in Gens /\ g <= Len(reader)
    BY <1>2 DEF RunningIn, ServerT
  <2>2. \A k \in 1..Len(reader) : Same(reader[k], reader[k])
    BY DEF Same
  <2>a. g <= Len(reader) + 1 /\ reader \in Seq(Request) /\ page \in Page
    BY <2>1, LengthIs DEF Gens, ReaderT, RestT, QueueAssumption
  <2>3. Kept /\ page' \in Page /\ transport' \in 0..Len(reader') /\ Len(reader') = Len(reader) + 1
    BY <1>2, <2>1, <2>2, <2>a, BegunKeeps
  <2>4. /\ \A k \in 1..Len(reader) : reader'[k] = reader[k]
        /\ Starts(reader'[Len(reader) + 1], "attach", None, g)
        /\ page'.chat = page.chat
    BY <1>2, <2>1, BeginIs DEF RestT, ReaderT
  <2>5. QueueT' /\ KeepsItems(items, items') /\ DispatchStep /\ dispatch' = dispatch
    BY <1>1, <2>3, QueueRests
  <2>6. ServerT' /\ ServerStep
    BY <1>1, <2>3, ServerStays, SameServer
  <2>7. RestT'
    BY <1>1, <2>3 DEF RestT
  <2>8. AskStep
    BY <2>1, <2>3, <2>4, <2>5 DEF AskStep
  <2>9. RequestStep
    BY <2>4 DEF RequestStep, Goes
  <2>10. PageStep /\ ItemsStep
    BY <1>1, <2>4, <2>5 DEF PageStep, ItemsStep
  <2> QED BY <2>3, <2>5, <2>6, <2>7, <2>8, <2>9, <2>10 DEF Effect, Kept
<1>3. CASE page' = [page EXCEPT !.probing = FALSE] /\ UNCHANGED <<reader, transport>>
  <2>1. page' \in Page /\ page'.chat = page.chat
    BY <1>3, PageIs DEF RestT
  <2>2. PageStep
    BY <2>1 DEF PageStep
  <2>3. ServerStep /\ ServerT'
    BY <1>1, <1>3, SameServer, StaysKept, ServerStays
  <2>4. transport' \in 0..Len(reader) /\ reader' = reader
    BY <1>3 DEF RestT
  <2> QED BY <1>1, <2>1, <2>2, <2>3, <2>4, PageSteps
<1> QED BY <1>2, <1>3 DEF Probe

-----------------------------------------------------------------------------
(* Each action: the server, and the requests that are answered or not. *)

\* The server takes a request, ends a generation or is asked to stop it.
LEMMA AcceptSteps ==
    ASSUME QueueAssumption, TypeInv, NEW r \in 1..Len(reader), Accept(r) PROVE TypeInv' /\ Effect
<1> USE DEF TypeInv
<1>1. reader[r] \in Request /\ r \in Gens /\ server \in Servers
  BY LengthIs DEF ReaderT, ServerT, Gens, QueueAssumption
<1> DEFINE c == IF reader[r].chat = Blank THEN r ELSE reader[r].chat
           s == [state |-> "running", chat |-> c]
<1>2. c \in Chats
  BY <1>1 DEF Request, Chats
<1> HIDE DEF c
<1>3. server' = [server EXCEPT ![r] = s]
  BY DEF Accept, c
<1>4. /\ server' \in Servers /\ server'[r].state = "running" /\ server'[r].chat = c
      /\ \A g \in Gens : g # r => server'[g] = server[g]
  BY <1>1, <1>2, <1>3 DEF Servers
<1>5. ServerT'
  BY <1>4 DEF ServerT, Accept
<1>6. ServerStep
  BY <1>1, <1>4 DEF ServerStep, Sent, Accept, c, queue
<1>7. PageStep
  BY DEF PageStep, Accept
<1>8. /\ reader' = reader /\ UNCHANGED <<typed, home, queue, drafting, thrown>> /\
            spent' \in 0..Budget
      /\ asking' \subseteq Gens /\ broken' \in BOOLEAN /\ transport' \in 0..Len(reader) /\
            page' \in Page
  BY DEF Accept, RestT, history
<1> QED BY <1>5, <1>6, <1>7, <1>8, PageSteps

\* A generation the server knows goes on or ends.
LEMMA ServerMoves ==
    ASSUME ServerT, reader' = reader, NEW g \in Gens, server[g].state # "absent",
           NEW st \in {"running", "stopping", "ok", "failed", "stopped"},
           server' = [server EXCEPT ![g].state = st]
    PROVE  ServerT' /\ ServerStep
<1>1. /\ server' \in Servers /\ server'[g].state = st /\ server'[g].chat = server[g].chat
      /\ \A h \in Gens : h # g => server'[h] = server[h]
  BY DEF ServerT, Servers
<1>2. ServerT'
  BY <1>1 DEF ServerT
<1>3. ServerStep
  BY <1>1 DEF ServerStep, Sent
<1> QED BY <1>2, <1>3

\* Finish keeps the types and has a step's effect.
LEMMA FinishSteps ==
    ASSUME QueueAssumption, TypeInv, NEW g \in Gens, Finish(g) PROVE TypeInv' /\ Effect
<1> USE DEF TypeInv
<1>1. PICK st \in {"ok", "failed", "stopped"} : server' = [server EXCEPT ![g].state = st]
  BY DEF Finish
<1>2. server[g].state # "absent" /\ reader' = reader
  BY DEF Finish
<1>3. ServerT' /\ ServerStep
  BY <1>1, <1>2, ServerMoves
<1>4. spent' \in 0..Budget
  <2>1. spent' = spent \/ May("fail")
    BY DEF Finish
  <2> QED BY <2>1, SpentIs DEF RestT
<1>5. PageStep
  BY DEF PageStep, Finish
<1>6. /\ reader' = reader /\ UNCHANGED <<typed, home, queue, drafting, thrown>>
      /\ asking' \subseteq Gens /\ broken' \in BOOLEAN /\ transport' \in 0..Len(reader) /\
            page' \in Page
  BY DEF Finish, RestT, history
<1> QED BY <1>3, <1>4, <1>5, <1>6, PageSteps

\* Unheard keeps the types and has a step's effect.
LEMMA UnheardSteps ==
    ASSUME QueueAssumption, TypeInv, NEW g \in Gens, Unheard(g) PROVE TypeInv' /\ Effect
<1> USE DEF TypeInv
<1>1. reader' = reader /\ server' = server
  BY DEF Unheard
<1>2. ServerT' /\ ServerStep
  BY <1>1, SameServer, StaysKept, ServerStays
<1>3. PageStep
  BY DEF PageStep, Unheard
<1>4. /\ UNCHANGED <<typed, home, queue, drafting, thrown>> /\ spent' \in 0..Budget
      /\ asking' \subseteq Gens /\ broken' \in BOOLEAN /\ transport' \in 0..Len(reader) /\
            page' \in Page
  BY DEF Unheard, RestT, history
<1> QED BY <1>1, <1>2, <1>3, <1>4, PageSteps

\* Acknowledged keeps the types and has a step's effect.
LEMMA AcknowledgedSteps ==
    ASSUME QueueAssumption, TypeInv, NEW g \in Gens, Acknowledged(g) PROVE TypeInv' /\ Effect
<1> USE DEF TypeInv
<1> DEFINE st == IF server[g].state = "running" THEN "stopping" ELSE server[g].state
<1>1. server' = [server EXCEPT ![g].state = st] /\ server[g].state # "absent"
  BY DEF Acknowledged
<1>2. st \in {"running", "stopping", "ok", "failed", "stopped"}
  BY <1>1 DEF ServerT, Servers
<1> HIDE DEF st
<1>3. reader' = reader
  BY DEF Acknowledged
<1>4. ServerT' /\ ServerStep
  BY <1>1, <1>2, <1>3, ServerMoves
<1>5. Kept /\ AskStep /\ RequestStep
  BY <1>3, Resting
<1>6. SetQueue(Terminal(Q, g, "cancelled"))
  BY DEF Acknowledged
<1>7. QueueT' /\ KeepsItems(items, items') /\ DispatchStep
  BY <1>5, <1>6, Ending DEF RestT
<1>8. broken' \in BOOLEAN /\ thrown' = thrown
  BY BrokenIs DEF Acknowledged, RestT
<1>9. RestT'
  BY <1>8 DEF RestT, Acknowledged
<1>10. ItemsStep /\ PageStep
  BY <1>7, <1>8 DEF ItemsStep, PageStep, Acknowledged
<1> QED BY <1>4, <1>5, <1>7, <1>9, <1>10 DEF Effect, Kept

-----------------------------------------------------------------------------
\* A dispatch that is accepted keeps its request.
LEMMA AcceptingIs ==
    ASSUME NEW d \in DispatchRec
    PROVE  [d EXCEPT !.accepted = TRUE] = [by |-> d.by, accepted |-> TRUE]
<1>1. \A b \in BOOLEAN : [d EXCEPT !.accepted = b] = [by |-> d.by, accepted |-> b]
  BY DEF DispatchRec
<1> QED BY <1>1

\* Answered keeps the types and has a step's effect.
LEMMA AnsweredSteps ==
    ASSUME QueueAssumption, TypeInv, NEW r \in 1..Len(reader), Answered(r) PROVE TypeInv' /\ Effect
<1> USE DEF TypeInv
<1>1. PICK e \in Request : /\ Replaced(reader', r, e) /\ Same(e, reader[r]) /\ e.at = "reading"
           /\ e.cancelled = reader[r].cancelled /\ e.chat = reader[r].chat
  BY AnsweringIs DEF Answered, ReaderT
<1>2. Kept /\ Len(reader') = Len(reader) /\ reader'[r] = e
  BY <1>1, ReplacedKeeps DEF Replaced
<1>3. Q \in Queue /\ Q.items = items /\ Q.dispatch = dispatch /\ Q.paused = paused
  BY DEF QueueT, Q
<1>4. broken' \in BOOLEAN /\ thrown' = thrown
  BY BrokenIs DEF Answered, RestT
<1>5. UNCHANGED <<typed, home, page, transport, drafting, world, spent>>
  BY DEF Answered
<1>6. ServerT' /\ ServerStep
  BY <1>2, <1>5, ServerStays, SameServer DEF world
<1>7. RestT' /\ PageStep
  BY <1>2, <1>4, <1>5 DEF RestT, world, PageStep
<1>8. CASE dispatch.by # r
  <2>1. SetQueue(Q)
    BY <1>8 DEF Answered
  <2>2. Goes(r, reader[r], e)
    BY <1>1, <1>8 DEF Goes, Answered
  <2>3. AskStep /\ RequestStep
    BY <1>1, <2>2, Replacing
  <2>4. QueueT'
    BY <1>2, <1>3, <2>1, QueueKept DEF QueueT
  <2>5. items' = items /\ dispatch' = dispatch
    BY <1>3, <2>1 DEF SetQueue
  <2>6. ItemsStep /\ DispatchStep
    BY <1>4, <1>5, <2>5, SameItems DEF ItemsStep, DispatchStep
  <2> QED BY <1>2, <1>6, <1>7, <2>3, <2>4, <2>6 DEF Effect, Kept
<1>9. CASE dispatch.by = r
  <2> DEFINE d == [by |-> r, accepted |-> TRUE]
             p == [Q EXCEPT !.dispatch = d]
             m == reader[r].msg
             q == Without(p, m)
  <2>1. r # None /\ reader[r].gen = r /\ reader[r].by = "queue" /\ Sent(r) /\ r \in Gens
    BY <1>9, LengthIs DEF QueueT, ReaderT, None, Answered, Sent, Gens, QueueAssumption
  <2>2. d \in DispatchRec /\ dispatch \in DispatchRec
    BY <1>3, <2>1, QueueIs DEF DispatchRec
  <2>3. p \in Queue /\ p.dispatch = d /\ p.items = items /\ p.paused = paused
    BY <1>3, <2>2, DispatchIs
  <2>4. [Q EXCEPT !.dispatch.accepted = TRUE] = p
    <3>1. [Q.dispatch EXCEPT !.accepted = TRUE] = d
      BY <1>3, <1>9, <2>2, AcceptingIs
    <3>2. [Q EXCEPT !.dispatch.accepted = TRUE]
          = [Q EXCEPT !.dispatch = [Q.dispatch EXCEPT !.accepted = TRUE]]
      BY DEF Q
    <3> QED BY <3>1, <3>2
  <2>5. SetQueue(q)
    BY <1>9, <2>4 DEF Answered
  <2> HIDE DEF p, m
  <2>6. /\ q \in Queue
        /\ In(q.items) \subseteq In(p.items)
        /\ \A i \in In(p.items) : i.msg # m => i \in In(q.items)
        /\ Distinct(p.items) => /\ Distinct(q.items)
                                /\ \A i \in In(q.items) : i.msg # m
        /\ q.dispatch = p.dispatch /\ q.handoff = p.handoff
        /\ q.paused = (p.paused /\ q.items # <<>>)
    <3>1. p \in Queue
      BY <2>3
    <3> HIDE DEF d
    <3> QED BY <3>1, WithoutIs
  <2> HIDE DEF q
  <2>7. q.dispatch.by = dispatch.by /\ dispatch.by # None
    BY <1>9, <2>1, <2>3, <2>6
  <2>8. QueueT'
    BY <1>2, <2>5, <2>6, <2>7, QueueKept
  <2>9. items' = q.items /\ dispatch' = d
    BY <2>3, <2>5, <2>6 DEF SetQueue
  <2>10. Drops(items, items', m)
    BY <2>3, <2>6, <2>9 DEF Drops, Msgs
  <2>11. Takes(r)
    BY <1>1, <1>2, <1>9, <2>1, <2>9, <2>10 DEF Takes, Answered, m
  <2>12. Goes(r, reader[r], e)
    BY <1>1, <2>11 DEF Goes, Answered
  <2>13. AskStep /\ RequestStep
    BY <1>1, <2>12, Replacing
  <2>14. ItemsStep /\ DispatchStep
    BY <1>4, <1>5, <2>11 DEF ItemsStep, DispatchStep
  <2> QED BY <1>2, <1>6, <1>7, <2>8, <2>13, <2>14 DEF Effect, Kept
<1> QED BY <1>8, <1>9

\* Refused keeps the types and has a step's effect.
LEMMA RefusedSteps ==
    ASSUME QueueAssumption, TypeInv, NEW r \in 1..Len(reader), Refused(r) PROVE TypeInv' /\ Effect
<1> USE DEF TypeInv
<1>1. PICK e \in Request : /\ Replaced(reader', r, e) /\ Same(e, reader[r]) /\ e.at = "settling"
           /\ e.cancelled = reader[r].cancelled /\ e.chat = reader[r].chat
  BY SettlingIs DEF Refused, ReaderT
<1>2. Goes(r, reader[r], e)
  BY <1>1 DEF Goes, Refused, Sent
<1> DEFINE q == IF reader[r].by = "queue" THEN Q ELSE Terminal(Q, reader[r].gen, "error")
<1>3. SetQueue(q) /\ (q = Q \/ q = Terminal(Q, reader[r].gen, "error"))
  BY DEF Refused
<1> HIDE DEF q
<1>4. page' \in Page /\ page'.chat = page.chat /\ transport' \in 0..Len(reader)
  BY PageIs, FreeIs DEF Refused, RestT
<1>5. broken' \in BOOLEAN /\ thrown' = thrown
  BY BrokenIs DEF Refused, RestT
<1>6. spent' \in 0..Budget
  BY SpentIs DEF Refused, RestT
<1>7. PageStep /\ UNCHANGED <<typed, home, drafting, world, thrown>>
  BY <1>4, <1>5 DEF PageStep, Refused
<1> QED BY <1>1, <1>2, <1>3, <1>4, <1>5, <1>6, <1>7, RequestSteps

\* Cut keeps the types and has a step's effect.
LEMMA CutSteps ==
    ASSUME QueueAssumption, TypeInv, NEW r \in 1..Len(reader), Cut(r) PROVE TypeInv' /\ Effect
<1> USE DEF TypeInv
<1>1. PICK e \in Request : /\ Replaced(reader', r, e) /\ Same(e, reader[r]) /\ e.at = "settling"
           /\ e.cancelled = reader[r].cancelled /\ e.chat = reader[r].chat
  BY SettlingIs DEF Cut, ReaderT
<1>2. reader[r].cancelled \/ (May("lost") /\ ~reader[r].cancelled)
  BY DEF Cut
<1>3. Goes(r, reader[r], e)
  BY <1>1, <1>2 DEF Goes, Cut, May
<1>4. PICK q : SetQueue(q) /\ (q = Q \/ q = Terminal(Q, reader[r].gen, "error"))
  <2>1. CASE UNCHANGED queue
    BY <2>1 DEF SetQueue, Q, queue
  <2>2. CASE SetQueue(IF reader[r].cancelled \/ reader[r].by = "queue" THEN Q
                      ELSE Terminal(Q, reader[r].gen, "error"))
    BY <2>2
  <2> QED BY <2>1, <2>2 DEF Cut
<1>5. page' \in Page /\ page'.chat = page.chat /\ transport' \in 0..Len(reader)
  <2>1. CASE UNCHANGED <<queue, page, transport>>
    BY <2>1 DEF RestT
  <2>2. CASE page' = Let_go(page) /\ transport' = Free(r)
    BY <2>2, PageIs, FreeIs DEF RestT
  <2> QED BY <2>1, <2>2 DEF Cut
<1>6. broken' \in BOOLEAN /\ thrown' = thrown
  <2>1. Breaks \/ Holds
    BY DEF Cut
  <2> QED BY <2>1, BrokenIs DEF RestT
<1>7. spent' \in 0..Budget
  <2>1. spent' = spent \/ May("lost")
    BY DEF Cut
  <2> QED BY <2>1, SpentIs DEF RestT
<1>8. PageStep /\ UNCHANGED <<typed, home, drafting, world, thrown>>
  BY <1>5, <1>6 DEF PageStep, Cut
<1> QED BY <1>1, <1>3, <1>4, <1>5, <1>6, <1>7, <1>8, RequestSteps

-----------------------------------------------------------------------------
(* Each action: the readers, and all steps together. *)

\* Named keeps the types and has a step's effect.
LEMMA NamedSteps ==
    ASSUME QueueAssumption, TypeInv, NEW r \in 1..Len(reader), Named(r) PROVE TypeInv' /\ Effect
<1> USE DEF TypeInv
<1> DEFINE c == server[reader[r].gen].chat
<1>1. c \in Chats
  <2>1. reader[r].gen \in Gens
    BY LengthIs DEF Request
  <2> QED BY <2>1 DEF ServerT, Servers
<1>2. reader' = [reader EXCEPT ![r].chat = c] /\ page' = [page EXCEPT !.chat = c]
  BY DEF Named
<1> HIDE DEF c
<1>3. PICK e \in Request : /\ Replaced(reader', r, e) /\ Same(e, reader[r]) /\ e.at = reader[r].at
           /\ e.cancelled = reader[r].cancelled
  BY <1>1, <1>2, NamingIs DEF ReaderT
<1>4. Goes(r, reader[r], e)
  BY <1>3 DEF Goes, Named
<1>5. Kept /\ Len(reader') = Len(reader) /\ AskStep /\ RequestStep
  BY <1>3, <1>4, Replacing
<1>6. QueueT' /\ KeepsItems(items, items') /\ DispatchStep
  BY <1>5, QueueRests DEF Named
<1>7. ServerT' /\ ServerStep
  BY <1>5, ServerStays, SameServer DEF Named, world
<1>8. page' \in Page
  BY <1>1, <1>2, PageIs DEF RestT
<1>9. RestT'
  BY <1>5, <1>8 DEF RestT, Named, world, history
<1>10. ItemsStep /\ PageStep
  BY <1>6 DEF ItemsStep, PageStep, Named, history
<1> QED BY <1>5, <1>6, <1>7, <1>9, <1>10 DEF Effect, Kept

\* Done keeps the types and has a step's effect.
LEMMA DoneSteps ==
    ASSUME QueueAssumption, TypeInv, NEW r \in 1..Len(reader), Done(r) PROVE TypeInv' /\ Effect
<1> USE DEF TypeInv
<1>1. PICK e \in Request : /\ Replaced(reader', r, e) /\ Same(e, reader[r]) /\ e.at = "ended"
           /\ e.cancelled = reader[r].cancelled /\ e.chat = reader[r].chat
  BY FinishingIs DEF Done, ReaderT
<1>2. Goes(r, reader[r], e)
  BY <1>1 DEF Goes, Done, Reads
<1>3. PICK q : SetQueue(q) /\ (q = Q \/ q = Terminal(Q, reader[r].gen, "finished"))
  BY DEF Done
<1>4. page' \in Page /\ page'.chat = page.chat /\ transport' \in 0..Len(reader)
  BY PageIs DEF Done, RestT
<1>5. broken' \in BOOLEAN /\ thrown' = thrown
  BY BrokenIs DEF Done, RestT
<1>6. PageStep /\ UNCHANGED <<typed, home, drafting, world, thrown>> /\ spent' \in 0..Budget
  BY <1>4, <1>5 DEF PageStep, Done, RestT
<1> QED BY <1>1, <1>2, <1>3, <1>4, <1>5, <1>6, RequestSteps

\* Errored keeps the types and has a step's effect.
LEMMA ErroredSteps ==
    ASSUME QueueAssumption, TypeInv, NEW r \in 1..Len(reader), Errored(r) PROVE TypeInv' /\ Effect
<1> USE DEF TypeInv
<1>1. PICK e \in Request : /\ Replaced(reader', r, e) /\ Same(e, reader[r]) /\ e.at = "ended"
           /\ e.cancelled = reader[r].cancelled /\ e.chat = reader[r].chat
  BY FailingIs DEF Errored, ReaderT
<1>2. Goes(r, reader[r], e)
  BY <1>1 DEF Goes, Errored, Reads
<1>3. SetQueue(Q)
  BY DEF Errored, SetQueue, Q, queue
<1>4. page' \in Page /\ page'.chat = page.chat /\ transport' \in 0..Len(reader)
  BY DEF Errored, RestT
<1>5. broken' \in BOOLEAN /\ thrown' = thrown
  BY BrokenIs DEF Errored, RestT
<1>6. PageStep /\ UNCHANGED <<typed, home, drafting, world, thrown>> /\ spent' \in 0..Budget
  BY <1>4, <1>5 DEF PageStep, Errored, RestT
<1> QED BY <1>1, <1>2, <1>3, <1>4, <1>5, <1>6, RequestSteps

\* Closed keeps the types and has a step's effect.
LEMMA ClosedSteps ==
    ASSUME QueueAssumption, TypeInv, NEW r \in 1..Len(reader), Closed(r) PROVE TypeInv' /\ Effect
<1> USE DEF TypeInv
<1>1. PICK e \in Request : /\ Replaced(reader', r, e) /\ Same(e, reader[r]) /\ e.at = "settling"
           /\ e.cancelled = reader[r].cancelled /\ e.chat = reader[r].chat
  BY SettlingIs DEF Closed, ReaderT
<1>2. reader[r].at \in {"reading", "ended"}
  BY DEF Closed
<1>b. reader[r].at = "reading" => reader[r].cancelled \/ "drop" \in Mishaps
                                  \/ server[reader[r].gen].state \notin {"running", "stopping"}
  BY DEF Closed, May
<1>3. Goes(r, reader[r], e)
  BY <1>1, <1>2, <1>b DEF Goes
<1>4. PICK q : SetQueue(q) /\ (q = Q \/ q = Terminal(Q, reader[r].gen, reader[r].status))
  BY DEF Closed
<1>5. page' \in Page /\ page'.chat = page.chat /\ transport' \in 0..Len(reader)
  BY PageIs, FreeIs DEF Closed, RestT
<1>6. broken' \in BOOLEAN /\ thrown' = thrown
  <2>1. Breaks \/ Holds
    BY DEF Closed
  <2> QED BY <2>1, BrokenIs DEF RestT
<1>7. spent' \in 0..Budget
  <2>1. spent' = spent \/ May("drop")
    BY DEF Closed
  <2> QED BY <2>1, SpentIs DEF RestT
<1>8. PageStep /\ UNCHANGED <<typed, home, drafting, world, thrown>>
  BY <1>5, <1>6 DEF PageStep, Closed
<1> QED BY <1>1, <1>3, <1>4, <1>5, <1>6, <1>7, <1>8, RequestSteps

\* Stale keeps the types and has a step's effect.
LEMMA StaleSteps ==
    ASSUME QueueAssumption, TypeInv, NEW r \in 1..Len(reader), Stale(r) PROVE TypeInv' /\ Effect
<1> USE DEF TypeInv
<1>1. PICK e \in Request : /\ Replaced(reader', r, e) /\ Same(e, reader[r]) /\ e.at = "settling"
           /\ e.cancelled = reader[r].cancelled /\ e.chat = reader[r].chat
  BY SettlingIs DEF Stale, ReaderT
<1>2. reader[r].at \in {"reading", "ended"}
  BY DEF Stale
<1>3. Goes(r, reader[r], e)
  BY <1>1, <1>2 DEF Goes, Stale, Owns
<1>4. SetQueue(Q)
  BY DEF Stale, SetQueue, Q, queue
<1>5. page' \in Page /\ page'.chat = page.chat /\ transport' \in 0..Len(reader)
  BY FreeIs DEF Stale, RestT
<1>6. /\ broken' \in BOOLEAN /\ UNCHANGED <<typed, home, drafting, world, thrown>>
      /\ spent' \in 0..Budget /\ PageStep
  BY DEF Stale, RestT, history, PageStep
<1> QED BY <1>1, <1>3, <1>4, <1>5, <1>6, RequestSteps

\* Settle keeps the types and has a step's effect.
LEMMA SettleSteps ==
    ASSUME QueueAssumption, TypeInv, NEW r \in 1..Len(reader), Settle(r) PROVE TypeInv' /\ Effect
<1> USE DEF TypeInv
<1> DEFINE rd == [reader EXCEPT ![r].at = "settled"]
<1>1. PICK e \in Request : /\ Replaced(rd, r, e) /\ Same(e, reader[r]) /\ e.at = "settled"
           /\ e.cancelled = reader[r].cancelled /\ e.chat = reader[r].chat
  BY SettledIs DEF ReaderT
<1>2. reader[r].at = "settling" /\ broken' \in BOOLEAN /\ thrown' = thrown
      /\ UNCHANGED <<typed, home, world, spent>>
  BY BrokenIs DEF Settle, RestT
<1>3. \/ /\ reader[r].by = "queue"
         /\ SetQueue(IF dispatch = [by |-> r, accepted |-> FALSE] THEN Halt(Released(Q)) ELSE Q)
         /\ reader' = rd /\ UNCHANGED <<page, transport, drafting>>
      \/ /\ reader[r].by = "user"
         /\ drafting' = FALSE /\ ProcessNext(rd, Q, FALSE, FALSE)
      \/ /\ reader[r].by = "attach"
         /\ reader' = rd /\ UNCHANGED <<queue, page, transport, drafting>>
  BY DEF Settle
<1> HIDE DEF rd
<1>4. Q \in Queue /\ Q.items = items /\ Q.dispatch = dispatch /\ Q.paused = paused /\
      (paused => items # <<>>)
  BY DEF QueueT, Q
<1>5. CASE reader[r].by = "queue" /\ dispatch = [by |-> r, accepted |-> FALSE]
  <2>1. SetQueue(Halt(Released(Q))) /\ reader' = rd /\ UNCHANGED <<page, transport, drafting>>
    BY <1>3, <1>5
  <2>2. Released(Q) \in Queue /\ Released(Q).items = items /\ Released(Q).dispatch = NoDispatch
    BY <1>4, ReleasedIs
  <2>3. /\ Halt(Released(Q)) \in Queue /\ Halt(Released(Q)).items = items
        /\ Halt(Released(Q)).dispatch = NoDispatch /\ Halt(Released(Q)).paused = (items # <<>>)
    BY <2>2, HaltIs
  <2>4. items' = items /\ dispatch' = NoDispatch
    BY <2>1, <2>3 DEF SetQueue
  <2>5. Goes(r, reader[r], e)
    BY <1>1, <1>2, <2>4 DEF Goes
  <2>6. Kept /\ Len(reader') = Len(reader) /\ AskStep /\ RequestStep
    BY <1>1, <2>1, <2>5, Replacing
  <2>7. QueueT'
    BY <2>1, <2>3, <2>6, QueueKept
  <2>8. ServerT' /\ ServerStep
    BY <1>2, <2>6, ServerStays, SameServer DEF world
  <2>9. RestT' /\ PageStep
    BY <1>2, <2>1, <2>6 DEF RestT, world, PageStep
  <2>10. reader'[r].at = "settled"
    BY <1>1, <2>1 DEF Replaced
  <2>11. DispatchStep
    BY <1>2, <1>5, <2>4, <2>10 DEF DispatchStep
  <2>12. ItemsStep
    BY <1>2, <2>4, SameItems DEF ItemsStep
  <2> QED BY <2>6, <2>7, <2>8, <2>9, <2>11, <2>12 DEF Effect, Kept
<1>6. CASE /\ reader[r].by = "queue" /\ dispatch # [by |-> r, accepted |-> FALSE]
           \/ reader[r].by = "attach"
  <2>1. SetQueue(Q) /\ reader' = rd /\ UNCHANGED <<page, transport, drafting>>
    BY <1>3, <1>6 DEF SetQueue, Q, queue
  <2>2. dispatch # [by |-> r, accepted |-> FALSE]
    BY <1>6, LengthIs DEF QueueT, None
  <2>3. Goes(r, reader[r], e)
    BY <1>1, <1>2, <2>2 DEF Goes
  <2>4. page' \in Page /\ PageStep /\ transport' \in 0..Len(reader) /\ spent' \in 0..Budget
    BY <1>2, <2>1 DEF RestT, PageStep
  <2> QED BY <1>1, <1>2, <2>1, <2>3, <2>4, RequestSteps
<1>7. CASE reader[r].by = "user"
  <2>1. drafting' = FALSE /\ ProcessNext(rd, Q, FALSE, FALSE)
    BY <1>3, <1>7
  <2>2. dispatch # [by |-> r, accepted |-> FALSE]
    BY <1>7, LengthIs DEF QueueT, None
  <2>3. Goes(r, reader[r], e)
    BY <1>1, <1>2, <2>2 DEF Goes
  <2>4. rd \in Seq(Request) /\ Len(rd) = Len(reader)
        /\ \A k \in 1..Len(reader) : rd[k] = IF k = r THEN e ELSE reader[k]
    BY <1>1 DEF Replaced
  <2>5. ASSUME NEW k \in 1..Len(reader) PROVE Same(rd[k], reader[k]) /\ Goes(k, reader[k], rd[k])
    <3>1. CASE k = r
      BY <1>1, <2>3, <2>4, <3>1
    <3>2. CASE k # r
      <4>1. rd[k] = reader[k]
        BY <2>4, <3>2
      <4> QED BY <4>1 DEF Same, Goes
    <3> QED BY <3>1, <3>2
  <2>6. /\ Kept /\ QueueT' /\ page' \in Page /\ transport' \in 0..Len(reader')
        /\ items' = Q.items /\ page'.chat = page.chat
        /\ AskStep /\ DispatchStep /\ RequestStep
    BY <1>4, <2>1, <2>4, <2>5, NextSteps DEF RestT
  <2>7. ServerT' /\ ServerStep
    BY <1>2, <2>6, ServerStays, SameServer DEF world
  <2>8. drafting' \in BOOLEAN
    BY <2>1
  <2>9. RestT' /\ PageStep
    BY <1>2, <2>6, <2>8 DEF RestT, world, PageStep
  <2>10. ItemsStep
    BY <1>2, <1>4, <2>6, SameItems DEF ItemsStep
  <2> QED BY <2>6, <2>7, <2>9, <2>10 DEF Effect, Kept
<1> QED BY <1>3, <1>5, <1>6, <1>7

-----------------------------------------------------------------------------
\* The initial states are well-typed.
LEMMA InitTypes == QueueAssumption /\ Init => TypeInv
<1>a. SUFFICES ASSUME QueueAssumption, Init PROVE TypeInv
  OBVIOUS
<1>1. Len(reader) = 0 /\ reader \in Seq(Request) /\ ReaderT
  BY <1>a DEF Init, ReaderT, QueueAssumption
<1>2. /\ items \in Seq(ItemRec) /\ paused \in BOOLEAN /\ handoff \in BOOLEAN
      /\ dispatch \in DispatchRec /\ ~paused
  <2>1. \A S : <<>> \in Seq(S)
    OBVIOUS
  <2>2. items \in Seq(ItemRec)
    BY <1>a, <2>1 DEF Init
  <2>3. paused \in BOOLEAN /\ handoff \in BOOLEAN /\ ~paused
    BY <1>a DEF Init
  <2>4. dispatch \in DispatchRec
    BY <1>a, NothingWaits DEF Init
  <2> QED BY <2>2, <2>3, <2>4
<1>3. Q \in Queue
  BY <1>2, QueueIs DEF Q
<1>4. dispatch.by = None /\ ~dispatch.accepted
  BY <1>a, NothingWaits DEF Init
<1>5. QueueT
  BY <1>1, <1>2, <1>3, <1>4 DEF QueueT, None
<1>6. ServerT
  BY <1>a, <1>1 DEF Init, ServerT, Servers, Chats
<1>7. page \in Page
  <2>1. \A b \in BOOLEAN : [chat |-> plan.start, own |-> None, busy |-> b, loading |-> b,
        probing |-> b] \in Page
    BY <1>a DEF Init, Page, Chats, None, Blank, QueueAssumption
  <2> QED BY <1>a, <2>1 DEF Init
<1>8. home \in [Messages -> Chats]
  BY <1>a DEF Init, Chats
<1>9. typed = 0 /\ transport = 0 /\ asking = {} /\ thrown = {} /\ spent = 0
  BY <1>a DEF Init, None
<1>10. drafting \in BOOLEAN /\ broken \in BOOLEAN
  BY <1>a DEF Init
<1>11. RestT
  BY <1>a, <1>1, <1>7, <1>8, <1>9, <1>10 DEF RestT, QueueAssumption
<1> QED BY <1>1, <1>5, <1>6, <1>11 DEF TypeInv

\* What every step does.
LEMMA EveryStep == ASSUME QueueAssumption, TypeInv, [Next]_vars PROVE TypeInv' /\ Effect
<1>1. CASE UNCHANGED vars
  <2>1. reader' = reader /\ server' = server /\ UNCHANGED queue /\
        UNCHANGED <<typed, home, page, transport, drafting, asking, thrown, broken, spent>>
    BY <1>1 DEF vars, queue, world, history
  <2>2. ServerT' /\ ServerStep
    BY <2>1, SameServer, StaysKept, ServerStays DEF TypeInv
  <2>3. PageStep
    BY <2>1 DEF PageStep
  <2>4. /\ asking' \subseteq Gens /\ broken' \in BOOLEAN /\ spent' \in 0..Budget
        /\ page' \in Page /\ transport' \in 0..Len(reader)
    BY <2>1 DEF TypeInv, RestT
  <2> QED BY <2>1, <2>2, <2>3, <2>4, PageSteps
<1>2. ASSUME NEW r \in 1..Len(reader), Accept(r) \/ Reader(r) PROVE TypeInv' /\ Effect
  BY <1>2, AcceptSteps, AnsweredSteps, RefusedSteps, CutSteps, NamedSteps, DoneSteps, ErroredSteps,
     ClosedSteps, StaleSteps, SettleSteps DEF Reader
<1>3. ASSUME NEW g \in Gens, Finish(g) \/ Acknowledged(g) \/ Unheard(g) PROVE TypeInv' /\ Effect
  BY <1>3, FinishSteps, AcknowledgedSteps, UnheardSteps
<1>4. ASSUME NEW c \in Existing \cup Gens, Open(c) PROVE TypeInv' /\ Effect
  BY <1>4, OpenSteps
<1> QED BY <1>1, <1>2, <1>3, <1>4, SubmitSteps, ResumeSteps, SendNextSteps, ArrangeSteps, StopSteps,
           NewChatSteps, LoadedSteps, ProbeSteps, HandoffSteps DEF Next

\* A run keeps to its plan.
LEMMA Planned == [Next /\ UNCHANGED plan]_<<vars, plan>>
                 => [Next]_vars /\ UNCHANGED plan /\ Mishaps' = Mishaps
  BY DEF Mishaps

\* The types of the page, its queue, its requests and the server hold in every reachable state,
\* and an empty queue is not paused (updateQueueUI).
THEOREM QueueTypes ==
    ASSUME QueueAssumption
    PROVE  Spec => []TypeOK
<1>1. Init => TypeInv /\ plan \in Plans
  BY InitTypes DEF Init
<1>2. /\ TypeInv /\ [Next]_vars => TypeInv'
      /\ UNCHANGED plan /\ plan \in Plans => (plan \in Plans)'
  BY EveryStep
<1>3. TypeInv /\ plan \in Plans => TypeOK
  BY TypeInvTypes
<1> QED BY <1>1, <1>2, <1>3, Planned, PTL DEF Spec

-----------------------------------------------------------------------------
(* No message is dropped. *)

\* The items of the queue, as a sequence and as a set.
LEMMA ItemsAre == ASSUME TypeInv
                  PROVE  /\ items \in Seq(ItemRec) /\ Len(items) \in Nat /\
                               DOMAIN items = 1..Len(items)
                         /\ In(items) \subseteq ItemRec /\ Msgs(items) \subseteq Messages
                         /\ \A m : Waiting(m) <=> m \in Msgs(items)
<1>1. items \in Seq(ItemRec)
  BY QueueIs DEF TypeInv, QueueT, Q
<1>2. Len(items) \in Nat /\ DOMAIN items = 1..Len(items) /\
      \A k \in 1..Len(items) : items[k] \in ItemRec
  BY <1>1, LenProperties, ElementOfSeq
<1>3. In(items) \subseteq ItemRec
  BY <1>2 DEF In
<1>4. Msgs(items) \subseteq Messages
  BY <1>3 DEF Msgs, ItemRec
<1>5. ASSUME NEW m PROVE Waiting(m) <=> m \in Msgs(items)
  BY <1>2 DEF Waiting, Msgs, In
<1> QED BY <1>1, <1>2, <1>3, <1>4, <1>5

\* A message that arrives is the only one of its kind.
LEMMA Arrives ==
    ASSUME TypeInv, QueueAssumption, typed + 1 \in Messages
    PROVE  /\ Msgs(Append(items, Item)) = Msgs(items) \cup {typed + 1}
           /\ In(Append(items, Item)) = In(items) \cup {Item}
           /\ Distinct(items) /\ typed + 1 \notin Msgs(items) => Distinct(Append(items, Item))
<1>1. items \in Seq(ItemRec) /\ Item \in ItemRec /\ Item.msg = typed + 1
  BY ItemsAre, ItemIs DEF Item
<1>2. /\ In(Append(items, Item)) = In(items) \cup {Item}
      /\ Distinct(items) /\ (\A i \in In(items) : i.msg # Item.msg) => Distinct(Append(items, Item))
  BY <1>1, AppendIs
<1> QED BY <1>1, <1>2 DEF Msgs

\* A message that is typed is one of the messages.
LEMMA TypedNow == ASSUME TypeInv, TypeInv', QueueAssumption
                  PROVE  /\ typed \in Nat /\ MaxMessages \in Nat
                         /\ typed' = typed + 1 => typed + 1 \in Messages
  BY DEF TypeInv, RestT, QueueAssumption, Messages

\* No step loses a message.
LEMMA DroppedSteps ==
    ASSUME QueueAssumption, TypeInv, TypeInv', Effect, NothingDropped
    PROVE  NothingDropped'
<1>a. typed \in Nat /\ (typed' = typed + 1 => typed + 1 \in Messages)
  BY TypedNow
<1>b. /\ Len(reader) \in Nat /\ Len(reader') \in Nat /\ Len(reader) <= Len(reader')
      /\ \A k \in 1..Len(reader) : Same(reader'[k], reader[k]) /\ k \in Gens
  BY LengthKept DEF Effect, Kept, TypeInv, ReaderT, Gens, QueueAssumption
<1>c. \A m : Waiting(m)' <=> m \in Msgs(items')
  <2>1. items' \in Seq(ItemRec)
    BY QueueIs DEF TypeInv, QueueT, Q
  <2>2. DOMAIN items' = 1..Len(items')
    BY <2>1, LenProperties
  <2> QED BY <2>2 DEF Waiting, Msgs, In
<1>d. \A m : Waiting(m) <=> m \in Msgs(items)
  BY ItemsAre
<1>1. \A k \in 1..Len(reader) : Sent(k) => Sent(k)'
  BY <1>b DEF Effect, ServerStep
<1>2. ASSUME NEW m, NEW k \in RequestsOf(m), reader[k].by = "user" \/ Sent(k)
      PROVE  \E j \in RequestsOf(m)' : reader'[j].by = "user" \/ Sent(j)'
  <2>1. k \in 1..Len(reader) /\ reader[k].msg = m
    BY <1>2 DEF RequestsOf
  <2>2. k \in RequestsOf(m)'
    BY <1>b, <2>1 DEF RequestsOf, Same
  <2>3. reader'[k].by = "user" \/ Sent(k)'
    BY <1>b, <1>1, <1>2, <2>1 DEF Same
  <2> QED BY <2>2, <2>3
<1>3. SUFFICES ASSUME NEW m \in 1..typed'
               PROVE  \/ m \in Msgs(items') \/ m \in thrown'
                      \/ \E k \in RequestsOf(m)' : reader'[k].by = "user" \/ Sent(k)'
  BY <1>c DEF NothingDropped
<1>4. m \in 1..typed => \/ m \in Msgs(items) \/ m \in thrown
                        \/ \E k \in RequestsOf(m)' : reader'[k].by = "user" \/ Sent(k)'
  BY <1>d, <1>2 DEF NothingDropped
<1>5. CASE UNCHANGED <<typed, home, thrown>> /\ KeepsItems(items, items')
  BY <1>4, <1>5 DEF KeepsItems
<1>6. CASE typed' = typed + 1 /\ thrown' = thrown /\ items' = Append(items, Item)
  <2>1. Msgs(items') = Msgs(items) \cup {typed + 1}
    BY <1>a, <1>6, Arrives
  <2>2. m \in 1..typed \/ m = typed + 1
    BY <1>a, <1>3, <1>6
  <2> QED BY <1>4, <1>6, <2>1, <2>2
<1>7. CASE /\ typed' = typed + 1 /\ thrown' = thrown
           /\ items' = items /\ Len(reader') = Len(reader) + 1
           /\ Starts(reader'[Len(reader) + 1], "user", typed + 1, Len(reader) + 1)
  <2>1. m \in 1..typed \/ m = typed + 1
    BY <1>a, <1>3, <1>7
  <2>2. CASE m = typed + 1
    <3>1. reader'[Len(reader) + 1].msg = m /\ reader'[Len(reader) + 1].by = "user"
      BY <1>7, <2>2 DEF Starts
    <3>2. Len(reader) + 1 \in RequestsOf(m)'
      BY <1>b, <1>7, <3>1 DEF RequestsOf
    <3> QED BY <3>1, <3>2
  <2> QED BY <1>4, <1>7, <2>1, <2>2
<1>8. ASSUME NEW n \in Messages, typed' = typed, thrown' = thrown \cup {n}, Drops(items, items', n)
      PROVE  m \in Msgs(items') \/ m \in thrown'
             \/ \E k \in RequestsOf(m)' : reader'[k].by = "user" \/ Sent(k)'
  BY <1>3, <1>4, <1>8 DEF Drops
<1>9. ASSUME NEW k \in 1..Len(reader), typed' = typed, thrown' = thrown, Takes(k)
      PROVE  m \in Msgs(items') \/ m \in thrown'
             \/ \E j \in RequestsOf(m)' : reader'[j].by = "user" \/ Sent(j)'
  <2>1. Msgs(items) \ {reader[k].msg} \subseteq Msgs(items') /\ Sent(k)
    BY <1>9 DEF Takes, Drops
  <2>2. k \in RequestsOf(reader[k].msg)
    BY DEF RequestsOf
  <2> QED BY <1>2, <1>3, <1>4, <1>9, <2>1, <2>2
<1> QED BY <1>5, <1>6, <1>7, <1>8, <1>9 DEF Effect, ItemsStep

\* No typed message disappears, whatever goes wrong (markQueueDispatchAccepted, releaseQueueDispatch): it waits,
\* or the server has it, or the user removed it, or saw its own request refused.
THEOREM NoMessageDropped == ASSUME QueueAssumption PROVE Spec => []NothingDropped
<1>1. Init => TypeInv /\ NothingDropped
  <2>1. Init => NothingDropped
    BY DEF Init, NothingDropped
  <2> QED BY <2>1, InitTypes
<1>2. TypeInv /\ NothingDropped /\ [Next]_vars => (TypeInv /\ NothingDropped)'
  BY EveryStep, DroppedSteps
<1> QED BY <1>1, <1>2, Planned, PTL DEF Spec

-----------------------------------------------------------------------------
\* A message is not sent twice.  Request r may have reached the server, or may yet.
Live(r) == Sent(r) \/ reader[r].at = "asked"
Pending(r) == dispatch = [by |-> r, accepted |-> FALSE]
Sender(r) == r \in 1..Len(reader) /\ reader[r].by # "attach"

\* The queue's messages differ, are typed, and are not under way elsewhere.
OnceItems ==
    /\ Distinct(items) /\ \A m \in Msgs(items) : m <= typed
    /\ \A r \in 1..Len(reader) : Sender(r) /\ reader[r].msg \in Msgs(items) => Pending(r) \/
          ~Live(r)
\* Requests for one message: at most one of them can have reached the server.
OnceRequests ==
    /\ \A r \in 1..Len(reader) : /\ ~reader[r].cancelled /\ reader[r].msg <= typed
                                 /\ reader[r].by = "attach" => reader[r].msg = None
    /\ \A r, s \in 1..Len(reader) :
         Sender(r) /\ Sender(s) /\ r # s /\ reader[r].msg = reader[s].msg => ~Live(r) \/ ~Live(s)
\* The request the queue waits for was not sent when its reader ends.
OncePending == \A r \in 1..Len(reader) : Pending(r) =>
    reader[r].at \in {"asked", "settling"} /\ (reader[r].at = "settling" => ~Sent(r))
\* The inductive invariant about messages.
Once == OnceItems /\ OnceRequests /\ OncePending

-----------------------------------------------------------------------------
(* No message is sent twice. *)

\* The facts of a step that the proofs about messages use.
LEMMA Grows ==
    ASSUME QueueAssumption, TypeInv, TypeInv', Effect
    PROVE  /\ Len(reader) \in Nat /\ Len(reader') \in Nat
           /\ Len(reader') = Len(reader) \/ Len(reader') = Len(reader) + 1
           /\ \A k \in 1..Len(reader) : Same(reader'[k], reader[k]) /\ k \in Gens
           /\ \A k \in 1..Len(reader') : k \in Gens
           /\ \A k \in Gens : Sent(k) => k <= Len(reader)
           /\ \A k \in Gens : Sent(k)' => k <= Len(reader)
           /\ typed \in Nat /\ (typed' = typed \/ typed' = typed + 1)
<1>1. Len(reader) \in Nat /\ Len(reader') \in Nat
  BY LengthKept DEF Effect, TypeInv
<1>2. Len(reader') = Len(reader) \/ Len(reader') = Len(reader) + 1
  BY DEF Effect, AskStep, Dispatched
<1>3. \A k \in 1..Len(reader') : k \in Gens
  BY <1>1 DEF TypeInv, ReaderT, Gens, QueueAssumption
<1>4. \A k \in 1..Len(reader) : Same(reader'[k], reader[k]) /\ k \in Gens
  BY <1>1, <1>2, <1>3 DEF Effect, Kept
<1>5. \A k \in Gens : Sent(k) => k <= Len(reader)
  BY DEF TypeInv, ServerT, Sent
<1>6. \A k \in Gens : Sent(k)' => k <= Len(reader)
  BY <1>1, <1>5 DEF Effect, ServerStep
<1>7. typed \in Nat /\ (typed' = typed \/ typed' = typed + 1)
  BY DEF TypeInv, RestT, QueueAssumption, Effect, ItemsStep
<1> QED BY <1>1, <1>2, <1>3, <1>4, <1>5, <1>6, <1>7

\* After a step the messages that wait still differ and were typed.
LEMMA ItemsSum ==
    ASSUME QueueAssumption, TypeInv, TypeInv', Effect, OnceItems
    PROVE  /\ Distinct(items')
           /\ \A m \in Msgs(items') : m \in Msgs(items) \/ (m = typed + 1 /\ typed' = typed + 1)
           /\ \A m \in Msgs(items') : m <= typed'
<1>a. typed \in Nat /\ (typed' = typed + 1 => typed + 1 \in Messages)
  BY TypedNow
<1>b. Distinct(items) /\ Msgs(items) \subseteq Nat /\ \A m \in Msgs(items) : m <= typed
  BY ItemsAre DEF OnceItems, Messages
<1>1. /\ Distinct(items')
      /\ \A m \in Msgs(items') : m \in Msgs(items) \/ (m = typed + 1 /\ typed' = typed + 1)
  <2>1. CASE KeepsItems(items, items')
    BY <1>b, <2>1 DEF KeepsItems
  <2>2. CASE typed' = typed + 1 /\ items' = Append(items, Item)
    <3>1. typed + 1 \notin Msgs(items)
      BY <1>a, <1>b
    <3>2. Msgs(items') = Msgs(items) \cup {typed + 1} /\ Distinct(items')
      BY <1>a, <1>b, <2>2, <3>1, Arrives
    <3> QED BY <2>2, <3>2
  <2>3. CASE items' = items
    BY <1>b, <2>3
  <2>4. ASSUME NEW m, Drops(items, items', m)
        PROVE  Distinct(items') /\ Msgs(items') \subseteq Msgs(items)
    BY <1>b, <2>4 DEF Drops, Msgs
  <2>5. ASSUME NEW k, Takes(k)
        PROVE  Distinct(items') /\ Msgs(items') \subseteq Msgs(items)
    BY <1>b, <2>5 DEF Takes, Drops, Msgs
  <2> QED BY <2>1, <2>2, <2>3, <2>4, <2>5 DEF Effect, ItemsStep
<1>2. typed <= typed' /\ typed' \in Nat
  BY <1>a, Grows
<1> QED BY <1>a, <1>b, <1>1, <1>2

\* A request that may reach the server could before the step.
LEMMA LiveBefore ==
    ASSUME QueueAssumption, TypeInv, TypeInv', Effect, NEW k \in 1..Len(reader), Live(k)'
    PROVE  Live(k)
<1>1. k \in Gens /\ Goes(k, reader[k], reader'[k])
  BY Grows DEF Effect, RequestStep
<1> QED BY <1>1 DEF Live, Goes, Effect, ServerStep

\* A request that was pending still is, or has ended without its message having been sent, or
\* its message has left the queue.
LEMMA PendingAfter ==
    ASSUME QueueAssumption, TypeInv, TypeInv', Effect, Once, NEW k \in 1..Len(reader), Pending(k)
    PROVE  Pending(k)' \/ ~Live(k)' \/ reader[k].msg \notin Msgs(items')
<1>1. k \in Gens /\ k # None /\ reader[k].at \in {"asked", "settling"} /\
      (reader[k].at = "settling" => ~Sent(k))
  BY Grows DEF Once, OncePending, None
<1>2. dispatch.by = k /\ dispatch.accepted = FALSE /\ dispatch # NoDispatch
  BY <1>1 DEF Pending, NoDispatch
<1>3. CASE dispatch' = dispatch
  BY <1>3 DEF Pending
<1>4. ASSUME NEW j \in 1..Len(reader), dispatch = [by |-> j, accepted |-> FALSE],
             reader[j].at = "settling", reader'[j].at = "settled"
      PROVE  ~Live(k)'
  <2>1. j = k
    BY <1>2, <1>4
  <2>2. ~Sent(k)'
    BY <1>1, <1>4, <2>1 DEF Effect, ServerStep
  <2> QED BY <1>4, <2>1, <2>2 DEF Live
<1>5. ASSUME NEW j \in 1..Len(reader), Takes(j) PROVE reader[k].msg \notin Msgs(items')
  BY <1>2, <1>5 DEF Takes, Drops, Once, OnceItems
<1> QED BY <1>2, <1>3, <1>4, <1>5 DEF Effect, DispatchStep, Dispatched

\* Who is pending after a step.
LEMMA PendingIs ==
    ASSUME QueueAssumption, TypeInv, TypeInv', Effect, NEW k \in 1..Len(reader'), Pending(k)'
    PROVE  (Pending(k) /\ dispatch' = dispatch) \/ (Dispatched /\ k = Len(reader) + 1)
<1>1. k # None /\ dispatch'.by = k /\ dispatch'.accepted = FALSE
  BY DEF Pending, None
<1>2. dispatch' # NoDispatch
  BY <1>1 DEF NoDispatch
<1>3. ASSUME NEW j, Takes(j) PROVE FALSE
  <2>1. dispatch'.accepted = TRUE
    BY <1>3 DEF Takes
  <2> QED BY <1>1, <2>1
<1>4. CASE dispatch' = dispatch
  BY <1>4 DEF Pending
<1>5. CASE Dispatched
  BY <1>1, <1>5 DEF Dispatched
<1> QED BY <1>2, <1>3, <1>4, <1>5 DEF Effect, DispatchStep

\* The request a step begins, and where its message comes from.
LEMMA NewIs ==
    ASSUME QueueAssumption, TypeInv, TypeInv', Effect,
           NEW n, n = Len(reader) + 1, Len(reader') = n
    PROVE  LET e == reader'[n] IN
           /\ ~Sent(n)' /\ e.at = "asked" /\ ~e.cancelled
           /\ \/ Dispatched /\ e.msg = items'[1].msg /\ e.msg \in Msgs(items') /\ Pending(n)' /\
                 e.by # "attach"
              \/ e.by = "attach" /\ e.msg = None
              \/ e.by # "attach" /\ e.msg = typed + 1 /\ typed' = typed + 1 /\ items' = items
<1> DEFINE e == reader'[n]
<1>0. n \in Gens /\ ~(n <= Len(reader))
  BY Grows
<1>1. ~Sent(n)'
  BY <1>0, Grows
<1>2. CASE Dispatched
  <2>1. Starts(e, "queue", items'[1].msg, n) /\ items' # <<>> /\
        dispatch' = [by |-> n, accepted |-> FALSE]
    BY <1>2 DEF Dispatched
  <2>2. items' \in Seq(ItemRec)
    BY QueueIs DEF TypeInv, QueueT, Q
  <2>3. 1 \in 1..Len(items')
    BY <2>1, <2>2, EmptySeq, LenProperties
  <2>4. items'[1].msg \in Msgs(items')
    BY <2>3 DEF Msgs, In
  <2>5. Pending(n)'
    BY <1>2 DEF Pending, Dispatched
  <2> QED BY <1>1, <1>2, <2>1, <2>4, <2>5 DEF Starts
<1>3. CASE \E g \in Gens : Starts(e, "attach", None, g)
  BY <1>1, <1>3 DEF Starts
<1>4. CASE Starts(e, "user", typed + 1, n) /\ typed' = typed + 1 /\ items' = items
  BY <1>1, <1>4 DEF Starts
<1> QED BY <1>2, <1>3, <1>4, Grows DEF Effect, AskStep

\* Every step keeps messages from being sent twice.
LEMMA OnceSteps ==
    ASSUME QueueAssumption, TypeInv, TypeInv', Effect, Once, "stop" \notin Mishaps,
           "lost" \notin Mishaps
    PROVE  Once'
<1>a. /\ Len(reader) \in Nat /\ Len(reader') \in Nat
      /\ Len(reader') = Len(reader) \/ Len(reader') = Len(reader) + 1
      /\ \A k \in 1..Len(reader) : Same(reader'[k], reader[k]) /\ k \in Gens
      /\ typed \in Nat /\ (typed' = typed \/ typed' = typed + 1)
  BY Grows
<1>b. /\ Distinct(items')
      /\ \A m \in Msgs(items') : m \in Msgs(items) \/ (m = typed + 1 /\ typed' = typed + 1)
      /\ \A m \in Msgs(items') : m <= typed'
  BY ItemsSum DEF Once
<1>c. \A k \in 1..Len(reader) : Live(k)' => Live(k)
  BY LiveBefore
<1>d. \A k \in 1..Len(reader) : Pending(k) => Pending(k)' \/ ~Live(k)' \/
      reader[k].msg \notin Msgs(items')
  BY PendingAfter
<1>e. \A k \in 1..Len(reader) : Goes(k, reader[k], reader'[k])
  BY DEF Effect, RequestStep
<1>f. \A k \in 1..Len(reader) : reader[k].msg \in Nat
  BY LengthIs DEF TypeInv, Request, Messages, None
<1> DEFINE n == Len(reader) + 1
<1>1. OnceItems'
  <2>1. SUFFICES ASSUME NEW r \in 1..Len(reader'), Sender(r)', reader'[r].msg \in Msgs(items')
                 PROVE  Pending(r)' \/ ~Live(r)'
    BY <1>b DEF OnceItems
  <2>2. CASE r \in 1..Len(reader)
    <3>1. reader'[r].msg = reader[r].msg /\ Sender(r)
      BY <1>a, <2>1, <2>2 DEF Same, Sender
    <3>2. reader[r].msg \in Msgs(items)
      <4>1. reader[r].msg <= typed /\ reader[r].msg \in Nat
        BY <1>f, <2>2 DEF Once, OnceRequests
      <4> QED BY <1>a, <1>b, <2>1, <3>1, <4>1
    <3>3. Pending(r) \/ ~Live(r)
      BY <2>2, <3>1, <3>2 DEF Once, OnceItems
    <3> QED BY <1>c, <1>d, <2>1, <2>2, <3>1, <3>3
  <2>3. CASE r = Len(reader) + 1 /\ Len(reader') = r
    <3>1. \/ Pending(r)'
          \/ reader'[r].by = "attach"
          \/ reader'[r].msg = typed + 1 /\ items' = items
      BY <2>3, NewIs
    <3>2. typed + 1 \notin Msgs(items)
      BY <1>a, ItemsAre DEF Once, OnceItems, Messages
    <3> QED BY <2>1, <3>1, <3>2 DEF Sender
  <2> QED BY <1>a, <2>1, <2>2, <2>3
<1>2. ASSUME NEW r \in 1..Len(reader')
      PROVE  /\ ~reader'[r].cancelled /\ reader'[r].msg <= typed'
             /\ reader'[r].by = "attach" => reader'[r].msg = None
  <2>1. CASE r \in 1..Len(reader)
    <3>1. /\ ~reader[r].cancelled /\ reader[r].msg <= typed /\ reader[r].msg \in Nat
          /\ reader[r].by = "attach" => reader[r].msg = None
      BY <1>f, <2>1 DEF Once, OnceRequests
    <3>2. ~reader'[r].cancelled
      BY <1>e, <2>1, <3>1 DEF Goes
    <3>3. reader'[r].msg = reader[r].msg /\ reader'[r].by = reader[r].by
      BY <1>a, <2>1 DEF Same
    <3> QED BY <1>a, <3>1, <3>2, <3>3
  <2>2. CASE r = Len(reader) + 1 /\ Len(reader') = r
    <3>1. ~reader'[r].cancelled
      BY <2>2, NewIs
    <3>2. \/ reader'[r].msg \in Msgs(items') /\ reader'[r].by # "attach"
          \/ reader'[r].msg = None /\ reader'[r].by = "attach"
          \/ reader'[r].msg = typed + 1 /\ typed' = typed + 1 /\ reader'[r].by # "attach"
      BY <2>2, NewIs
    <3> QED BY <1>a, <1>b, <3>1, <3>2 DEF None
  <2> QED BY <1>a, <2>1, <2>2
<1>3. ASSUME NEW r \in 1..Len(reader'), NEW s \in 1..Len(reader'), Sender(r)', Sender(s)', s < r,
             reader'[r].msg = reader'[s].msg
      PROVE  ~Live(r)' \/ ~Live(s)'
  <2>0. s \in 1..Len(reader) /\ Sender(s) /\ reader'[s].msg = reader[s].msg
    BY <1>a, <1>3 DEF Same, Sender
  <2>1. CASE r \in 1..Len(reader)
    <3>1. Sender(r) /\ reader'[r].msg = reader[r].msg
      BY <1>a, <1>3, <2>1 DEF Same, Sender
    <3>2. ~Live(r) \/ ~Live(s)
      BY <1>3, <2>0, <2>1, <3>1 DEF Once, OnceRequests
    <3> QED BY <1>c, <2>0, <2>1, <3>2
  <2>2. CASE r = Len(reader) + 1 /\ Len(reader') = r
    <3>1. \/ Dispatched /\ reader'[r].msg \in Msgs(items')
          \/ reader'[r].by = "attach"
          \/ reader'[r].msg = typed + 1
      BY <2>2, NewIs
    <3>2. reader[s].msg <= typed /\ reader[s].msg \in Nat
      BY <1>f, <2>0 DEF Once, OnceRequests
    <3>3. CASE Dispatched /\ reader'[r].msg \in Msgs(items')
      <4>1. reader[s].msg \in Msgs(items)
        BY <1>a, <1>b, <1>3, <2>0, <3>2, <3>3
      <4>2. ~Pending(s)
        BY <1>a, <2>0, <3>3 DEF Pending, Dispatched, NoDispatch, None
      <4>3. ~Live(s)
        BY <2>0, <4>1, <4>2 DEF Once, OnceItems
      <4> QED BY <1>c, <2>0, <4>3
    <3> QED BY <1>a, <1>3, <2>0, <3>1, <3>2, <3>3 DEF Sender
  <2> QED BY <1>a, <1>3, <2>1, <2>2
<1>4. OnceRequests'
  <2>1. ASSUME NEW r \in 1..Len(reader'), NEW s \in 1..Len(reader'), Sender(r)', Sender(s)', r # s,
               reader'[r].msg = reader'[s].msg
        PROVE  ~Live(r)' \/ ~Live(s)'
    <3>1. r < s \/ s < r
      BY <1>a, <2>1
    <3> QED BY <1>3, <2>1, <3>1
  <2> QED BY <1>2, <2>1 DEF OnceRequests
<1>5. OncePending'
  <2>1. SUFFICES ASSUME NEW r \in 1..Len(reader'), Pending(r)'
                 PROVE  reader'[r].at \in {"asked", "settling"} /\
                        (reader'[r].at = "settling" => ~Sent(r)')
    BY DEF OncePending
  <2>2. CASE Pending(r) /\ dispatch' = dispatch /\ r \in 1..Len(reader)
    <3>1. /\ dispatch.by = r /\ dispatch.accepted = FALSE /\ r # None /\ dispatch' # NoDispatch
          /\ r \in Gens /\ reader[r].by = "queue" /\ ~reader[r].cancelled
      <4>1. dispatch.by = r /\ dispatch.accepted = FALSE /\ r # None /\ r \in Gens
        BY <1>a, <2>2 DEF Pending, None
      <4>2. dispatch' # NoDispatch
        BY <2>2, <4>1 DEF NoDispatch
      <4>3. reader[r].by = "queue" /\ ~reader[r].cancelled
        BY <2>2, <4>1 DEF TypeInv, QueueT, Once, OnceRequests
      <4> QED BY <4>1, <4>2, <4>3
    <3>2. ~Takes(r)
      <4>1. Takes(r) => dispatch'.accepted = TRUE
        BY DEF Takes
      <4> QED BY <2>2, <3>1, <4>1
    <3>3. reader[r].at \in {"asked", "settling"} /\ (reader[r].at = "settling" => ~Sent(r))
      BY <2>2 DEF Once, OncePending
    <3>4. Goes(r, reader[r], reader'[r])
      BY <1>e, <2>2
    <3>5. reader'[r].at \in {"asked", "settling"} /\ (reader'[r].at = "settling" => ~Sent(r))
      BY <2>2, <3>1, <3>2, <3>3, <3>4 DEF Goes, Pending
    <3>6. reader'[r].at = "settling" => ~Sent(r)'
      BY <3>1, <3>5 DEF Effect, ServerStep
    <3> QED BY <3>5, <3>6
  <2>3. CASE r = Len(reader) + 1 /\ Len(reader') = r
    BY <2>3, NewIs
  <2> QED BY <1>a, <2>1, <2>2, <2>3, PendingIs DEF Dispatched
<1> QED BY <1>1, <1>4, <1>5 DEF Once

\* A set without two different elements has at most one.
LEMMA AtMostOne ==
    ASSUME NEW S, \A x, y \in S : x = y
    PROVE  Cardinality(S) <= 1
<1>1. CASE S = {}
  BY <1>1, FS_EmptySet
<1>2. CASE S # {}
  <2>1. PICK x \in S : TRUE
    BY <1>2
  <2>2. S = {x}
    BY <2>1
  <2> QED BY <2>2, FS_Singleton
<1> QED BY <1>1, <1>2

\* The invariant implies the property.
LEMMA OnceIsNeverTwice == ASSUME QueueAssumption, TypeInv, Once PROVE NeverTwice
<1>1. SUFFICES ASSUME NEW m \in Messages PROVE Cardinality({r \in RequestsOf(m) : Sent(r)}) <= 1
  BY DEF NeverTwice
<1>2. ASSUME NEW r \in RequestsOf(m), NEW s \in RequestsOf(m), Sent(r), Sent(s) PROVE r = s
  <2>1. m # None
    BY DEF Messages, None
  <2>2. Sender(r) /\ Sender(s) /\ r \in 1..Len(reader) /\ s \in 1..Len(reader) /\
        reader[r].msg = reader[s].msg
    BY <2>1 DEF RequestsOf, Sender, Once, OnceRequests
  <2> QED BY <1>2, <2>2 DEF Once, OnceRequests, Live
<1> QED BY <1>2, AtMostOne

\* Initially nothing is sent or waits.
LEMMA InitOnce == QueueAssumption /\ Init => Once
<1>a. SUFFICES ASSUME QueueAssumption, Init PROVE Once
  OBVIOUS
<1>1. Len(reader) = 0 /\ Len(items) = 0
  BY <1>a DEF Init
<1>2. Msgs(items) = {}
  BY <1>1 DEF Msgs, In
<1> QED BY <1>1, <1>2 DEF Once, OnceItems, OnceRequests, OncePending, Distinct

\* A message reaches the server at most once, whatever fails, is refused or dropped, as long as the
\* user stops no turn and no answer is lost (an item is taken off when its dispatch is accepted).
THEOREM NoMessageTwice ==
    ASSUME QueueAssumption
    PROVE  Spec => [](Mishaps \cap {"stop", "lost"} = {} => NeverTwice)
<1> DEFINE Fit == "stop" \notin Mishaps /\ "lost" \notin Mishaps
           Inv == Fit => TypeInv /\ Once
<1>1. Init => Inv
  BY InitTypes, InitOnce
<1>2. Inv /\ [Next /\ UNCHANGED plan]_<<vars, plan>> => Inv'
  <2> SUFFICES ASSUME Inv, [Next]_vars, Mishaps' = Mishaps, Fit PROVE (TypeInv /\ Once)'
    BY Planned
  <2> QED BY EveryStep, OnceSteps
<1>3. Inv => (Mishaps \cap {"stop", "lost"} = {} => NeverTwice)
  BY OnceIsNeverTwice
<1> QED BY <1>1, <1>2, <1>3, PTL DEF Spec

-----------------------------------------------------------------------------
(* Messages stay in their chat. *)

\* The page shows a chat; every message that waits was typed in one, and every request of the
\* queue is made in the chat its message was typed in.
InChat ==
    /\ page.chat # Blank
    /\ \A r \in 1..Len(reader) : reader[r].chat # Blank
    /\ \A i \in In(items) : i.chat = home[i.msg] /\ i.chat # Blank /\ i.msg <= typed
    /\ \A r \in 1..Len(reader) : reader[r].by = "queue" =>
         /\ reader[r].chat = home[reader[r].msg] /\ reader[r].msg <= typed
         /\ Sent(r) => server[r].chat = home[reader[r].msg]

\* Every step keeps messages in their chat.
LEMMA InChatSteps ==
    ASSUME QueueAssumption, TypeInv, TypeInv', Effect, InChat, "new" \notin Mishaps
    PROVE  InChat'
<1>a. /\ Len(reader) \in Nat /\ Len(reader') \in Nat
      /\ Len(reader') = Len(reader) \/ Len(reader') = Len(reader) + 1
      /\ \A k \in 1..Len(reader) : Same(reader'[k], reader[k]) /\ k \in Gens
      /\ typed \in Nat /\ (typed' = typed \/ typed' = typed + 1)
  BY Grows
<1>b. /\ items \in Seq(ItemRec) /\ In(items) \subseteq ItemRec /\ typed' \in Nat
      /\ typed' = typed + 1 => typed + 1 \in Messages
  BY ItemsAre, TypedNow DEF TypeInv, RestT, QueueAssumption
<1>c. items' \in Seq(ItemRec) /\ In(items') \subseteq ItemRec
  <2>1. items' \in Seq(ItemRec)
    BY QueueIs DEF TypeInv, QueueT, Q
  <2>2. \A k \in 1..Len(items') : items'[k] \in ItemRec
    BY <2>1, ElementOfSeq
  <2> QED BY <2>1, <2>2 DEF In
<1>d. \A k \in 1..Len(reader) : /\ reader[k] \in Request
                                /\ reader'[k].chat = reader[k].chat
  <2>1. ASSUME NEW k \in 1..Len(reader) PROVE reader'[k].chat = reader[k].chat
    BY DEF Effect, RequestStep, Goes, InChat
  <2> QED BY <2>1, LengthIs DEF TypeInv
<1>1. page'.chat # Blank
  BY DEF Effect, PageStep, InChat
<1>2. \/ home' = home /\ typed' = typed
      \/ home' = [home EXCEPT ![typed + 1] = page.chat] /\ typed' = typed + 1
  BY DEF Effect, ItemsStep, Here, InChat
<1>3. \A m \in Messages : m <= typed => home'[m] = home[m]
  BY <1>a, <1>2 DEF TypeInv, RestT, Messages
<1>4. \A i \in In(items') : i.chat = home'[i.msg] /\ i.chat # Blank /\ i.msg <= typed'
  <2>1. ASSUME NEW i \in In(items) PROVE i.chat = home'[i.msg] /\ i.chat # Blank /\ i.msg <= typed'
    <3>1. i.msg \in Messages /\ i.msg <= typed /\ i.msg \in Nat /\ i.chat = home[i.msg] /\
          i.chat # Blank
      BY <1>b, <2>1 DEF InChat, ItemRec, Messages
    <3> QED BY <1>a, <1>b, <1>3, <3>1
  <2>2. CASE KeepsItems(items, items')
    <3>1. In(items') \subseteq In(items)
      BY <2>2 DEF KeepsItems, InChat
    <3> QED BY <2>1, <3>1
  <2>3. CASE /\ items' = Append(items, Item) /\ typed' = typed + 1
             /\ home' = [home EXCEPT ![typed + 1] = Here]
    <3>1. In(items') = In(items) \cup {Item}
      BY <1>b, <2>3, Arrives
    <3>2. Item.chat = page.chat /\ Item.msg = typed + 1
      BY DEF Item
    <3>3. home'[typed + 1] = page.chat
      BY <1>b, <2>3 DEF TypeInv, RestT, Here, InChat
    <3>4. Item.chat = home'[Item.msg] /\ Item.chat # Blank /\ Item.msg <= typed'
      BY <1>a, <2>3, <3>2, <3>3 DEF InChat
    <3> QED BY <2>1, <3>1, <3>4
  <2>4. CASE items' = items
    BY <2>1, <2>4
  <2>5. ASSUME NEW m, Drops(items, items', m) PROVE In(items') \subseteq In(items)
    BY <2>5 DEF Drops
  <2>6. ASSUME NEW k, Takes(k) PROVE In(items') \subseteq In(items)
    BY <2>6 DEF Takes, Drops
  <2> QED BY <2>1, <2>2, <2>3, <2>4, <2>5, <2>6 DEF Effect, ItemsStep
<1>5. ASSUME NEW r \in 1..Len(reader')
      PROVE  /\ reader'[r].chat # Blank
             /\ reader'[r].by = "queue" =>
                  /\ reader'[r].chat = home'[reader'[r].msg] /\ reader'[r].msg <= typed'
                  /\ Sent(r)' => server'[r].chat = home'[reader'[r].msg]
  <2>1. CASE r \in 1..Len(reader)
    <3>1. reader'[r].chat = reader[r].chat /\ Same(reader'[r], reader[r]) /\ r \in Gens /\
          reader[r].chat # Blank
      BY <1>a, <1>d, <2>1 DEF InChat
    <3>2. ASSUME reader[r].by = "queue"
          PROVE  /\ reader'[r].chat = home'[reader'[r].msg] /\ reader'[r].msg <= typed'
                 /\ Sent(r)' => server'[r].chat = home'[reader'[r].msg]
      <4>1. /\ reader[r].chat = home[reader[r].msg] /\ reader[r].msg <= typed
            /\ Sent(r) => server[r].chat = home[reader[r].msg]
        BY <2>1, <3>2 DEF InChat
      <4>2. reader[r].msg \in Messages /\ reader[r].msg \in Nat
        BY <2>1, <3>2, <1>d DEF TypeInv, ReaderT, Request, Messages, None
      <4>3. home'[reader[r].msg] = home[reader[r].msg]
        BY <1>3, <4>1, <4>2
      <4>4. Sent(r)' => server'[r].chat = home[reader[r].msg]
        BY <3>1, <4>1 DEF Effect, ServerStep
      <4> QED BY <1>a, <3>1, <4>1, <4>2, <4>3, <4>4 DEF Same
    <3> QED BY <3>1, <3>2 DEF Same
  <2>2. CASE r = Len(reader) + 1 /\ Len(reader') = r
    <3>1. ~Sent(r)'
      BY <2>2, NewIs
    <3>2. reader'[r].chat = page.chat
      BY <1>a, <2>2 DEF Effect, AskStep, Dispatched, Starts
    <3>3. ASSUME reader'[r].by = "queue"
          PROVE  reader'[r].chat = home'[reader'[r].msg] /\ reader'[r].msg <= typed'
      <4>1. /\ items' # <<>> /\ items'[1].chat = page.chat /\ reader'[r].msg = items'[1].msg
        BY <1>a, <2>2, <3>3 DEF Effect, AskStep, Dispatched, Starts
      <4>2. items'[1] \in In(items')
        <5>1. 1 \in 1..Len(items')
          BY <1>c, <4>1, EmptySeq, LenProperties
        <5> QED BY <5>1 DEF In
      <4> QED BY <1>4, <3>2, <4>1, <4>2
    <3> QED BY <3>1, <3>2, <3>3 DEF InChat
  <2> QED BY <1>a, <2>1, <2>2
<1> QED BY <1>1, <1>4, <1>5 DEF InChat

\* The invariant implies the property.
LEMMA InChatStays == ASSUME QueueAssumption, TypeInv, InChat PROVE StaysInItsChat
  BY DEF InChat, StaysInItsChat

\* A page that shows a chat starts in it.
LEMMA InitInChat == QueueAssumption /\ plan.start \in Existing /\ Init => InChat
<1>a. SUFFICES ASSUME QueueAssumption, plan.start \in Existing, Init PROVE InChat
  OBVIOUS
<1>1. Len(reader) = 0 /\ Len(items) = 0
  BY <1>a DEF Init
<1>2. In(items) = {}
  BY <1>1 DEF In
<1>3. page.chat # Blank
  BY <1>a DEF Init, Blank, QueueAssumption
<1> QED BY <1>1, <1>2, <1>3 DEF InChat

\* The queue sends a message to the chat it was typed in, whatever chat the user opened since and
\* whatever is stopped, fails or is lost (send compares the item's chat with the page's).
THEOREM MessagesStayInTheirChat ==
    ASSUME QueueAssumption
    PROVE  Spec => [](plan.start # Blank /\ "new" \notin Mishaps => StaysInItsChat)
<1> DEFINE Fit == plan.start # Blank /\ "new" \notin Mishaps
           Inv == Fit => TypeInv /\ InChat
<1>1. Init => Inv
  <2>1. Init /\ plan.start # Blank => plan.start \in Existing
    BY DEF Init, QueueAssumption, Blank
  <2> QED BY <2>1, InitTypes, InitInChat
<1>2. Inv /\ [Next /\ UNCHANGED plan]_<<vars, plan>> => Inv'
  <2> SUFFICES ASSUME Inv, [Next]_vars, Mishaps' = Mishaps, Fit PROVE (TypeInv /\ InChat)'
    BY Planned
  <2> QED BY EveryStep, InChatSteps
<1>3. Inv => (Fit => StaysInItsChat)
  BY InChatStays
<1> QED BY <1>1, <1>2, <1>3, PTL DEF Spec

-----------------------------------------------------------------------------
(* One turn at a time, and a queue that is held behind a broken one. *)

\* One page that stays in its chat: a request is asked or answered at a time.
Orderly == Mishaps \subseteq {"command", "fail", "refuse", "drop"}

Asks(r) == \/ reader[r].at \in {"asked", "reading"}
           \/ reader[r].at = "ended" /\ ~reader[r].notified

\* No request was cut off, and one that has not ended has told the queue nothing.
Calm ==
    /\ asking = {} /\ ~page.loading /\ ~page.probing
    /\ \A r \in 1..Len(reader) :
         /\ reader[r].by # "attach" /\ ~reader[r].cancelled
         /\ reader[r].at \in {"asked", "reading"} => ~reader[r].notified /\
               reader[r].status = "interrupted"
         /\ reader[r].at = "ended" /\ ~reader[r].notified => reader[r].status = "error"
         /\ reader[r].by = "queue" /\ reader[r].at = "asked" => Pending(r)
\* Only the last request is under way, and while it is the page is busy.
Single ==
    /\ \A r \in 1..Len(reader) : Asks(r) => r = Len(reader) /\ page.busy
    /\ page.busy => page.own = Len(reader) /\ Len(reader) # 0 /\ Asks(Len(reader))
    /\ page.own \in {None, Len(reader)}
\* The queue waits for that request, which has not told it of its end.
Held ==
    dispatch # NoDispatch =>
        /\ dispatch.by = Len(reader)
        /\ dispatch.accepted => Asks(Len(reader)) /\ reader[Len(reader)].at # "asked"
        /\ ~dispatch.accepted => reader[Len(reader)].at \in {"asked", "settling"}
\* Behind a turn that failed the queue is paused, or will be when the request ends.
Failing == \/ reader[Len(reader)].at = "settling" /\ Pending(Len(reader))
           \/ reader[Len(reader)].at = "ended" /\ ~reader[Len(reader)].notified
\* A queue behind a turn that failed.
Break == broken => items # <<>> /\ (paused \/ (Len(reader) # 0 /\ Failing))

\* The inductive invariant about turns.
OneTurn == Calm /\ Single /\ Held /\ Break

\* What the invariant says of the request the queue waits for.
LEMMA TurnFacts ==
    ASSUME QueueAssumption, TypeInv, OneTurn
    PROVE  /\ Len(reader) \in Nat
           /\ \A r \in 1..Len(reader) : reader[r].gen = r /\ r # None /\ reader[r] \in Request
           /\ dispatch # NoDispatch => /\ Len(reader) \in 1..Len(reader) /\
                                             dispatch.by = Len(reader)
                                       /\ reader[Len(reader)].by = "queue"
                                       /\ ~dispatch.accepted => Pending(Len(reader))
           /\ \A r \in 1..Len(reader) : Pending(r) => dispatch # NoDispatch /\ r = Len(reader) /\
                 ~dispatch.accepted
           /\ dispatch.by = None => dispatch = NoDispatch
           /\ Q \in Queue /\ Q.items = items /\ Q.dispatch = dispatch /\ Q.paused = paused
           /\ (paused => items # <<>>) /\ page.chat \in Chats
<1>1. Len(reader) \in Nat /\ \A r \in 1..Len(reader) : reader[r] \in Request
  BY LengthIs DEF TypeInv
<1>2. \A r \in 1..Len(reader) : reader[r].gen = r /\ r # None
  BY <1>1 DEF TypeInv, ReaderT, OneTurn, Calm, None
<1>3. Q \in Queue /\ Q.items = items /\ Q.dispatch = dispatch /\ Q.paused = paused
  BY DEF TypeInv, QueueT, Q
<1>4. dispatch \in DispatchRec
  BY <1>3, QueueIs
<1>5. dispatch = [by |-> dispatch.by, accepted |-> dispatch.accepted] /\
      dispatch.accepted \in BOOLEAN
  BY <1>4 DEF DispatchRec
<1>6. dispatch.by = None => ~dispatch.accepted
  BY DEF TypeInv, QueueT
<1>7. dispatch.by = None => dispatch = NoDispatch
  BY <1>5, <1>6 DEF NoDispatch
<1>8. dispatch # NoDispatch => /\ Len(reader) \in 1..Len(reader) /\ dispatch.by = Len(reader)
                               /\ reader[Len(reader)].by = "queue"
  BY <1>1, <1>7 DEF TypeInv, QueueT, OneTurn, Held, None
<1>9. dispatch # NoDispatch /\ ~dispatch.accepted => Pending(Len(reader))
  BY <1>5, <1>8 DEF Pending
<1>10. ASSUME NEW r \in 1..Len(reader), Pending(r)
       PROVE  dispatch # NoDispatch /\ r = Len(reader) /\ ~dispatch.accepted
  <2>1. dispatch.by = r /\ ~dispatch.accepted
    BY <1>10 DEF Pending
  <2>2. dispatch # NoDispatch
    BY <1>2, <2>1 DEF NoDispatch
  <2> QED BY <1>8, <2>1, <2>2
<1>11. (paused => items # <<>>) /\ page.chat \in Chats
  BY DEF TypeInv, QueueT, RestT, Page
<1> QED BY <1>1, <1>2, <1>3, <1>7, <1>8, <1>9, <1>10, <1>11

\* A step that leaves the requests and what the queue waits for alone.
LEMMA TurnRests ==
    ASSUME QueueAssumption, TypeInv, OneTurn, reader' = reader, dispatch' = dispatch,
           page'.busy = page.busy, page'.own = page.own, ~page'.loading, ~page'.probing,
             asking' = {},
           broken' => broken /\ items' # <<>>, items' # <<>> => (paused => paused')
    PROVE  OneTurn' /\ LeavesUnbroken
<1>1. Calm' /\ Single' /\ Held' /\ Break'
  BY DEF OneTurn, Calm, Single, Held, Break, Failing, Asks, Pending
<1> QED BY <1>1 DEF OneTurn, LeavesUnbroken

\* The queue sends its next message, or does not.
LEMMA TurnNext ==
    ASSUME QueueAssumption, TypeInv, OneTurn,
           NEW q \in Queue, q.paused => q.items # <<>>, q.dispatch = dispatch,
           NEW rd \in Seq(Request), Len(rd) = Len(reader),
           \A k \in 1..Len(reader) : \/ rd[k] = reader[k]
                                     \/ /\ reader[k].at = "settling" /\ rd[k].at = "settled" /\
                                           ~Pending(k)
                                        /\ Same(rd[k], reader[k]) /\ ~rd[k].cancelled,
           NEW force, NEW draft, ProcessNext(rd, q, force, draft), asking' = asking,
           broken' => broken /\ q.items # <<>> /\ ~force /\ (paused => q.paused)
    PROVE  OneTurn' /\ LeavesUnbroken
<1>a. /\ Len(reader) \in Nat
      /\ \A r \in 1..Len(reader) : reader[r].gen = r /\ r # None /\ reader[r] \in Request
      /\ dispatch # NoDispatch => Len(reader) \in 1..Len(reader)
      /\ dispatch.by = None => dispatch = NoDispatch
  BY TurnFacts
<1>b. \A k \in 1..Len(reader) : Same(rd[k], reader[k]) /\ ~rd[k].cancelled
  BY DEF Same, OneTurn, Calm
<1>1. /\ items' = q.items
      /\ (q.paused => paused')
      /\ \/ dispatch' = q.dispatch /\ reader' = rd /\ page' = page /\ transport' = transport
         \/ Sends(rd, q, force, draft)
  BY ProcessNextIs
<1>2. CASE dispatch' = q.dispatch /\ reader' = rd /\ page' = page /\ transport' = transport
  <2>1. /\ Len(reader') = Len(reader) /\ dispatch' = dispatch
        /\ \A k \in 1..Len(reader) : \/ reader'[k] = reader[k]
                                     \/ /\ reader[k].at = "settling" /\ reader'[k].at = "settled" /\
                                           ~Pending(k)
    BY <1>2
  <2>2. \A k \in 1..Len(reader) : Asks(k)' <=> Asks(k)
    BY <2>1 DEF Asks
  <2>3. \A k \in 1..Len(reader) : Pending(k)' <=> Pending(k)
    BY <2>1 DEF Pending
  <2>4. Calm'
    BY <1>2, <1>b, <2>1, <2>3 DEF OneTurn, Calm, Same
  <2>5. Single'
    BY <1>2, <1>a, <2>1, <2>2 DEF OneTurn, Single
  <2>6. Held'
    <3>1. ASSUME dispatch # NoDispatch
          PROVE  reader'[Len(reader)] = reader[Len(reader)] \/ dispatch.accepted
      BY <1>a, <2>1, <3>1, TurnFacts
    <3>2. dispatch.accepted /\ dispatch # NoDispatch => reader[Len(reader)].at # "settling"
      BY DEF OneTurn, Held, Asks
    <3>3. dispatch # NoDispatch => reader'[Len(reader)] = reader[Len(reader)]
      BY <1>a, <2>1, <3>1, <3>2
    <3> QED BY <1>a, <2>1, <2>2, <3>3 DEF OneTurn, Held
  <2>7. Break'
    <3>1. ASSUME broken', ~paused PROVE Len(reader') # 0 /\ Failing'
      <4>1. Len(reader) # 0 /\ Failing
        BY <3>1 DEF OneTurn, Break
      <4>2. reader'[Len(reader)] = reader[Len(reader)]
        BY <1>a, <2>1, <4>1 DEF Failing
      <4> QED BY <1>a, <2>1, <2>3, <4>1, <4>2 DEF Failing
    <3> QED BY <1>1, <3>1 DEF Break
  <2> QED BY <2>1, <2>4, <2>5, <2>6, <2>7 DEF OneTurn, LeavesUnbroken
<1>3. CASE Sends(rd, q, force, draft)
  <2>n. PICK n : n = Len(reader) + 1
    OBVIOUS
  <2>1. /\ dispatch = NoDispatch /\ ~page.busy /\ (q.paused => force)
        /\ dispatch' = [by |-> n, accepted |-> FALSE]
        /\ q.items # <<>> /\ Begin(rd, "queue", q.items[1].msg, n)
    BY <1>3, <2>n DEF Sends
  <2>2. q.items[1].msg \in Messages
    <3>1. q.items \in Seq(ItemRec)
      BY QueueIs
    <3>2. 1 \in 1..Len(q.items)
      BY <2>1, <3>1, EmptySeq, LenProperties
    <3>3. q.items[1] \in ItemRec
      BY <3>1, <3>2, ElementOfSeq
    <3> QED BY <3>3 DEF ItemRec
  <2>3. n \in Gens
    BY <1>a, <2>n, <2>1 DEF Begin, Gens, QueueAssumption
  <2>4. /\ Len(reader') = n /\ \A k \in 1..Len(reader) : reader'[k] = rd[k]
        /\ Starts(reader'[n], "queue", q.items[1].msg, n)
        /\ page'.own = n /\ page'.busy = TRUE
        /\ page'.loading = page.loading /\ (page'.probing => page.probing)
    BY <2>1, <2>2, <2>3, <2>n, BeginIs DEF TypeInv, RestT
  <2>5. \A k \in 1..Len(reader) : ~Asks(k)
    BY <2>1 DEF OneTurn, Single
  <2>6. \A k \in 1..Len(reader) : /\ ~Asks(k)' /\ reader'[k].by # "attach" /\ ~reader'[k].cancelled
    BY <1>b, <2>4, <2>5 DEF Asks, OneTurn, Calm, Same
  <2>7. Asks(n)' /\ Pending(n)'
    BY <2>1, <2>4 DEF Asks, Starts, Pending
  <2>8. ~broken'
    <3>1. ASSUME broken' PROVE FALSE
      <4>1. broken /\ ~paused
        BY <2>1, <3>1
      <4>2. Len(reader) # 0 /\ Failing
        BY <4>1 DEF OneTurn, Break
      <4>3. Len(reader) \in 1..Len(reader)
        BY <1>a, <4>2
      <4>4. Pending(Len(reader))
        BY <2>5, <4>2, <4>3 DEF Failing, Asks
      <4> QED BY <2>1, <4>3, <4>4, TurnFacts
    <3> QED BY <3>1
  <2>9. Calm'
    <3>1. asking' = {} /\ ~page'.loading /\ ~page'.probing
      BY <2>4 DEF OneTurn, Calm
    <3>2. ASSUME NEW k \in 1..Len(reader')
          PROVE  /\ reader'[k].by # "attach" /\ ~reader'[k].cancelled
                 /\ reader'[k].at \in {"asked", "reading"} => ~reader'[k].notified /\
                       reader'[k].status = "interrupted"
                 /\ reader'[k].at = "ended" /\ ~reader'[k].notified => reader'[k].status = "error"
                 /\ reader'[k].by = "queue" /\ reader'[k].at = "asked" => Pending(k)'
      <4>1. CASE k \in 1..Len(reader)
        BY <2>6, <4>1 DEF Asks
      <4>2. CASE k = n
        BY <2>4, <2>7, <4>2 DEF Starts
      <4> QED BY <1>a, <2>n, <2>4, <4>1, <4>2
    <3> QED BY <3>1, <3>2 DEF Calm
  <2>10. Single'
    BY <1>a, <2>n, <2>4, <2>6, <2>7 DEF Single
  <2>11. Held'
    BY <2>1, <2>4 DEF Held, Starts
  <2> QED BY <2>8, <2>9, <2>10, <2>11 DEF OneTurn, Break, LeavesUnbroken
<1> QED BY <1>1, <1>2, <1>3

\* Request r moves on: it is still under way, has just ended, or had ended before.
LEMMA TurnMoves ==
    ASSUME QueueAssumption, TypeInv, OneTurn, NEW r \in 1..Len(reader), NEW e,
           Same(e, reader[r]), Replaced(reader', r, e), ~e.cancelled, e.at # "asked",
           e.at = "reading" => ~e.notified /\ e.status = "interrupted",
           e.at = "ended" /\ ~e.notified => e.status = "error",
           asking' = asking, page'.loading = page.loading, page'.probing = page.probing,
           dispatch.by = r \/ dispatch' = dispatch,
           NEW now, now = (e.at = "reading" \/ (e.at = "ended" /\ ~e.notified)),
           \/ now /\ Asks(r) /\ page'.own = page.own /\ page'.busy = page.busy
           \/ ~now /\ Asks(r) /\ ~page'.busy /\ page'.own \in {page.own, None}
           \/ ~now /\ ~Asks(r) /\ page'.busy = page.busy /\ page'.own = page.own
           \/ ~now /\ ~Asks(r) /\ ~page.busy /\ ~page'.busy /\ page'.own \in {page.own, None}
    PROVE  /\ Calm' /\ Single' /\ Len(reader') = Len(reader) /\ reader'[r] = e
           /\ \A k \in 1..Len(reader) : k # r => reader'[k] = reader[k]
<1>a. Len(reader) \in Nat
  BY TurnFacts
<1>1. /\ Len(reader') = Len(reader) /\ reader'[r] = e
      /\ \A k \in 1..Len(reader) : k # r => reader'[k] = reader[k]
  BY DEF Replaced
<1>2. (Asks(r))' <=> now
  BY <1>1 DEF Asks
<1>3. \A k \in 1..Len(reader) : k # r => (Asks(k)' <=> Asks(k))
  BY <1>1 DEF Asks
<1>4. Calm'
  <2>1. ASSUME NEW k \in 1..Len(reader)
        PROVE  /\ reader'[k].by # "attach" /\ ~reader'[k].cancelled
               /\ reader'[k].at \in {"asked", "reading"} => ~reader'[k].notified /\
                     reader'[k].status = "interrupted"
               /\ reader'[k].at = "ended" /\ ~reader'[k].notified => reader'[k].status = "error"
               /\ reader'[k].by = "queue" /\ reader'[k].at = "asked" => Pending(k)'
    <3>1. CASE k = r
      BY <1>1, <3>1 DEF OneTurn, Calm, Same
    <3>2. CASE k # r
      <4>1. reader'[k] = reader[k]
        BY <1>1, <3>2
      <4>2. Pending(k) => Pending(k)'
        BY <3>2 DEF Pending
      <4> QED BY <4>1, <4>2 DEF OneTurn, Calm
    <3> QED BY <3>1, <3>2
  <2> QED BY <1>1, <2>1 DEF Calm, OneTurn
<1>5. Single'
  <2>1. \A k \in 1..Len(reader) : Asks(k) => k = Len(reader) /\ page.busy
    BY DEF OneTurn, Single
  <2>2. page.busy => page.own = Len(reader) /\ Len(reader) # 0 /\ Asks(Len(reader))
    BY DEF OneTurn, Single
  <2>3. page.own \in {None, Len(reader)} /\ page'.own \in {None, Len(reader)}
    BY DEF OneTurn, Single
  <2>4. \A k \in 1..Len(reader) : Asks(k)' => k = Len(reader) /\ page'.busy
    BY <1>2, <1>3, <2>1
  <2>5. ASSUME page'.busy
        PROVE  page'.own = Len(reader) /\ Len(reader) # 0 /\ (Asks(Len(reader)))'
    <3>1. page.busy /\ page'.own = page.own
      BY <2>5, <2>1
    <3>2. page.own = Len(reader) /\ Len(reader) # 0 /\ Asks(Len(reader)) /\
          Len(reader) \in 1..Len(reader)
      BY <1>a, <2>2, <3>1
    <3>3. CASE r = Len(reader)
      <4>1. now
        BY <2>5, <3>2, <3>3
      <4>2. reader'[Len(reader')] = e
        BY <1>1, <3>3
      <4> QED BY <3>1, <3>2, <4>1, <4>2 DEF Asks
    <3>4. CASE r # Len(reader)
      <4>1. reader'[Len(reader')] = reader[Len(reader)]
        BY <1>1, <3>2, <3>4
      <4> QED BY <3>1, <3>2, <4>1 DEF Asks
    <3> QED BY <3>3, <3>4
  <2> QED BY <1>1, <2>3, <2>4, <2>5 DEF Single
<1> QED BY <1>1, <1>4, <1>5

\* While the last request is asked or read, nothing but a pause holds the queue.
LEMMA BrokenPauses ==
    ASSUME QueueAssumption, TypeInv, OneTurn, broken,
           \/ reader[Len(reader)].at \in {"asked", "reading", "settled"}
           \/ reader[Len(reader)].at = "ended" /\ reader[Len(reader)].notified
           \/ reader[Len(reader)].at = "settling" /\ ~Pending(Len(reader))
    PROVE  paused
  BY DEF OneTurn, Break, Failing

\* The request that is under way is the last one and the page is its own.
LEMMA AsksIs ==
    ASSUME QueueAssumption, TypeInv, OneTurn, NEW r \in 1..Len(reader)
    PROVE  /\ Asks(r) => r = Len(reader) /\ page.busy /\ page.own = r
           /\ Owns(r) => r = Len(reader)
           /\ ~reader[r].cancelled /\ reader[r].by # "attach" /\ reader[r].gen = r
           /\ dispatch # NoDispatch => dispatch.by = Len(reader) /\ reader[Len(reader)].by = "queue"
<1>1. reader[r].gen = r /\ r # None /\
      (dispatch # NoDispatch => dispatch.by = Len(reader) /\ reader[Len(reader)].by = "queue")
  BY TurnFacts
<1> QED BY <1>1 DEF OneTurn, Calm, Single, Owns

\* What the queue hears of the end of the last request, which it waited for or did not.
LEMMA TerminalFrees ==
    ASSUME QueueAssumption, TypeInv, OneTurn, NEW r \in 1..Len(reader), r = Len(reader),
           dispatch # NoDispatch => dispatch.accepted,
           NEW status, SetQueue(Terminal(Q, reader[r].gen, status))
    PROVE  /\ dispatch' = NoDispatch /\ (items' = <<>>) = (items = <<>>)
           /\ status # "finished" /\ items' # <<>> => paused'
           /\ status = "finished" /\ items' # <<>> /\ paused => paused'
<1> DEFINE t == Terminal(Q, reader[r].gen, status)
<1>1. /\ Q \in Queue /\ Q.items = items /\ Q.dispatch = dispatch /\ Q.paused = paused
      /\ page.chat \in Chats
  BY TurnFacts
<1>2. Q.dispatch = NoDispatch \/ Waits(Q, reader[r].gen)
  BY <1>1, AsksIs DEF Waits
<1>3. /\ t \in Queue /\ Renamed(Q.items, t.items) /\ t.dispatch = NoDispatch
      /\ status = "finished" => t.paused = (Q.paused /\ (Q.dispatch = NoDispatch \/ Q.items # <<>>))
      /\ status # "finished" /\ Q.items # <<>> => t.paused
  BY <1>1, <1>2, TerminalIs
<1>4. items' = t.items /\ dispatch' = t.dispatch /\ paused' = t.paused
  BY DEF SetQueue
<1>5. items \in Seq(ItemRec) /\ t.items \in Seq(ItemRec)
  BY <1>1, <1>3, QueueIs
<1>6. (t.items = <<>>) = (items = <<>>)
  BY <1>1, <1>3, <1>5, RenamedKeeps
<1> QED BY <1>1, <1>3, <1>4, <1>6

\* What every step has to establish.
Turn == OneTurn' /\ LeavesUnbroken

\* Answered keeps the turns in order.
LEMMA TurnAnswered ==
    ASSUME QueueAssumption, TypeInv, OneTurn, NEW r \in 1..Len(reader), Answered(r) PROVE Turn
<1>a. Len(reader) \in Nat /\ reader \in Seq(Request) /\ reader[r] \in Request
  BY LengthIs DEF TypeInv, ReaderT
<1>1. PICK e \in Request : /\ Replaced(reader', r, e) /\ Same(e, reader[r])
                           /\ e.at = "reading" /\ e.notified = reader[r].notified
                           /\ e.cancelled = reader[r].cancelled /\ e.status = reader[r].status
  BY <1>a, AnsweringIs DEF Answered
<1>2. Asks(r) /\ r = Len(reader) /\ reader[r].at = "asked"
  BY AsksIs DEF Answered, Asks
<1>3. ~e.notified /\ e.status = "interrupted" /\ ~e.cancelled
  BY <1>1, <1>2 DEF OneTurn, Calm
<1>4. Q \in Queue /\ Q.dispatch = dispatch /\ Q.paused = paused /\ Q.items = items
      /\ dispatch = [by |-> dispatch.by, accepted |-> dispatch.accepted]
  BY TurnFacts, QueueIs DEF DispatchRec
<1>5. /\ dispatch.by = r => dispatch' = [by |-> r, accepted |-> TRUE]
      /\ dispatch.by # r => dispatch' = dispatch
      /\ paused /\ items' # <<>> => paused'
  <2>1. CASE dispatch.by = r
    <3> DEFINE q == [Q EXCEPT !.dispatch.accepted = TRUE]
    <3>1. dispatch \in DispatchRec
      BY <1>4, QueueIs
    <3>2. [dispatch EXCEPT !.accepted = TRUE] = [by |-> r, accepted |-> TRUE]
      BY <2>1, <3>1, AcceptingIs
    <3>3. [by |-> r, accepted |-> TRUE] \in DispatchRec
      BY <2>1, <3>1 DEF DispatchRec
    <3>4. q = [Q EXCEPT !.dispatch = [by |-> r, accepted |-> TRUE]]
      BY <1>4, <3>2
    <3>5. q \in Queue /\ q.dispatch = [by |-> r, accepted |-> TRUE] /\ q.paused = paused
      BY <1>4, <3>3, <3>4, DispatchIs
    <3>6. SetQueue(Without(q, reader[r].msg))
      BY <2>1 DEF Answered
    <3> HIDE DEF q
    <3>7. /\ Without(q, reader[r].msg).dispatch = q.dispatch
          /\ Without(q, reader[r].msg).paused = (q.paused /\ Without(q, reader[r].msg).items # <<>>)
      BY <3>5, WithoutIs
    <3> QED BY <2>1, <3>5, <3>6, <3>7 DEF SetQueue
  <2>2. CASE dispatch.by # r
    BY <1>4, <2>2 DEF Answered, SetQueue
  <2> QED BY <2>1, <2>2
<1>6. /\ Calm' /\ Single' /\ Len(reader') = Len(reader) /\ reader'[r] = e
      /\ \A k \in 1..Len(reader) : k # r => reader'[k] = reader[k]
  <2>1. asking' = asking /\ page' = page
    BY DEF Answered, world
  <2>2. PICK now : now = (e.at = "reading" \/ (e.at = "ended" /\ ~e.notified))
    OBVIOUS
  <2> QED BY <1>1, <1>2, <1>3, <1>5, <2>1, <2>2, TurnMoves
<1>7. Held'
  <2>1. CASE dispatch.by = r
    BY <1>1, <1>2, <1>3, <1>5, <1>6, <2>1 DEF Held, Asks
  <2>2. CASE dispatch.by # r
    BY <1>2, <1>5, <2>2, AsksIs DEF Held
  <2> QED BY <2>1, <2>2
<1>8. broken' => broken /\ items' # <<>>
  BY DEF Answered, Holds
<1>9. Break'
  BY <1>2, <1>5, <1>8, BrokenPauses DEF Break
<1> QED BY <1>5, <1>6, <1>7, <1>9, NothingWaits DEF Turn, OneTurn, LeavesUnbroken

\* Named keeps the turns in order.
LEMMA TurnNamed ==
    ASSUME QueueAssumption, TypeInv, OneTurn, NEW r \in 1..Len(reader), Named(r) PROVE Turn
<1>a. Len(reader) \in Nat /\ reader \in Seq(Request) /\ reader[r] \in Request
  BY LengthIs DEF TypeInv, ReaderT
<1>b. server[reader[r].gen].chat \in Chats
  BY <1>a DEF TypeInv, ServerT, Servers, Request
<1>1. PICK e \in Request : /\ Replaced(reader', r, e) /\ Same(e, reader[r])
                           /\ e.at = reader[r].at /\ e.notified = reader[r].notified
                           /\ e.cancelled = reader[r].cancelled /\ e.status = reader[r].status
  BY <1>a, <1>b, NamingIs DEF Named
<1>2. Asks(r) /\ r = Len(reader) /\ reader[r].at = "reading"
  BY AsksIs DEF Named, Reads, Asks
<1>3. ~e.notified /\ e.status = "interrupted" /\ ~e.cancelled
  BY <1>1, <1>2 DEF OneTurn, Calm
<1>4. /\ dispatch' = dispatch /\ items' = items /\ paused' = paused /\ broken' = broken /\
            asking' = asking
      /\ page'.own = page.own /\ page'.busy = page.busy /\ page'.loading = page.loading
      /\ page'.probing = page.probing
  BY DEF Named, queue, history, world, TypeInv, RestT, Page
<1>6. /\ Calm' /\ Single' /\ Len(reader') = Len(reader) /\ reader'[r] = e
      /\ \A k \in 1..Len(reader) : k # r => reader'[k] = reader[k]
  <2>2. PICK now : now = (e.at = "reading" \/ (e.at = "ended" /\ ~e.notified))
    OBVIOUS
  <2> QED BY <1>1, <1>2, <1>3, <1>4, <2>2, TurnMoves
<1>7. Held'
  BY <1>1, <1>2, <1>3, <1>4, <1>6 DEF OneTurn, Held, Asks
<1>9. Break'
  BY <1>2, <1>4, BrokenPauses DEF Break, OneTurn
<1> QED BY <1>4, <1>6, <1>7, <1>9 DEF Turn, OneTurn, LeavesUnbroken

\* Errored keeps the turns in order.
LEMMA TurnErrored ==
    ASSUME QueueAssumption, TypeInv, OneTurn, NEW r \in 1..Len(reader), Errored(r) PROVE Turn
<1>a. Len(reader) \in Nat /\ reader \in Seq(Request) /\ reader[r] \in Request
  BY LengthIs DEF TypeInv, ReaderT
<1>1. PICK e \in Request : /\ Replaced(reader', r, e) /\ Same(e, reader[r])
                           /\ e.at = "ended" /\ e.notified = reader[r].notified
                           /\ e.cancelled = reader[r].cancelled /\ e.status = "error"
  BY <1>a, FailingIs DEF Errored
<1>2. Asks(r) /\ r = Len(reader) /\ reader[r].at = "reading"
  BY AsksIs DEF Errored, Reads, Asks
<1>3. ~e.notified /\ ~e.cancelled
  BY <1>1, <1>2 DEF OneTurn, Calm
<1>4. /\ dispatch' = dispatch /\ items' = items /\ paused' = paused /\
            broken' = (broken \/ items # <<>>)
      /\ asking' = asking /\ page' = page
  BY DEF Errored, queue, world, Breaks
<1>6. /\ Calm' /\ Single' /\ Len(reader') = Len(reader) /\ reader'[r] = e
      /\ \A k \in 1..Len(reader) : k # r => reader'[k] = reader[k]
  <2>2. PICK now : now = (e.at = "reading" \/ (e.at = "ended" /\ ~e.notified))
    OBVIOUS
  <2> QED BY <1>1, <1>2, <1>3, <1>4, <2>2, TurnMoves
<1>7. Held'
  BY <1>1, <1>2, <1>3, <1>4, <1>6 DEF OneTurn, Held, Asks
<1>9. Break'
  <2>1. broken' => items' # <<>>
    BY <1>4 DEF OneTurn, Break
  <2>2. Len(reader') # 0 /\ reader'[Len(reader')] = e
    BY <1>a, <1>2, <1>6
  <2> QED BY <1>1, <1>3, <2>1, <2>2 DEF Break, Failing
<1> QED BY <1>4, <1>6, <1>7, <1>9 DEF Turn, OneTurn, LeavesUnbroken

\* Done keeps the turns in order.
LEMMA TurnDone ==
    ASSUME QueueAssumption, TypeInv, OneTurn, NEW r \in 1..Len(reader), Done(r) PROVE Turn
<1>a. Len(reader) \in Nat /\ reader \in Seq(Request) /\ reader[r] \in Request
  BY LengthIs DEF TypeInv, ReaderT
<1>1. PICK e \in Request : /\ Replaced(reader', r, e) /\ Same(e, reader[r])
                           /\ e.at = "ended" /\ e.notified = TRUE /\
                                 e.cancelled = reader[r].cancelled
  BY <1>a, FinishingIs DEF Done
<1>2. Asks(r) /\ r = Len(reader) /\ reader[r].at = "reading" /\ ~e.cancelled
  BY <1>1, AsksIs DEF Done, Reads, Asks
<1>3. dispatch # NoDispatch => dispatch.accepted
  BY <1>2 DEF OneTurn, Held
<1>4. /\ dispatch' = NoDispatch /\ (items' = <<>>) = (items = <<>>)
      /\ items' # <<>> /\ paused => paused'
  BY <1>2, <1>3, TerminalFrees DEF Done
<1>5. page'.busy = FALSE /\ page'.own = page.own /\ page'.loading = page.loading
      /\ page'.probing = page.probing /\ asking' = asking
  BY DEF Done, world, TypeInv, RestT, Page
<1>6. /\ Calm' /\ Single' /\ Len(reader') = Len(reader) /\ reader'[r] = e
      /\ \A k \in 1..Len(reader) : k # r => reader'[k] = reader[k]
  <2>1. dispatch.by = r \/ dispatch' = dispatch
    BY <1>2, <1>4, AsksIs
  <2>2. PICK now : now = (e.at = "reading" \/ (e.at = "ended" /\ ~e.notified))
    OBVIOUS
  <2> QED BY <1>1, <1>2, <1>5, <2>1, <2>2, TurnMoves
<1>7. Held'
  BY <1>4 DEF Held
<1>8. broken' => broken /\ items' # <<>>
  BY DEF Done, Holds
<1>9. Break'
  BY <1>2, <1>4, <1>8, BrokenPauses DEF Break
<1> QED BY <1>4, <1>6, <1>7, <1>9, NothingWaits DEF Turn, OneTurn, LeavesUnbroken

\* The page after Let_go.
LEMMA LettingGo ==
    page \in Page => /\ Let_go(page).busy = FALSE /\ Let_go(page).own = None
                     /\ Let_go(page).loading = page.loading /\ Let_go(page).probing = page.probing
  BY DEF Let_go, Page

\* Refused keeps the turns in order.
LEMMA TurnRefused ==
    ASSUME QueueAssumption, TypeInv, OneTurn, NEW r \in 1..Len(reader), Refused(r) PROVE Turn
<1>a. Len(reader) \in Nat /\ reader \in Seq(Request) /\ reader[r] \in Request
  BY LengthIs DEF TypeInv, ReaderT
<1>1. PICK e \in Request : /\ Replaced(reader', r, e) /\ Same(e, reader[r])
                           /\ e.at = "settling" /\ e.notified = TRUE /\
                                 e.cancelled = reader[r].cancelled
  BY <1>a, SettlingIs DEF Refused
<1>2. Asks(r) /\ r = Len(reader) /\ reader[r].at = "asked" /\ ~e.cancelled /\
      reader[r].by # "attach"
  BY <1>1, AsksIs DEF Refused, Asks
<1>3. page'.busy = FALSE /\ page'.own = None /\ page'.loading = page.loading
      /\ page'.probing = page.probing /\ asking' = asking
  BY LettingGo DEF Refused, world, TypeInv, RestT
<1>4. broken' = (broken \/ items # <<>>)
  BY DEF Refused, Breaks
<1>5. CASE reader[r].by = "queue"
  <2>1. items' = items /\ dispatch' = dispatch /\ paused' = paused
    BY <1>5 DEF Refused, SetQueue, Q
  <2>2. Pending(r)
    BY <1>2, <1>5 DEF OneTurn, Calm
  <2>3. /\ Calm' /\ Single' /\ Len(reader') = Len(reader) /\ reader'[r] = e
        /\ \A k \in 1..Len(reader) : k # r => reader'[k] = reader[k]
    <3>1. PICK now : now = (e.at = "reading" \/ (e.at = "ended" /\ ~e.notified))
      OBVIOUS
    <3> QED BY <1>1, <1>2, <1>3, <2>1, <3>1, TurnMoves
  <2>4. Held'
    BY <1>1, <1>2, <2>1, <2>2, <2>3 DEF OneTurn, Held, Pending
  <2>5. (Pending(r))'
    BY <2>1, <2>2 DEF Pending
  <2>6. Break'
    <3>1. broken' => items' # <<>>
      BY <1>4, <2>1 DEF OneTurn, Break
    <3>2. reader'[Len(reader')].at = "settling" /\ Len(reader') # 0
      BY <1>a, <1>1, <1>2, <2>3
    <3>3. Pending(Len(reader))'
      BY <1>2, <2>1, <2>2, <2>3 DEF Pending
    <3> QED BY <3>1, <3>2, <3>3 DEF Break, Failing
  <2> QED BY <2>1, <2>3, <2>4, <2>6 DEF Turn, OneTurn, LeavesUnbroken
<1>6. CASE reader[r].by # "queue"
  <2>1. dispatch = NoDispatch
    BY <1>2, <1>6, AsksIs
  <2>2. /\ dispatch' = NoDispatch /\ (items' = <<>>) = (items = <<>>)
        /\ items' # <<>> => paused'
    <3>1. SetQueue(Terminal(Q, reader[r].gen, "error"))
      BY <1>6 DEF Refused
    <3>2. dispatch # NoDispatch => dispatch.accepted
      BY <2>1
    <3>3. PICK status : status = "error"
      OBVIOUS
    <3>4. SetQueue(Terminal(Q, reader[r].gen, status)) /\ status # "finished"
      BY <3>1, <3>3
    <3> QED BY <1>2, <3>2, <3>4, TerminalFrees
  <2>3. Calm' /\ Single'
    <3>1. PICK now : now = (e.at = "reading" \/ (e.at = "ended" /\ ~e.notified))
      OBVIOUS
    <3> QED BY <1>1, <1>2, <1>3, <2>1, <2>2, <3>1, TurnMoves
  <2>4. broken' => items' # <<>>
    BY <1>4, <2>2 DEF OneTurn, Break
  <2> QED BY <2>2, <2>3, <2>4, NothingWaits DEF Turn, OneTurn, Held, Break, LeavesUnbroken
<1> QED BY <1>5, <1>6

\* Closed keeps the turns in order.
LEMMA TurnClosed ==
    ASSUME QueueAssumption, TypeInv, OneTurn, NEW r \in 1..Len(reader), Closed(r) PROVE Turn
<1>a. Len(reader) \in Nat /\ reader \in Seq(Request) /\ reader[r] \in Request
  BY LengthIs DEF TypeInv, ReaderT
<1>1. PICK e \in Request : /\ Replaced(reader', r, e) /\ Same(e, reader[r])
                           /\ e.at = "settling" /\ e.notified = TRUE /\
                                 e.cancelled = reader[r].cancelled
  BY <1>a, SettlingIs DEF Closed
<1>2. r = Len(reader) /\ ~e.cancelled /\ reader[r].at \in {"reading", "ended"}
  BY <1>1, AsksIs DEF Closed
<1>3. page'.busy = FALSE /\ page'.own = None /\ page'.loading = page.loading
      /\ page'.probing = page.probing /\ asking' = asking
  BY LettingGo DEF Closed, world, TypeInv, RestT
<1>4. broken' => (broken \/ items # <<>>)
  BY DEF Closed, Breaks, Holds
<1>5. broken' /\ reader[r].notified => broken /\ items' # <<>>
  <2>1. ASSUME reader[r].notified, broken', ~Holds PROVE FALSE
    <3>1. Reads(r)
      BY <2>1 DEF Closed
    <3> QED BY <2>1, <3>1 DEF Reads, OneTurn, Calm
  <2> QED BY <2>1 DEF Holds
<1>6. CASE reader[r].notified
  <2>0. reader[r].at = "ended" /\ ~Asks(r)
    BY <1>2, <1>6 DEF OneTurn, Calm, Asks
  <2>1. items' = items /\ dispatch' = dispatch /\ paused' = paused
    BY <1>6 DEF Closed, SetQueue, Q
  <2>2. dispatch = NoDispatch
    BY <1>2, <2>0 DEF OneTurn, Held
  <2>3. ~page.busy
    BY <1>2, <2>0 DEF OneTurn, Single
  <2>4. Calm' /\ Single'
    <3>1. PICK now : now = (e.at = "reading" \/ (e.at = "ended" /\ ~e.notified))
      OBVIOUS
    <3> QED BY <1>1, <1>2, <1>3, <2>0, <2>1, <2>3, <3>1, TurnMoves
  <2>5. Break'
    BY <1>2, <1>5, <1>6, <2>0, <2>1, BrokenPauses DEF Break
  <2> QED BY <2>1, <2>2, <2>4, <2>5 DEF Turn, OneTurn, Held, LeavesUnbroken
<1>7. CASE ~reader[r].notified
  <2>0. Asks(r) /\ reader[r].status # "finished"
    BY <1>2, <1>7 DEF OneTurn, Calm, Asks
  <2>1. dispatch # NoDispatch => dispatch.accepted
    BY <1>2 DEF OneTurn, Held
  <2>2. /\ dispatch' = NoDispatch /\ (items' = <<>>) = (items = <<>>)
        /\ items' # <<>> => paused'
    <3>1. SetQueue(Terminal(Q, reader[r].gen, reader[r].status))
      BY <1>7 DEF Closed
    <3> QED BY <1>2, <2>0, <2>1, <3>1, TerminalFrees
  <2>3. Calm' /\ Single'
    <3>0. dispatch.by = r \/ dispatch' = dispatch
      BY <1>2, <2>2, AsksIs
    <3>1. PICK now : now = (e.at = "reading" \/ (e.at = "ended" /\ ~e.notified))
      OBVIOUS
    <3> QED BY <1>1, <1>2, <1>3, <2>0, <3>0, <3>1, TurnMoves
  <2>4. broken' => items' # <<>>
    BY <1>4, <2>2 DEF OneTurn, Break
  <2> QED BY <2>2, <2>3, <2>4, NothingWaits DEF Turn, OneTurn, Held, Break, LeavesUnbroken
<1> QED BY <1>6, <1>7

\* Stale keeps the turns in order.
LEMMA TurnStale ==
    ASSUME QueueAssumption, TypeInv, OneTurn, NEW r \in 1..Len(reader), Stale(r) PROVE Turn
<1>a. Len(reader) \in Nat /\ reader \in Seq(Request) /\ reader[r] \in Request
  BY LengthIs DEF TypeInv, ReaderT
<1>1. PICK e \in Request : /\ Replaced(reader', r, e) /\ Same(e, reader[r])
                           /\ e.at = "settling" /\ e.notified = TRUE /\
                                 e.cancelled = reader[r].cancelled
  BY <1>a, SettlingIs DEF Stale
<1>2. ~Asks(r) /\ ~e.cancelled /\ reader[r].at = "ended" /\ reader[r].notified
  <2>1. ~Asks(r) /\ ~e.cancelled
    BY <1>1, AsksIs DEF Stale, Owns
  <2> QED BY <2>1 DEF Stale, Asks
<1>3. /\ dispatch' = dispatch /\ items' = items /\ paused' = paused /\ broken' = broken
      /\ asking' = asking /\ page' = page
  BY DEF Stale, queue, history, world
<1>4. /\ Calm' /\ Single' /\ Len(reader') = Len(reader) /\ reader'[r] = e
      /\ \A k \in 1..Len(reader) : k # r => reader'[k] = reader[k]
  <2>1. PICK now : now = (e.at = "reading" \/ (e.at = "ended" /\ ~e.notified))
    OBVIOUS
  <2> QED BY <1>1, <1>2, <1>3, <2>1, TurnMoves
<1>5. CASE r = Len(reader)
  <2>1. dispatch = NoDispatch
    BY <1>2, <1>5 DEF OneTurn, Held
  <2>2. Break'
    BY <1>2, <1>3, <1>5, BrokenPauses DEF OneTurn, Break
  <2> QED BY <1>3, <1>4, <2>1, <2>2 DEF Turn, OneTurn, Held, LeavesUnbroken
<1>6. CASE r # Len(reader)
  <2>1. Len(reader) # 0 => reader'[Len(reader)] = reader[Len(reader)]
    BY <1>a, <1>4, <1>6
  <2>2. dispatch # NoDispatch => Len(reader) # 0
    BY TurnFacts
  <2>3. Held' /\ Break'
    BY <1>3, <1>4, <2>1, <2>2 DEF OneTurn, Held, Break, Failing, Asks, Pending
  <2> QED BY <1>3, <1>4, <2>3 DEF Turn, OneTurn, LeavesUnbroken
<1> QED BY <1>5, <1>6

\* Settle keeps the turns in order.
LEMMA TurnSettle ==
    ASSUME QueueAssumption, TypeInv, OneTurn, NEW r \in 1..Len(reader), Settle(r) PROVE Turn
<1>a. Len(reader) \in Nat /\ reader \in Seq(Request) /\ reader[r] \in Request
  BY LengthIs DEF TypeInv, ReaderT
<1> DEFINE rd == [reader EXCEPT ![r].at = "settled"]
<1>1. PICK e \in Request : /\ Replaced(rd, r, e) /\ Same(e, reader[r])
                           /\ e.at = "settled" /\ e.cancelled = reader[r].cancelled
  BY <1>a, SettledIs
<1>2. ~Asks(r) /\ ~e.cancelled /\ reader[r].at = "settling" /\ reader[r].by # "attach"
  BY <1>1, AsksIs DEF Settle, Asks
<1>3. asking' = asking /\ (broken' => broken /\ items' # <<>>)
  BY DEF Settle, world, Holds
<1>4. Q \in Queue /\ Q.items = items /\ Q.dispatch = dispatch /\ Q.paused = paused
  BY TurnFacts
<1>5. CASE /\ reader[r].by = "queue"
           /\ SetQueue(IF dispatch = [by |-> r, accepted |-> FALSE] THEN Halt(Released(Q)) ELSE Q)
           /\ reader' = rd /\ UNCHANGED <<page, transport, drafting>>
  <2>1. \/ dispatch = [by |-> r, accepted |-> FALSE] /\ dispatch' = NoDispatch /\
              (items' # <<>> => paused')
        \/ /\ dispatch # [by |-> r, accepted |-> FALSE]
           /\ dispatch' = dispatch /\ items' = items /\ paused' = paused
    <3>1. CASE dispatch = [by |-> r, accepted |-> FALSE]
      <4>1. Halt(Released(Q)).dispatch = NoDispatch
            /\ Halt(Released(Q)).paused = (Halt(Released(Q)).items # <<>>)
        BY <1>4, ReleasedIs, HaltIs
      <4>2. SetQueue(Halt(Released(Q)))
        BY <1>5, <3>1
      <4> QED BY <3>1, <4>1, <4>2 DEF SetQueue
    <3>2. CASE dispatch # [by |-> r, accepted |-> FALSE]
      BY <1>4, <1>5, <3>2 DEF SetQueue
    <3> QED BY <3>1, <3>2
  <2>2. /\ Calm' /\ Single' /\ Len(reader') = Len(reader) /\ reader'[r] = e
        /\ \A k \in 1..Len(reader) : k # r => reader'[k] = reader[k]
    <3>0. dispatch.by = r \/ dispatch' = dispatch
      BY <2>1
    <3>1. PICK now : now = (e.at = "reading" \/ (e.at = "ended" /\ ~e.notified))
      OBVIOUS
    <3>2. Replaced(reader', r, e) /\ page' = page
      BY <1>1, <1>5
    <3> HIDE DEF rd
    <3> QED BY <1>1, <1>2, <1>3, <3>0, <3>1, <3>2, TurnMoves
  <2>3. CASE dispatch' = NoDispatch /\ (items' # <<>> => paused')
    BY <1>3, <2>2, <2>3, NothingWaits DEF Turn, OneTurn, Held, Break, LeavesUnbroken
  <2>4. CASE /\ dispatch # [by |-> r, accepted |-> FALSE]
             /\ dispatch' = dispatch /\ items' = items /\ paused' = paused
    <3>1. ~Pending(r)
      <4>1. dispatch = [by |-> dispatch.by, accepted |-> dispatch.accepted]
        BY <1>4, QueueIs DEF DispatchRec
      <4>2. dispatch.accepted \in BOOLEAN
        BY <1>4, QueueIs DEF DispatchRec
      <4> QED BY <2>4, <4>1, <4>2 DEF Pending
    <3>2. CASE r = Len(reader)
      <4>1. dispatch = NoDispatch
        BY <1>2, <3>1, <3>2, TurnFacts DEF OneTurn, Held, Asks
      <4>2. Break'
        BY <1>2, <1>3, <2>4, <3>1, <3>2, BrokenPauses DEF Break
      <4> QED BY <2>2, <2>4, <4>1, <4>2 DEF Turn, OneTurn, Held, LeavesUnbroken
    <3>3. CASE r # Len(reader)
      <4>1. Len(reader) # 0 => reader'[Len(reader)] = reader[Len(reader)]
        BY <1>a, <2>2, <3>3
      <4>2. dispatch # NoDispatch => Len(reader) # 0
        BY TurnFacts
      <4>3. Held' /\ Break'
        BY <1>3, <2>2, <2>4, <4>1, <4>2 DEF OneTurn, Held, Break, Failing, Asks, Pending
      <4> QED BY <2>2, <2>4, <4>3 DEF Turn, OneTurn, LeavesUnbroken
    <3> QED BY <3>2, <3>3
  <2> QED BY <2>1, <2>3, <2>4
<1>6. CASE reader[r].by = "user" /\ ProcessNext(rd, Q, FALSE, FALSE)
  <2>1. ~Pending(r)
    BY <1>6, TurnFacts
  <2>2. rd \in Seq(Request) /\ Len(rd) = Len(reader)
        /\ \A k \in 1..Len(reader) : rd[k] = IF k = r THEN e ELSE reader[k]
    BY <1>1 DEF Replaced
  <2> HIDE DEF rd
  <2>3. \A k \in 1..Len(reader) : \/ rd[k] = reader[k]
                                  \/ /\ reader[k].at = "settling" /\ rd[k].at = "settled" /\
                                        ~Pending(k)
                                     /\ Same(rd[k], reader[k]) /\ ~rd[k].cancelled
    BY <1>1, <1>2, <2>1, <2>2
  <2>4. Q.paused => Q.items # <<>>
    BY <1>4, TurnFacts
  <2>5. broken' => broken /\ Q.items # <<>> /\ (paused => Q.paused)
    <3>1. items' = Q.items
      BY <1>4, <1>6, <2>2, <2>4, ProcessNextIs
    <3> QED BY <1>3, <1>4, <3>1
  <2> QED BY <1>3, <1>4, <1>6, <2>2, <2>3, <2>4, <2>5, TurnNext DEF Turn
<1> QED BY <1>2, <1>5, <1>6 DEF Settle

\* A step that touches neither requests nor queue.
LEMMA TurnElsewhere ==
    ASSUME QueueAssumption, TypeInv, OneTurn,
           UNCHANGED <<reader, items, paused, dispatch, page, asking, broken>>
    PROVE  Turn
<1>1. asking' = {} /\ ~page'.loading /\ ~page'.probing
  BY DEF OneTurn, Calm
<1>2. broken => items # <<>>
  BY DEF OneTurn, Break
<1>3. page'.busy = page.busy /\ page'.own = page.own
  OBVIOUS
<1> QED BY <1>1, <1>2, <1>3, TurnRests DEF Turn

\* Submit keeps the turns in order.
LEMMA TurnSubmit ==
    ASSUME QueueAssumption, TypeInv, OneTurn, Submit PROVE Turn
<1>a. /\ Len(reader) \in Nat
      /\ \A k \in 1..Len(reader) : reader[k].gen = k /\ reader[k] \in Request
  BY TurnFacts
<1>b. typed + 1 \in Messages
  BY Typed DEF Submit
<1>c. LET q == [Q EXCEPT !.items = Append(@, Item)] IN
      q \in Queue /\ q.items # <<>> /\ q.dispatch = dispatch /\ q.paused = paused
  BY <1>b, ItemIs
<1>d. asking' = asking /\ asking = {} /\ ~page.loading /\ ~page.probing
  BY DEF Submit, world, OneTurn, Calm
<1>e. broken' => broken /\ items' # <<>>
  BY DEF Submit, Holds
<1> DEFINE q == [Q EXCEPT !.items = Append(@, Item)]
<1>1. CASE page.busy /\ SetQueue(q) /\ UNCHANGED <<page, transport, reader, drafting>>
  <2>1. dispatch' = dispatch /\ paused' = paused
    BY <1>1, <1>c DEF SetQueue
  <2>2. page'.busy = page.busy /\ page'.own = page.own /\ ~page'.loading /\ ~page'.probing /\
        reader' = reader
    BY <1>1, <1>d
  <2> QED BY <1>d, <1>e, <2>1, <2>2, TurnRests DEF Turn
<1>2. CASE ~page.busy /\ items # <<>> /\ ProcessNext(reader, q, FALSE, drafting)
  <2>1. reader \in Seq(Request)
    BY DEF TypeInv, ReaderT
  <2> HIDE DEF q
  <2>2. broken' => broken /\ q.items # <<>> /\ (paused => q.paused)
    BY <1>c, <1>e DEF q
  <2>3. q \in Queue /\ q.items # <<>> /\ q.dispatch = dispatch
    BY <1>c DEF q
  <2> QED BY <1>2, <1>d, <2>1, <2>2, <2>3, TurnNext DEF Turn
<1>3. CASE ~page.busy /\ items = <<>> /\ Begin(reader, "user", typed + 1, Len(reader) + 1) /\
           UNCHANGED queue
  <2>n. PICK n : n = Len(reader) + 1
    OBVIOUS
  <2>m. PICK m : m = typed + 1
    OBVIOUS
  <2>1. n \in Gens /\ m \in Messages /\ Begin(reader, "user", m, n) /\ reader \in Seq(Request) /\
        page \in Page
    BY <1>3, <1>a, <1>b, <2>n, <2>m DEF Begin, Gens, QueueAssumption, TypeInv, ReaderT, RestT
  <2>2. /\ Len(reader') = n /\ \A k \in 1..Len(reader) : reader'[k] = reader[k]
        /\ Starts(reader'[n], "user", m, n)
        /\ page'.own = n /\ page'.busy = TRUE
        /\ page'.loading = page.loading /\ (page'.probing => page.probing)
    BY <2>1, <2>n, BeginIs
  <2>3. items' = <<>> /\ dispatch' = dispatch
    BY <1>3 DEF queue
  <2>4. \A k \in 1..Len(reader) : ~Asks(k) /\ reader[k].at # "settling"
    <3>1. \A k \in 1..Len(reader) : ~Urgent(k)
      BY DEF Submit, Quiet
    <3> QED BY <1>3, <3>1 DEF OneTurn, Single, Urgent
  <2>5. dispatch = NoDispatch
    <3>1. SUFFICES ASSUME dispatch # NoDispatch PROVE FALSE
      OBVIOUS
    <3>2. Len(reader) \in 1..Len(reader)
      BY <3>1, TurnFacts
    <3> QED BY <2>4, <3>1, <3>2 DEF OneTurn, Held, Asks
  <2>6. \A k \in 1..Len(reader) : ~Asks(k)'
    BY <2>2, <2>4 DEF Asks
  <2>7. Asks(n)'
    BY <2>2 DEF Asks, Starts
  <2>8. Calm'
    <3>1. ASSUME NEW k \in 1..Len(reader')
          PROVE  /\ reader'[k].by # "attach" /\ ~reader'[k].cancelled
                 /\ reader'[k].at \in {"asked", "reading"} => ~reader'[k].notified /\
                       reader'[k].status = "interrupted"
                 /\ reader'[k].at = "ended" /\ ~reader'[k].notified => reader'[k].status = "error"
                 /\ reader'[k].by = "queue" /\ reader'[k].at = "asked" => Pending(k)'
      <4>1. CASE k \in 1..Len(reader)
        BY <2>2, <2>4, <4>1 DEF Asks, OneTurn, Calm
      <4>2. CASE k = n
        BY <2>2, <4>2 DEF Starts
      <4> QED BY <1>a, <2>n, <2>2, <4>1, <4>2
    <3> QED BY <1>d, <2>2, <3>1 DEF Calm
  <2>9. Single'
    BY <1>a, <2>n, <2>2, <2>6, <2>7 DEF Single
  <2> QED BY <1>e, <2>3, <2>5, <2>8, <2>9, NothingWaits DEF Turn, OneTurn, Held, Break,
    LeavesUnbroken
<1> QED BY <1>1, <1>2, <1>3 DEF Submit

\* The user lets the queue go on, or a microtask does.
LEMMA TurnSends ==
    ASSUME QueueAssumption, TypeInv, OneTurn, NEW q \in Queue, q.items = items,
           q.dispatch = dispatch,
           q.paused => items # <<>>, NEW force, ProcessNext(reader, q, force, drafting),
             asking' = asking,
           broken' => broken /\ ~force /\ (paused => q.paused)
    PROVE  Turn
<1>1. reader \in Seq(Request)
  BY DEF TypeInv, ReaderT
<1>2. broken' => broken /\ q.items # <<>> /\ ~force /\ (paused => q.paused)
  BY DEF OneTurn, Break
<1> QED BY <1>1, <1>2, TurnNext DEF Turn

\* Resume keeps the turns in order.
LEMMA TurnResume == ASSUME QueueAssumption, TypeInv, OneTurn, Resume PROVE Turn
<1>1. Q \in Queue /\ Q.items = items /\ Q.dispatch = dispatch
  BY TurnFacts
<1>2. PICK b \in BOOLEAN : b = FALSE
  OBVIOUS
<1>3. PICK q \in Queue : q = [Q EXCEPT !.paused = b] /\ q.items = items /\ q.dispatch = dispatch /\
      q.paused = b
  BY <1>1, PausedIs
<1>4. ProcessNext(reader, q, FALSE, drafting) /\ asking' = asking /\ broken' = FALSE
  BY <1>2, <1>3 DEF Resume, world
<1> QED BY <1>2, <1>3, <1>4, TurnSends

\* SendNext keeps the turns in order.
LEMMA TurnSendNext == ASSUME QueueAssumption, TypeInv, OneTurn, SendNext PROVE Turn
<1>1. Q \in Queue /\ Q.items = items /\ Q.dispatch = dispatch /\ (Q.paused => items # <<>>)
  BY TurnFacts
<1>2. PICK b \in BOOLEAN : b = TRUE
  OBVIOUS
<1>3. ProcessNext(reader, Q, b, drafting) /\ asking' = asking /\ broken' = FALSE
  BY <1>2 DEF SendNext, world
<1> QED BY <1>1, <1>3, TurnSends

\* Handoff keeps the turns in order.
LEMMA TurnHandoff == ASSUME QueueAssumption, TypeInv, OneTurn, Handoff PROVE Turn
<1>1. Q \in Queue /\ Q.items = items /\ Q.dispatch = dispatch /\ Q.paused = paused /\
      (Q.paused => items # <<>>)
  BY TurnFacts
<1>2. PICK b \in BOOLEAN : b = FALSE
  OBVIOUS
<1>3. PICK q \in Queue : /\ q = [Q EXCEPT !.handoff = b] /\ q.items = items /\ q.dispatch = dispatch
                         /\ q.paused = paused
  BY <1>1, HandoffIs
<1>4. ProcessNext(reader, q, b, drafting) /\ asking' = asking /\ (broken' => broken)
  BY <1>2, <1>3 DEF Handoff, world, Holds
<1>5. (q.paused => items # <<>>) /\ (broken' => broken /\ ~b /\ (paused => q.paused))
  BY <1>1, <1>2, <1>3, <1>4
<1> QED BY <1>3, <1>4, <1>5, TurnSends

\* Arrange keeps the turns in order.
LEMMA TurnArrange == ASSUME QueueAssumption, TypeInv, OneTurn, Arrange PROVE Turn
<1>1. Q \in Queue /\ Q.items = items /\ Q.dispatch = dispatch /\ Q.paused = paused
  BY TurnFacts
<1>2. /\ asking' = {} /\ page' = page /\ reader' = reader /\ ~page.loading /\ ~page.probing
      /\ (broken' => broken /\ items' # <<>>)
  BY DEF Arrange, world, Holds, OneTurn, Calm
<1>3. dispatch' = dispatch /\ (items' # <<>> /\ paused => paused')
  <2>1. CASE SetQueue(Halt(Q))
    <3>1. Halt(Q).dispatch = dispatch /\ Halt(Q).paused = (Halt(Q).items # <<>>)
      BY <1>1, HaltIs
    <3> QED BY <2>1, <3>1 DEF SetQueue
  <2>2. ASSUME NEW k \in DOMAIN items, SetQueue(Without(Q, items[k].msg))
        PROVE  dispatch' = dispatch /\ (items' # <<>> /\ paused => paused')
    <3>1. /\ Without(Q, items[k].msg).dispatch = dispatch
          /\ Without(Q, items[k].msg).paused = (paused /\ Without(Q, items[k].msg).items # <<>>)
      BY <1>1, WithoutIs
    <3> QED BY <2>2, <3>1 DEF SetQueue
  <2>3. CASE SetQueue([Q EXCEPT !.items = Append(Tail(@), Head(@))])
    BY <2>3 DEF SetQueue, Q
  <2> QED BY <2>1, <2>2, <2>3 DEF Arrange
<1> QED BY <1>2, <1>3, TurnRests DEF Turn

\* Every step keeps the turns in order.
LEMMA TurnSteps ==
    ASSUME QueueAssumption, TypeInv, OneTurn, Orderly, [Next]_vars PROVE Turn
<1>a. /\ "stop" \notin Mishaps /\ "open" \notin Mishaps /\ "new" \notin Mishaps /\
            "lost" \notin Mishaps
  BY DEF Orderly
<1>b. asking = {} /\ ~page.loading /\ ~page.probing
  BY DEF OneTurn, Calm
<1>1. CASE UNCHANGED vars
  <2>1. UNCHANGED <<reader, items, paused, dispatch, page, asking, broken>>
    BY <1>1 DEF vars, queue, world, history
  <2> QED BY <2>1, TurnElsewhere
<1>2. ASSUME NEW r \in 1..Len(reader), Accept(r) \/ Reader(r) PROVE Turn
  <2>1. ASSUME Accept(r) PROVE Turn
    <3>1. UNCHANGED <<reader, items, paused, dispatch, page, asking, broken>>
      BY <2>1 DEF Accept, queue, history
    <3> QED BY <3>1, TurnElsewhere
  <2>2. ~Cut(r)
    BY <1>a, AsksIs DEF Cut, May
  <2> QED BY <1>2, <2>1, <2>2, TurnAnswered, TurnRefused, TurnNamed, TurnDone, TurnErrored,
    TurnClosed,
             TurnStale, TurnSettle DEF Reader
<1>3. ASSUME NEW g \in Gens, Finish(g) \/ Acknowledged(g) \/ Unheard(g) PROVE Turn
  <2>1. ASSUME Finish(g) PROVE Turn
    <3>1. UNCHANGED <<reader, items, paused, dispatch, page, asking, broken>>
      BY <2>1 DEF Finish, queue, history
    <3> QED BY <3>1, TurnElsewhere
  <2> QED BY <1>3, <1>b, <2>1 DEF Acknowledged, Unheard
<1>4. ~Stop /\ ~NewChat /\ ~Loaded /\ ~Probe
  BY <1>a, <1>b DEF Stop, NewChat, Loaded, Probe, May
<1>5. \A c \in Existing \cup Gens : ~Open(c)
  BY <1>a DEF Open, May
<1> QED BY <1>1, <1>2, <1>3, <1>4, <1>5, TurnSubmit, TurnResume, TurnSendNext, TurnArrange,
  TurnHandoff DEF Next

\* Initially no turn is under way.
LEMMA InitTurn == QueueAssumption /\ Init => OneTurn
<1>a. SUFFICES ASSUME QueueAssumption, Init PROVE OneTurn
  OBVIOUS
<1>1. /\ Len(reader) = 0 /\ dispatch = NoDispatch /\ broken = FALSE /\ asking = {}
      /\ page.busy = FALSE /\ page.loading = FALSE /\ page.probing = FALSE /\ page.own = None
  BY <1>a DEF Init
<1> QED BY <1>1 DEF OneTurn, Calm, Single, Held, Break

\* Nothing leaves the queue behind a turn that failed, was refused or dropped before the user
\* resumes it (handleQueueGenerationTerminal pauses it, setQueuePaused lets it go on).
THEOREM BreakIsHeld ==
    ASSUME QueueAssumption
    PROVE  Spec => [][Orderly => LeavesUnbroken]_vars
<1> DEFINE Inv == Orderly => TypeInv /\ OneTurn
<1>1. Init => Inv
  BY InitTypes, InitTurn
<1>2. Inv /\ [Next /\ UNCHANGED plan]_<<vars, plan>> => Inv' /\ (Orderly => LeavesUnbroken)
  <2>1. ASSUME Inv, [Next]_vars, Orderly PROVE (TypeInv /\ OneTurn)' /\ LeavesUnbroken
    BY <2>1, EveryStep, TurnSteps DEF Turn
  <2>2. Mishaps' = Mishaps => (Orderly' <=> Orderly)
    BY DEF Orderly
  <2> QED BY <2>1, <2>2, Planned
<1> QED BY <1>1, <1>2, PTL DEF Spec

-----------------------------------------------------------------------------
(* Turns do not overlap. *)

\* Only the last request's generation runs, and it is still asked or read.
OneRuns == \A g \in Gens : server[g].state \in {"running", "stopping"} =>
               g = Len(reader) /\ g # 0 /\ reader[g].at \in {"asked", "reading"}

\* A generation that runs ran before, or its request was waiting for an answer.
LEMMA Starting ==
    ASSUME QueueAssumption, TypeInv, OneTurn, Orderly, [Next]_vars, NEW g \in Gens,
           server'[g].state \in {"running", "stopping"}
    PROVE  \/ server[g].state \in {"running", "stopping"}
           \/ g \in 1..Len(reader) /\ reader[g].at = "asked"
<1>1. CASE server' = server
  BY <1>1
<1>2. ASSUME NEW r \in 1..Len(reader), Accept(r)
      PROVE  \/ server[g].state \in {"running", "stopping"}
             \/ g \in 1..Len(reader) /\ reader[g].at = "asked"
  <2>1. CASE g = r
    BY <1>2, <2>1 DEF Accept
  <2>2. CASE g # r
    BY <1>2, <2>2 DEF Accept, TypeInv, ServerT, Servers
  <2> QED BY <2>1, <2>2
<1>3. ASSUME NEW f \in Gens, Finish(f) PROVE server[g].state \in {"running", "stopping"}
  BY <1>3 DEF Finish, TypeInv, ServerT, Servers
<1>4. asking = {}
  BY DEF OneTurn, Calm
<1>5. UNCHANGED vars => server' = server
  BY DEF vars, world
<1>6. Submit \/ Resume \/ SendNext \/ Arrange \/ Stop \/ NewChat \/ Loaded \/ Probe \/ Handoff
      \/ (\E c \in Existing \cup Gens : Open(c)) => server' = server
  BY DEF Submit, Resume, SendNext, Arrange, Stop, NewChat, Loaded, Probe, Handoff, Open, world
<1>7. \A r \in 1..Len(reader) : Reader(r) => server' = server
  BY DEF Reader, Answered, Refused, Cut, Named, Done, Errored, Closed, Stale, Settle, world
<1>8. \A f \in Gens : ~Acknowledged(f) /\ ~Unheard(f)
  BY <1>4 DEF Acknowledged, Unheard
<1> QED BY <1>1, <1>2, <1>3, <1>5, <1>6, <1>7, <1>8 DEF Next

\* Every step keeps to one running generation.
LEMMA RunsSteps ==
    ASSUME QueueAssumption, TypeInv, OneTurn, OneRuns, Orderly, "drop" \notin Mishaps,
           [Next]_vars, TypeInv', Effect, OneTurn'
    PROVE  OneRuns'
<1>a. /\ Len(reader) \in Nat /\ Len(reader') \in Nat
      /\ Len(reader') = Len(reader) \/ Len(reader') = Len(reader) + 1
  BY Grows
<1>b. "stop" \notin Mishaps /\ "lost" \notin Mishaps
  BY DEF Orderly
<1>1. SUFFICES ASSUME NEW g \in Gens, server'[g].state \in {"running", "stopping"}
               PROVE  g = Len(reader') /\ g # 0 /\ reader'[g].at \in {"asked", "reading"}
  BY DEF OneRuns
<1>2. g \in 1..Len(reader) /\ reader[g].at \in {"asked", "reading"}
      /\ (server[g].state \notin {"running", "stopping"} => reader[g].at = "asked")
  <2>1. server[g].state \in {"running", "stopping"} \/
        (g \in 1..Len(reader) /\ reader[g].at = "asked")
    BY <1>1, Starting
  <2> QED BY <1>a, <2>1 DEF OneRuns
<1>3. Goes(g, reader[g], reader'[g]) /\ Same(reader'[g], reader[g])
  BY <1>2 DEF Effect, RequestStep, Kept
<1>4. /\ ~reader[g].cancelled /\ reader[g].by # "attach" /\ reader[g].gen = g
      /\ page.own = g /\ g = Len(reader)
  BY <1>2, AsksIs DEF Asks
<1>5. reader'[g].at \in {"asked", "reading"}
  <2>1. CASE reader[g].at = "reading"
    BY <1>2, <1>3, <1>4, <2>1 DEF Goes
  <2>2. CASE reader[g].at = "asked"
    <3>1. SUFFICES ASSUME reader'[g].at \notin {"asked", "reading"} PROVE FALSE
      OBVIOUS
    <3>2. ~Sent(g)
      BY <1>b, <1>3, <1>4, <2>2, <3>1 DEF Goes
    <3>3. ~Sent(g)'
      BY <3>1, <3>2, <2>2 DEF Effect, ServerStep
    <3> QED BY <1>1, <3>3 DEF Sent
  <2> QED BY <1>2, <2>1, <2>2
<1>6. g \in 1..Len(reader')
  BY <1>a, <1>2
<1>7. g = Len(reader')
  BY <1>5, <1>6 DEF OneTurn, Single, Asks
<1> QED BY <1>5, <1>6, <1>7

\* The invariant implies the property.
LEMMA RunsAlone == ASSUME QueueAssumption, TypeInv, OneRuns PROVE NoOverlap
<1>1. SUFFICES ASSUME NEW r \in 1..Len(reader) PROVE Cardinality(RunningIn(server[r].chat)) <= 1
  BY DEF NoOverlap
<1>2. \A x, y \in RunningIn(server[r].chat) : x = y
  BY DEF RunningIn, OneRuns
<1> QED BY <1>2, AtMostOne

\* When no connection drops, the queue starts no turn in a chat where another still runs.
THEOREM TurnsRunAlone ==
    ASSUME QueueAssumption
    PROVE  Spec => [](Mishaps \subseteq {"command", "fail", "refuse"} => NoOverlap)
<1> DEFINE Fit == Mishaps \subseteq {"command", "fail", "refuse"}
           Inv == Fit => TypeInv /\ OneTurn /\ OneRuns
<1>0. Fit => Orderly /\ "drop" \notin Mishaps
  BY DEF Orderly
<1>1. Init => Inv
  <2>1. Init => OneRuns
    BY DEF Init, OneRuns
  <2> QED BY <2>1, InitTypes, InitTurn
<1>2. Inv /\ [Next /\ UNCHANGED plan]_<<vars, plan>> => Inv'
  <2> SUFFICES ASSUME Inv, [Next]_vars, Mishaps' = Mishaps, Fit
               PROVE  (TypeInv /\ OneTurn /\ OneRuns)'
    BY Planned
  <2> HIDE DEF Fit
  <2>1. TypeInv /\ OneTurn /\ OneRuns /\ Orderly /\ "drop" \notin Mishaps
    BY <1>0
  <2> QED BY <2>1, EveryStep, TurnSteps, RunsSteps DEF Turn
<1>3. Inv => (Fit => NoOverlap)
  BY RunsAlone
<1> QED BY <1>1, <1>2, <1>3, PTL DEF Spec

=============================================================================
