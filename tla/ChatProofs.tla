------------------------------ MODULE ChatProofs ------------------------------
(***************************************************************************)
(* Proofs about MCChat, for any limits, any followers and any number of    *)
(* provider streams: what the clients of the stream in Redis are handed    *)
(* and told, and that a cancellation is taken for what it is.              *)
(***************************************************************************)
EXTENDS MCChat, FiniteSetTheorems, SequenceTheorems, TLAPS

-----------------------------------------------------------------------------
(* The hub in memory, for any number of generations, chats and subscribers  *)
(* and any limits.                                                          *)

\* In the buffer: the newest lines, all of them numbered without a hole.
GoodBuffer(r) ==
    /\ Len(r.buffer) <= r.seq
    /\ r.seq > 0 => Len(r.buffer) > 0
    /\ \A i \in 1 .. Len(r.buffer) : r.buffer[i] = r.seq - Len(r.buffer) + i

BufferInv == \A g \in Generations : GoodBuffer(gens[g])

Inside == {"look", "wait", "yield", "leave"}

\* The registrations of tasks agree with where the tasks are.
RegisteredInv ==
    \A s \in Subscribers :
        /\ at[s] \in Inside \cup {"gone"} => of[s] \in Generations
        /\ at[s] \in Inside /\ s \in Async => s \in listed[of[s]]
        /\ at[s] = "gone" => s \in Async
        /\ \A g \in Generations :
             s \in listed[g] => of[s] = g /\ at[s] \in Inside \cup {"gone"}

\* Those subscriber_count stands for.
Attached(g) ==
    {s \in Subscribers : of[s] = g /\ (at[s] \in Inside \/ s \in listed[g])}

HubCount ==
    \A g \in Generations :
        /\ gens[g].count = Cardinality(Attached(g))
        /\ ~gens[g].present => gens[g].count = 0

HubInv == TypeOK /\ BufferInv /\ RegisteredInv /\ HubCount

-----------------------------------------------------------------------------
(* The records of the hub.                                                 *)

LEMMA MinusNat == \A n, k \in Nat : Minus(n, k) \in Nat
BY DEF Minus

LEMMA FiniteAttached ==
    ASSUME NEW g PROVE IsFiniteSet(Attached(g))
BY FS_Subset, HubAssumption DEF Attached

LEMMA StaleCount ==
    ASSUME TypeOK, NEW g \in Generations
    PROVE  IsFiniteSet(Stale(g)) /\ Cardinality(Stale(g)) \in Nat
<1>1. Stale(g) \subseteq Subscribers
  BY HubAssumption DEF Stale, TypeOK
<1>2. IsFiniteSet(Stale(g))
  BY <1>1, FS_Subset, HubAssumption
<1>3. QED
  BY <1>2, FS_CardinalityType

LEMMA NoGenType == \A life \in Nat : NoGen(life) \in Gen /\ GoodBuffer(NoGen(life))
BY DEF NoGen, Gen, GoodBuffer

LEMMA NewGenType ==
    ASSUME NEW chat \in Chats \cup {NoChat}, NEW life \in Nat
    PROVE  /\ NewGen(chat, life) \in Gen
           /\ GoodBuffer(NewGen(chat, life))
           /\ NewGen(chat, life).count = 0
           /\ NewGen(chat, life).active
           /\ NewGen(chat, life).present
           /\ NewGen(chat, life).chat = chat
           /\ NewGen(chat, life).seq = 0
           /\ ~NewGen(chat, life).scheduled
<1>1. NewGen(chat, life) =
        [present |-> TRUE, chat |-> chat, seq |-> 0, buffer |-> <<>>, active |-> TRUE,
         count |-> 0, deadline |-> "none", scheduled |-> FALSE, life |-> life]
  <2> DEFINE q == NoGen(life)
  <2>1. q = [present |-> FALSE, chat |-> NoChat, seq |-> 0, buffer |-> <<>>,
             active |-> FALSE, count |-> 0, deadline |-> "none",
             scheduled |-> FALSE, life |-> life]
    BY DEF NoGen
  <2>2. NewGen(chat, life) = [q EXCEPT !.present = TRUE, !.active = TRUE, !.chat = chat]
    BY DEF NewGen
  <2> HIDE DEF q
  <2>3. QED
    BY <2>1, <2>2
<1>2. QED
  BY <1>1 DEF Gen, GoodBuffer

\* What the sections write into an entry.
LEMMA EntryTypes ==
    ASSUME NEW r \in Gen, GoodBuffer(r)
    PROVE  /\ Finished(r) \in Gen /\ GoodBuffer(Finished(r))
           /\ ScheduledGen(r) \in Gen /\ GoodBuffer(ScheduledGen(r))
           /\ Unfollowed(r) \in Gen /\ GoodBuffer(Unfollowed(r))
           /\ [r EXCEPT !.scheduled = FALSE] \in Gen
           /\ GoodBuffer([r EXCEPT !.scheduled = FALSE])
           /\ [r EXCEPT !.deadline = "passed"] \in Gen
           /\ GoodBuffer([r EXCEPT !.deadline = "passed"])
           /\ [r EXCEPT !.count = @ + 1] \in Gen
           /\ GoodBuffer([r EXCEPT !.count = @ + 1])
<1>1. Finished(r) \in Gen /\ GoodBuffer(Finished(r))
  BY DEF Finished, Gen, GoodBuffer
<1>2. ScheduledGen(r) \in Gen /\ GoodBuffer(ScheduledGen(r))
  BY DEF ScheduledGen, Gen, GoodBuffer
<1>3. Unfollowed(r) \in Gen /\ GoodBuffer(Unfollowed(r))
  BY MinusNat DEF Unfollowed, Gen, GoodBuffer
<1>4. /\ [r EXCEPT !.scheduled = FALSE] \in Gen
      /\ GoodBuffer([r EXCEPT !.scheduled = FALSE])
  BY DEF Gen, GoodBuffer
<1>5. /\ [r EXCEPT !.deadline = "passed"] \in Gen
      /\ GoodBuffer([r EXCEPT !.deadline = "passed"])
  BY DEF Gen, GoodBuffer
<1>6. /\ [r EXCEPT !.count = @ + 1] \in Gen
      /\ GoodBuffer([r EXCEPT !.count = @ + 1])
  BY DEF Gen, GoodBuffer
<1>7. QED
  BY <1>1, <1>2, <1>3, <1>4, <1>5, <1>6

LEMMA NotifiedType ==
    ASSUME TypeOK, NEW g \in Generations, GoodBuffer(gens[g])
    PROVE  /\ NotifiedGen(gens[g], g) \in Gen
           /\ GoodBuffer(NotifiedGen(gens[g], g))
<1> DEFINE n == Minus(gens[g].count, Cardinality(Stale(g)))
<1>1. n \in Nat
  BY StaleCount, MinusNat DEF TypeOK, Gen
<1>2. NotifiedGen(gens[g], g) = [gens[g] EXCEPT !.count = n]
  BY DEF NotifiedGen
<1>3. gens[g] \in Gen
  BY DEF TypeOK
<1> HIDE DEF n
<1>4. [gens[g] EXCEPT !.count = n] \in Gen
  BY <1>1, <1>3 DEF Gen
<1>5. GoodBuffer([gens[g] EXCEPT !.count = n])
  BY <1>3 DEF Gen, GoodBuffer
<1>6. QED
  BY <1>2, <1>4, <1>5

LEMMA TrimmedFacts ==
    ASSUME NEW buffer \in Seq(Nat), NEW last \in Nat, NEW kept \in 1 .. (Len(buffer) + 1)
    PROVE  /\ Trimmed(buffer, last, kept) \in Seq(Nat)
           /\ Len(Trimmed(buffer, last, kept)) = kept
           /\ \A i \in 1 .. kept :
                Trimmed(buffer, last, kept)[i] =
                    IF i = kept THEN last ELSE buffer[Len(buffer) + 1 - kept + i]
<1> DEFINE all == Append(buffer, last)
           lo  == Len(all) - kept + 1
<1>1. /\ all \in Seq(Nat) /\ Len(all) = Len(buffer) + 1
      /\ all[Len(buffer) + 1] = last
      /\ \A i \in 1 .. Len(buffer) : all[i] = buffer[i]
  OBVIOUS
<1>2. lo \in 1 .. Len(all) /\ Len(all) \in Int /\ lo \in Int
  BY <1>1
<1>3. \A i \in lo .. Len(all) : all[i] \in Nat
  BY <1>1, <1>2
<1>4. Trimmed(buffer, last, kept) = SubSeq(all, lo, Len(all))
  BY DEF Trimmed
<1> HIDE DEF all
<1>5. /\ SubSeq(all, lo, Len(all)) \in Seq(Nat)
      /\ Len(SubSeq(all, lo, Len(all))) = kept
      /\ \A i \in 1 .. kept : SubSeq(all, lo, Len(all))[i] = all[lo + i - 1]
  BY <1>2, <1>3, SubSeqProperties
<1>6. ASSUME NEW i \in 1 .. kept
      PROVE  all[lo + i - 1] = IF i = kept THEN last ELSE buffer[Len(buffer) + 1 - kept + i]
  <2>1. lo + i - 1 = Len(buffer) + 1 - kept + i /\ Len(buffer) \in Nat
    BY <1>1
  <2>2. CASE i = kept
    <3>1. lo + i - 1 = Len(buffer) + 1
      BY <2>1, <2>2
    <3>2. QED
      BY <1>1, <2>2, <3>1
  <2>3. CASE i # kept
    <3>1. Len(buffer) + 1 - kept + i \in 1 .. Len(buffer)
      BY <2>1, <2>3
    <3>2. QED
      BY <1>1, <2>1, <2>3, <3>1
  <2>4. QED
    BY <2>2, <2>3
<1>7. QED
  BY <1>4, <1>5, <1>6

LEMMA PublishedType ==
    ASSUME NEW r \in Gen, GoodBuffer(r), NEW kept \in 1 .. (Len(r.buffer) + 1)
    PROVE  /\ Published(r, kept) \in Gen
           /\ GoodBuffer(Published(r, kept))
<1>1. PICK n \in Nat : n = r.seq + 1
  BY DEF Gen
<1>2. PICK q \in Seq(Nat) : q = r.buffer
  BY DEF Gen
<1>3. kept \in 1 .. (Len(q) + 1) /\ Len(q) \in Nat /\ Len(q) < n
  BY <1>1, <1>2 DEF GoodBuffer, Gen
<1>4. PICK b : b = Trimmed(q, n, kept)
  OBVIOUS
<1>5. /\ b \in Seq(Nat) /\ Len(b) = kept
      /\ \A i \in 1 .. kept : b[i] = IF i = kept THEN n ELSE q[Len(q) + 1 - kept + i]
  <2>1. \A k \in 1 .. (Len(q) + 1) :
          /\ Trimmed(q, n, k) \in Seq(Nat)
          /\ Len(Trimmed(q, n, k)) = k
          /\ \A i \in 1 .. k :
               Trimmed(q, n, k)[i] = IF i = k THEN n ELSE q[Len(q) + 1 - k + i]
    BY <1>1, <1>2, TrimmedFacts, Zenon
  <2>2. QED
    BY <1>3, <1>4, <2>1
<1>6. \A i \in 1 .. Len(q) : q[i] = n - 1 - Len(q) + i
  BY <1>1, <1>2 DEF GoodBuffer, Gen
<1>7. ASSUME NEW i \in 1 .. kept PROVE b[i] = n - kept + i
  <2>1. CASE i = kept
    BY <1>5, <2>1
  <2>2. CASE i # kept
    <3>1. PICK x \in 1 .. Len(q) : x = Len(q) + 1 - kept + i
      <4>1. Len(q) + 1 - kept + i \in 1 .. Len(q)
        BY <1>3, <2>2
      <4>2. QED
        BY <4>1
    <3>2. b[i] = q[x] /\ q[x] = n - 1 - Len(q) + x
      BY <1>5, <1>6, <2>2, <3>1
    <3>3. QED
      BY <1>3, <3>1, <3>2
  <2>3. QED
    BY <2>1, <2>2
<1>8. Published(r, kept) = [r EXCEPT !.seq = n, !.buffer = b]
  BY <1>1, <1>2, <1>4 DEF Published
<1>9. [r EXCEPT !.seq = n, !.buffer = b] \in Gen
  BY <1>5 DEF Gen
<1>10. /\ [r EXCEPT !.seq = n, !.buffer = b].seq = n
       /\ [r EXCEPT !.seq = n, !.buffer = b].buffer = b
  BY DEF Gen
<1>11. QED
  BY <1>3, <1>5, <1>7, <1>8, <1>9, <1>10 DEF GoodBuffer

\* What a subscriber with cursor c finds in a good buffer.
LEMMA BufferEnds ==
    ASSUME NEW r \in Gen, GoodBuffer(r), r.buffer # <<>>
    PROVE  /\ Len(r.buffer) \in Nat \ {0} /\ r.seq \in Nat
           /\ r.buffer[1] = r.seq - Len(r.buffer) + 1
           /\ r.buffer[Len(r.buffer)] = r.seq
<1>1. r.buffer \in Seq(Nat) /\ r.seq \in Nat
  BY DEF Gen
<1>2. Len(r.buffer) \in Nat \ {0}
  BY <1>1, EmptySeq
<1>3. PICK n \in Nat \ {0} : n = Len(r.buffer)
  BY <1>2
<1>4. \A i \in 1 .. n : r.buffer[i] = r.seq - n + i
  BY <1>3 DEF GoodBuffer
<1>5. r.buffer[1] = r.seq - n + 1 /\ r.buffer[n] = r.seq - n + n
  BY <1>4
<1>6. QED
  BY <1>1, <1>3, <1>5

LEMMA NextLineFollows ==
    ASSUME NEW r \in Gen, GoodBuffer(r), NEW c \in Nat,
           ~Gap(r.buffer, c), Unread(r.buffer, c)
    PROVE  NextLine(r.buffer, c) = c + 1
<1>1. r.buffer # <<>>
  BY DEF Unread
<1>2. PICK n \in Nat : n = Len(r.buffer)
  BY <1>1, BufferEnds
<1>3. /\ r.seq \in Nat /\ r.buffer[1] = r.seq - n + 1 /\ n <= r.seq
      /\ c >= r.seq - n /\ c < r.seq
  BY <1>1, <1>2, BufferEnds DEF Gap, Unread, GoodBuffer
<1>4. Minus(c + 1, r.buffer[1]) + 1 = c - r.seq + n + 1
  BY <1>2, <1>3 DEF Minus
<1>5. c - r.seq + n + 1 \in 1 .. Len(r.buffer)
  BY <1>2, <1>3
<1>6. r.buffer[c - r.seq + n + 1] = r.seq - n + (c - r.seq + n + 1)
  BY <1>2, <1>5 DEF GoodBuffer
<1>7. QED
  BY <1>2, <1>3, <1>4, <1>6 DEF NextLine

LEMMA AllRead ==
    ASSUME NEW r \in Gen, GoodBuffer(r), NEW c \in Nat, ~Unread(r.buffer, c)
    PROVE  c >= r.seq
<1>1. CASE r.buffer = <<>>
  BY <1>1 DEF GoodBuffer, Gen
<1>2. CASE r.buffer # <<>>
  BY <1>2, BufferEnds DEF Unread
<1>3. QED
  BY <1>1, <1>2

-----------------------------------------------------------------------------
(* Types and buffers.                                                      *)

LEMMA EntryWritten ==
    ASSUME TypeOK, BufferInv, NEW g \in Generations, NEW r \in Gen, GoodBuffer(r),
           gens' = [gens EXCEPT ![g] = r]
    PROVE  gens' \in [Generations -> Gen] /\ BufferInv'
BY DEF TypeOK, BufferInv

LEMMA ForgetType ==
    ASSUME TypeOK, NEW g \in Generations, Forget(g)
    PROVE  byChat' \in [Chats -> Generations \cup {NoGeneration}]
BY DEF TypeOK, Forget

LEMMA NotifyType ==
    ASSUME TypeOK, NEW g \in Generations, Notify(g)
    PROVE  /\ event' \in [Subscribers -> BOOLEAN]
           /\ posted' \in [Subscribers -> BOOLEAN]
           /\ listed' \in [Generations -> SUBSET Async]
<1>1. event' \in [Subscribers -> BOOLEAN] /\ posted' \in [Subscribers -> BOOLEAN]
  BY DEF Notify, TypeOK
<1>2. listed' \in [Generations -> SUBSET Async]
  BY DEF Notify, TypeOK
<1>3. QED
  BY <1>1, <1>2

LEMMA ScheduleType ==
    ASSUME TypeOK, BufferInv, NEW g \in Generations, NEW r \in Gen, GoodBuffer(r),
           ScheduleCleanup(r, g)
    PROVE  /\ gens' \in [Generations -> Gen] /\ BufferInv'
           /\ heap' \subseteq Generations \X Nat
<1>1. r.life \in Nat
  BY DEF Gen
<1>2. CASE ReclaimsNow(r)
  BY <1>1, <1>2, NoGenType, EntryWritten DEF ScheduleCleanup, TypeOK
<1>3. CASE ~ReclaimsNow(r)
  <2>1. gens' = [gens EXCEPT ![g] = ScheduledGen(r)]
    BY <1>3 DEF ScheduleCleanup
  <2>2. heap' \subseteq Generations \X Nat
    BY <1>1, <1>3 DEF ScheduleCleanup, TypeOK
  <2>3. QED
    BY <2>1, <2>2, EntryTypes, EntryWritten
<1>4. QED
  BY <1>2, <1>3

LEMMA TypeNext ==
    TypeOK /\ BufferInv /\ RegisteredInv /\ [Next]_vars => TypeOK' /\ BufferInv'
<1> SUFFICES ASSUME TypeOK, BufferInv, RegisteredInv, [Next]_vars
             PROVE  TypeOK' /\ BufferInv'
  OBVIOUS
<1>1. \A g \in Generations : gens[g] \in Gen /\ GoodBuffer(gens[g])
  BY DEF TypeOK, BufferInv
<1>2. ASSUME NEW g \in Generations, GenerationStep(g) PROVE TypeOK' /\ BufferInv'
  <2>1. ASSUME NEW chat \in Chats \cup {NoChat}, Start(g, chat)
        PROVE  TypeOK' /\ BufferInv'
    <3>1. byChat' \in [Chats -> Generations \cup {NoGeneration}]
      BY <2>1 DEF Start, TypeOK
    <3>2. CASE gens[g].present
      <4> DEFINE r == [gens[g] EXCEPT !.chat = chat]
      <4>1. r \in Gen /\ GoodBuffer(r)
        BY <1>1, <2>1 DEF Gen, GoodBuffer
      <4>2. gens' = [gens EXCEPT ![g] = r]
        BY <2>1, <3>2 DEF Start
      <4> HIDE DEF r
      <4>3. QED
        BY <2>1, <3>1, <4>1, <4>2, EntryWritten DEF Start, TypeOK, wakeVars, subVars
    <3>3. CASE ~gens[g].present
      <4>1. gens[g].life + 1 \in Nat
        BY <1>1 DEF Gen
      <4>2. PICK l \in Nat : l = gens[g].life + 1
        BY <4>1
      <4>3. gens' = [gens EXCEPT ![g] = NewGen(chat, l)]
        BY <2>1, <3>3, <4>2 DEF Start
      <4>4. QED
        BY <2>1, <3>1, <4>3, NewGenType, EntryWritten DEF Start, TypeOK, wakeVars, subVars
    <3>4. QED
      BY <3>2, <3>3
  <2>2. CASE PublishLine(g)
    <3>1. PICK kept \in 1 .. MaxLines :
             /\ kept <= Len(gens[g].buffer) + 1
             /\ gens' = [gens EXCEPT ![g] = Published(NotifiedGen(gens[g], g), kept)]
      BY <2>2 DEF PublishLine
    <3>2. PICK r \in Gen : r = NotifiedGen(gens[g], g) /\ GoodBuffer(r)
      BY NotifiedType, <1>1
    <3>3. r.buffer = gens[g].buffer
      BY <1>1, <3>2 DEF NotifiedGen, Gen
    <3>4. kept \in 1 .. (Len(r.buffer) + 1)
      BY <3>1, <3>2, <3>3, HubAssumption DEF Gen
    <3>5. Published(r, kept) \in Gen /\ GoodBuffer(Published(r, kept))
      BY <3>2, <3>4, PublishedType
    <3>6. gens' \in [Generations -> Gen] /\ BufferInv'
      BY <3>1, <3>2, <3>5, EntryWritten
    <3>7. QED
      BY <2>2, <3>6, NotifyType DEF PublishLine, TypeOK, subVars
  <2>3. CASE MarkDone(g)
    <3>1. PICK q \in Gen : q = NotifiedGen(gens[g], g) /\ GoodBuffer(q)
      BY NotifiedType, <1>1
    <3>2. PICK r \in Gen : r = Finished(q) /\ GoodBuffer(r)
      BY <3>1, EntryTypes
    <3>3. /\ gens' \in [Generations -> Gen] /\ BufferInv'
          /\ heap' \subseteq Generations \X Nat
      <4>1. CASE r.count = 0
        <5>1. ScheduleCleanup(r, g)
          BY <2>3, <3>1, <3>2, <4>1 DEF MarkDone
        <5>2. QED
          BY <3>2, <5>1, ScheduleType
      <4>2. CASE r.count # 0
        <5>1. gens' = [gens EXCEPT ![g] = r] /\ heap' = heap
          BY <2>3, <3>1, <3>2, <4>2 DEF MarkDone
        <5>2. heap' \subseteq Generations \X Nat
          BY <5>1 DEF TypeOK
        <5>3. QED
          BY <3>2, <5>1, <5>2, EntryWritten
      <4>3. QED
        BY <4>1, <4>2
    <3>4. Notify(g) /\ Forget(g) /\ UNCHANGED subVars
      BY <2>3 DEF MarkDone
    <3>5. QED
      BY <3>3, <3>4, NotifyType, ForgetType DEF TypeOK, subVars
  <2>4. CASE DeadlinePasses(g)
    <3>1. gens' = [gens EXCEPT ![g] = [gens[g] EXCEPT !.deadline = "passed"]]
      BY <2>4 DEF DeadlinePasses
    <3>2. gens' \in [Generations -> Gen] /\ BufferInv'
      BY <1>1, <3>1, EntryTypes, EntryWritten
    <3>3. QED
      BY <2>4, <3>2 DEF DeadlinePasses, TypeOK, wakeVars, subVars
  <2>5. ASSUME NEW life \in 1 .. MaxLives, Reap(g, life) PROVE TypeOK' /\ BufferInv'
    <3>1. PICK r \in Gen : r = [gens[g] EXCEPT !.scheduled = FALSE] /\ GoodBuffer(r)
      BY <1>1, EntryTypes
    <3>2. /\ \/ gens' = [gens EXCEPT ![g] = NoGen(r.life)] /\ Forget(g)
             \/ gens' = [gens EXCEPT ![g] = r] /\ UNCHANGED byChat
             \/ gens' = gens /\ UNCHANGED byChat
          /\ heap' \subseteq heap
      BY <2>5, <3>1 DEF Reap
    <3>3. NoGen(r.life) \in Gen /\ GoodBuffer(NoGen(r.life))
      BY <3>1, NoGenType DEF Gen
    <3>4. gens' \in [Generations -> Gen] /\ BufferInv'
      <4>1. CASE gens' = [gens EXCEPT ![g] = NoGen(r.life)]
        BY <3>3, <4>1, EntryWritten
      <4>2. CASE gens' = [gens EXCEPT ![g] = r]
        BY <3>1, <4>2, EntryWritten
      <4>3. CASE gens' = gens
        BY <4>3 DEF TypeOK, BufferInv
      <4>4. QED
        BY <3>2, <4>1, <4>2, <4>3
    <3>5. byChat' \in [Chats -> Generations \cup {NoGeneration}]
      BY <3>2, ForgetType DEF TypeOK
    <3>6. QED
      BY <2>5, <3>2, <3>4, <3>5 DEF Reap, TypeOK, wakeVars, subVars
  <2>6. QED
    BY <1>2, <2>1, <2>2, <2>3, <2>4, <2>5 DEF GenerationStep
<1>3. ASSUME NEW s \in Subscribers, SubscriberStep(s) PROVE TypeOK' /\ BufferInv'
  <2> USE DEF SubscriberState
  <2>1. CASE Subscribe(s)
    <3>1. PICK g \in Generations, n \in 0 .. MaxSeq :
             /\ gens' = [gens EXCEPT ![g] = [gens[g] EXCEPT !.count = @ + 1]]
             /\ listed' = IF s \in Async THEN [listed EXCEPT ![g] = @ \cup {s}] ELSE listed
             /\ of' = [of EXCEPT ![s] = g]
             /\ from' = [from EXCEPT ![s] = n]
             /\ cursor' = [cursor EXCEPT ![s] = n]
      BY <2>1 DEF Subscribe
    <3>2. gens' \in [Generations -> Gen] /\ BufferInv'
      BY <1>1, <3>1, EntryTypes, EntryWritten
    <3>3. n \in Nat
      BY HubAssumption
    <3>4. listed' \in [Generations -> SUBSET Async]
      BY <3>1 DEF TypeOK
    <3>5. QED
      BY <2>1, <3>1, <3>2, <3>3, <3>4 DEF Subscribe, TypeOK, wakeVars
  <2>2. CASE Look(s)
    <3> DEFINE r == gens[of[s]]
               n == NextLine(r.buffer, cursor[s])
    <3>1. BufferInv'
      BY <2>2 DEF Look, hubVars, BufferInv
    <3>2. CASE ~(r.present /\ ~Gap(r.buffer, cursor[s]) /\ Unread(r.buffer, cursor[s]))
      <4>1. /\ UNCHANGED <<cursor, seen>>
            /\ at' \in [Subscribers -> SubscriberState]
            /\ ended' \in [Subscribers -> {"no", "end", "gap", "lost", "left"}]
            /\ event' \in [Subscribers -> BOOLEAN]
        BY <2>2, <3>2 DEF Look, Leaves, TypeOK
      <4>2. QED
        BY <2>2, <3>1, <4>1 DEF Look, TypeOK, hubVars
    <3>3. CASE r.present /\ ~Gap(r.buffer, cursor[s]) /\ Unread(r.buffer, cursor[s])
      <4>1. of[s] \in Generations
        BY <2>2 DEF Look, RegisteredInv, Inside
      <4>2. n \in Nat
        BY <1>1, <3>3, <4>1, NextLineFollows DEF TypeOK
      <4>3. /\ cursor' = [cursor EXCEPT ![s] = n]
            /\ seen' = [seen EXCEPT ![s] = @ \cup {n}]
            /\ at' = [at EXCEPT ![s] = "yield"]
            /\ UNCHANGED <<ended, event>>
        BY <2>2, <3>3 DEF Look
      <4> HIDE DEF r, n
      <4>4. QED
        BY <2>2, <3>1, <4>2, <4>3 DEF Look, TypeOK, hubVars
    <3>4. QED
      BY <3>2, <3>3
  <2>3. CASE Leave(s)
    <3>1. of[s] \in Generations
      BY <2>3 DEF Leave, RegisteredInv, Inside
    <3>2. PICK g \in Generations : g = of[s]
      BY <3>1
    <3>3. PICK r \in Gen :
             /\ GoodBuffer(r)
             /\ r = IF gens[g].present /\ (s \in Async => s \in listed[g])
                    THEN Unfollowed(gens[g]) ELSE gens[g]
      BY <1>1, EntryTypes
    <3>4. /\ \/ ScheduleCleanup(r, g)
             \/ gens' = [gens EXCEPT ![g] = r] /\ UNCHANGED heap
          /\ \/ Forget(g)
             \/ UNCHANGED byChat
      BY <2>3, <3>2, <3>3 DEF Leave
    <3>5. /\ gens' \in [Generations -> Gen] /\ BufferInv'
          /\ heap' \subseteq Generations \X Nat
      <4>1. CASE ScheduleCleanup(r, g)
        BY <3>3, <4>1, ScheduleType
      <4>2. CASE gens' = [gens EXCEPT ![g] = r] /\ UNCHANGED heap
        <5>1. heap' \subseteq Generations \X Nat
          BY <4>2 DEF TypeOK
        <5>2. QED
          BY <3>3, <4>2, <5>1, EntryWritten
      <4>3. QED
        BY <3>4, <4>1, <4>2
    <3>6. byChat' \in [Chats -> Generations \cup {NoGeneration}]
      BY <3>4, ForgetType DEF TypeOK
    <3>7. listed' \in [Generations -> SUBSET Async] /\ at' \in [Subscribers -> SubscriberState]
      BY <2>3 DEF Leave, TypeOK
    <3>8. UNCHANGED <<event, posted, of, from, cursor, seen, ended>>
      BY <2>3 DEF Leave, wakeVars
    <3>9. QED
      BY <3>5, <3>6, <3>7, <3>8 DEF TypeOK
  <2>4. CASE Resume(s) \/ Disconnect(s) \/ Wake(s) \/ Heartbeat(s) \/ LoopCloses(s)
    <3>1. UNCHANGED <<hubVars, wakeVars, of, from, cursor, seen>>
      BY <2>4 DEF Resume, Disconnect, Wake, Heartbeat, LoopCloses
    <3>2. /\ at' \in [Subscribers -> SubscriberState]
          /\ ended' \in [Subscribers -> {"no", "end", "gap", "lost", "left"}]
      BY <2>4 DEF Resume, Disconnect, Wake, Heartbeat, LoopCloses, Leaves, TypeOK
    <3>3. QED
      BY <3>1, <3>2 DEF TypeOK, BufferInv, hubVars, wakeVars
  <2>5. CASE RunPosted(s)
    BY <2>5 DEF RunPosted, TypeOK, BufferInv, hubVars, subVars
  <2>6. QED
    BY <1>3, <2>1, <2>2, <2>3, <2>4, <2>5 DEF SubscriberStep
<1>4. CASE UNCHANGED vars
  BY <1>4 DEF vars, hubVars, wakeVars, subVars, TypeOK, BufferInv
<1>5. QED
  BY <1>2, <1>3, <1>4 DEF Next

-----------------------------------------------------------------------------
(* Registrations and their count.                                          *)

LEMMA RegisteredNext == TypeOK /\ RegisteredInv /\ [Next]_vars => RegisteredInv'
<1> SUFFICES ASSUME TypeOK, RegisteredInv, [Next]_vars PROVE RegisteredInv'
  OBVIOUS
<1>1. ASSUME NEW g \in Generations, GenerationStep(g) PROVE RegisteredInv'
  <2>1. UNCHANGED <<at, of>>
    BY <1>1 DEF GenerationStep, Start, PublishLine, MarkDone, DeadlinePasses, Reap, subVars
  <2>2. UNCHANGED listed \/ listed' = [listed EXCEPT ![g] = @ \ Stale(g)]
    BY <1>1 DEF GenerationStep, Start, PublishLine, MarkDone, DeadlinePasses, Reap, Notify
  <2>3. ASSUME NEW s \in Subscribers, NEW h \in Generations
        PROVE  /\ s \in listed'[h] => s \in listed[h]
               /\ s \in listed[h] /\ at[s] # "gone" => s \in listed'[h]
    BY <2>2 DEF Stale, TypeOK
  <2>4. ASSUME NEW s \in Subscribers, at[s] \in Inside, s \in Async
        PROVE  s \in listed'[of[s]]
    <3>1. of[s] \in Generations /\ s \in listed[of[s]] /\ at[s] # "gone"
      BY <2>4 DEF RegisteredInv, Inside
    <3>2. QED
      BY <2>3, <3>1
  <2>5. QED
    BY <2>1, <2>3, <2>4 DEF RegisteredInv
<1>2. ASSUME NEW s \in Subscribers, SubscriberStep(s) PROVE RegisteredInv'
  <2>1. CASE Subscribe(s)
    <3>1. PICK g \in Generations :
             /\ listed' = IF s \in Async THEN [listed EXCEPT ![g] = @ \cup {s}] ELSE listed
             /\ of' = [of EXCEPT ![s] = g]
             /\ at' = [at EXCEPT ![s] = "look"]
             /\ at[s] = "new"
      BY <2>1 DEF Subscribe
    <3>2. \A h \in Generations : s \notin listed[h]
      BY <3>1 DEF RegisteredInv, Inside
    <3>3. QED
      BY <3>1, <3>2 DEF RegisteredInv, TypeOK, Inside
  <2>2. CASE Look(s) \/ Resume(s) \/ Disconnect(s) \/ Wake(s) \/ Heartbeat(s)
    <3>1. /\ \E a \in Inside : at' = [at EXCEPT ![s] = a]
          /\ at[s] \in Inside
          /\ UNCHANGED <<of, listed>>
      BY <2>2 DEF Look, Resume, Disconnect, Wake, Heartbeat, Leaves, hubVars, Inside
    <3>2. QED
      BY <3>1 DEF RegisteredInv, TypeOK, Inside
  <2>3. CASE Leave(s)
    <3>1. /\ at' = [at EXCEPT ![s] = "over"] /\ at[s] = "leave"
          /\ listed' = [listed EXCEPT ![of[s]] = @ \ {s}]
          /\ UNCHANGED of
      BY <2>3 DEF Leave
    <3>2. of[s] \in Generations
      BY <3>1 DEF RegisteredInv, Inside
    <3>3. \A h \in Generations : listed'[h] = listed[h] \ {s}
      BY <3>1, <3>2 DEF RegisteredInv, TypeOK
    <3>4. QED
      BY <3>1, <3>3 DEF RegisteredInv, TypeOK, Inside
  <2>4. CASE RunPosted(s)
    BY <2>4 DEF RunPosted, RegisteredInv, hubVars, subVars
  <2>5. CASE LoopCloses(s)
    BY <2>5, HubAssumption DEF LoopCloses, RegisteredInv, TypeOK, Inside, hubVars
  <2>6. QED
    BY <1>2, <2>1, <2>2, <2>3, <2>4, <2>5 DEF SubscriberStep
<1>3. CASE UNCHANGED vars
  BY <1>3 DEF vars, hubVars, subVars, RegisteredInv
<1>4. QED
  BY <1>1, <1>2, <1>3 DEF Next

\* A step that leaves counts and registrations alone.
LEMMA CountUnmoved ==
    ASSUME HubCount,
           \A h \in Generations :
             /\ gens'[h].count = gens[h].count
             /\ gens'[h].present \/ gens'[h].count = 0
             /\ Attached(h)' = Attached(h)
    PROVE  HubCount'
BY DEF HubCount

\* Dropping the closed loops of a generation keeps its count exact.
LEMMA NotifyCount ==
    ASSUME TypeOK, RegisteredInv, HubCount, NEW g \in Generations, Notify(g),
           UNCHANGED subVars
    PROVE  /\ NotifiedGen(gens[g], g).count = Cardinality(Attached(g)')
           /\ \A h \in Generations : h # g => Attached(h)' = Attached(h)
<1>1. listed' = [listed EXCEPT ![g] = @ \ Stale(g)] /\ UNCHANGED <<at, of>>
  BY DEF Notify, subVars
<1>2. Stale(g) \subseteq Attached(g)
  BY HubAssumption DEF Stale, Attached, RegisteredInv, TypeOK
<1>3. Attached(g)' = Attached(g) \ Stale(g)
  <2>1. ASSUME NEW s \in Subscribers, s \in Stale(g) PROVE at[s] \notin Inside
    BY <2>1 DEF Stale, Inside
  <2>2. QED
    BY <1>1, <2>1 DEF Attached, TypeOK
<1>4. \A h \in Generations : h # g => Attached(h)' = Attached(h)
  BY <1>1 DEF Attached, TypeOK
<1>5. /\ Attached(g) \cap Stale(g) = Stale(g)
      /\ IsFiniteSet(Attached(g)) /\ IsFiniteSet(Stale(g))
  BY <1>2, FiniteAttached, StaleCount
<1>6. Cardinality(Attached(g) \ Stale(g)) = Cardinality(Attached(g)) - Cardinality(Stale(g))
  BY <1>5, FS_Difference
<1>7. /\ Cardinality(Attached(g) \ Stale(g)) \in Nat
      /\ Cardinality(Attached(g)) \in Nat /\ Cardinality(Stale(g)) \in Nat
  BY <1>5, FS_CardinalityType, FS_Difference
<1>8. /\ gens[g].count = Cardinality(Attached(g))
      /\ gens[g] \in Gen
  BY DEF HubCount, TypeOK
<1>9. NotifiedGen(gens[g], g).count = Minus(gens[g].count, Cardinality(Stale(g)))
  BY <1>8 DEF NotifiedGen, Gen
<1>10. Minus(gens[g].count, Cardinality(Stale(g))) = gens[g].count - Cardinality(Stale(g))
  BY <1>6, <1>7, <1>8 DEF Minus
<1>11. QED
  BY <1>3, <1>4, <1>6, <1>8, <1>9, <1>10

LEMMA ScheduleCount ==
    ASSUME TypeOK, NEW g \in Generations, NEW r \in Gen, r.present, ScheduleCleanup(r, g)
    PROVE  /\ gens'[g].count = r.count
           /\ gens'[g].present \/ gens'[g].count = 0
           /\ \A h \in Generations : h # g => gens'[h] = gens[h]
<1>1. CASE ReclaimsNow(r)
  BY <1>1 DEF ScheduleCleanup, ReclaimsNow, NoGen, TypeOK
<1>2. CASE ~ReclaimsNow(r)
  <2>1. ScheduledGen(r).count = r.count /\ ScheduledGen(r).present = r.present
    BY DEF ScheduledGen, Gen
  <2>2. gens' = [gens EXCEPT ![g] = ScheduledGen(r)]
    BY <1>2 DEF ScheduleCleanup
  <2>3. QED
    BY <2>1, <2>2 DEF TypeOK
<1>3. QED
  BY <1>1, <1>2

LEMMA CountNext ==
    TypeOK /\ BufferInv /\ RegisteredInv /\ HubCount /\ [Next]_vars => HubCount'
<1> SUFFICES ASSUME TypeOK, BufferInv, RegisteredInv, HubCount, [Next]_vars
             PROVE  HubCount'
  OBVIOUS
<1>1. \A g \in Generations : gens[g] \in Gen /\ GoodBuffer(gens[g])
  BY DEF TypeOK, BufferInv
<1>2. ASSUME NEW g \in Generations, GenerationStep(g) PROVE HubCount'
  <2>1. ASSUME NEW chat \in Chats \cup {NoChat}, Start(g, chat) PROVE HubCount'
    <3>1. \A h \in Generations : Attached(h)' = Attached(h)
      BY <2>1 DEF Start, Attached, subVars
    <3>2. CASE gens[g].present
      <4> DEFINE r == [gens[g] EXCEPT !.chat = chat]
      <4>1. gens' = [gens EXCEPT ![g] = r]
        BY <2>1, <3>2 DEF Start
      <4>2. r.count = gens[g].count /\ r.present
        BY <1>1, <3>2 DEF Gen
      <4> HIDE DEF r
      <4>3. \A h \in Generations :
               /\ gens'[h].count = gens[h].count
               /\ gens'[h].present \/ gens'[h].count = 0
        BY <4>1, <4>2 DEF TypeOK, HubCount
      <4>4. QED
        BY <3>1, <4>3, CountUnmoved
    <3>3. CASE ~gens[g].present
      <4>1. PICK l \in Nat : l = gens[g].life + 1
        BY <1>1 DEF Gen
      <4>2. gens' = [gens EXCEPT ![g] = NewGen(chat, l)]
        BY <2>1, <3>3, <4>1 DEF Start
      <4>3. gens[g].count = 0
        BY <3>3 DEF HubCount
      <4>4. \A h \in Generations :
               /\ gens'[h].count = gens[h].count
               /\ gens'[h].present \/ gens'[h].count = 0
        <5>1. NewGen(chat, l).count = 0 /\ NewGen(chat, l).present
          BY NewGenType
        <5>2. gens'[g] = NewGen(chat, l) /\ \A h \in Generations \ {g} : gens'[h] = gens[h]
          BY <4>2 DEF TypeOK
        <5>3. QED
          BY <4>3, <5>1, <5>2 DEF HubCount
      <4>5. QED
        BY <3>1, <4>4, CountUnmoved
    <3>4. QED
      BY <3>2, <3>3
  <2>2. CASE PublishLine(g)
    <3>1. PICK kept \in 1 .. MaxLines :
             gens' = [gens EXCEPT ![g] = Published(NotifiedGen(gens[g], g), kept)]
      BY <2>2 DEF PublishLine
    <3>2. PICK r \in Gen : r = NotifiedGen(gens[g], g)
      BY NotifiedType, <1>1
    <3>3. gens[g].present /\ r.present
      BY <1>1, <2>2, <3>2 DEF PublishLine, NotifiedGen, Gen
    <3>4. Published(r, kept).count = r.count /\ Published(r, kept).present = r.present
      BY DEF Published, Gen
    <3>5. Notify(g) /\ UNCHANGED subVars
      BY <2>2 DEF PublishLine
    <3>6. r.count = Cardinality(Attached(g)')
      BY <3>2, <3>5, NotifyCount
    <3>7. \A h \in Generations : h # g => Attached(h)' = Attached(h) /\ gens'[h] = gens[h]
      BY <3>1, <3>5, NotifyCount DEF TypeOK
    <3>8. gens'[g].count = Cardinality(Attached(g)') /\ gens'[g].present
      BY <3>1, <3>2, <3>3, <3>4, <3>6 DEF TypeOK
    <3>9. QED
      BY <3>7, <3>8 DEF HubCount
  <2>3. CASE MarkDone(g)
    <3>1. PICK q \in Gen : q = NotifiedGen(gens[g], g) /\ GoodBuffer(q)
      BY NotifiedType, <1>1
    <3>2. PICK r \in Gen : r = Finished(q)
      BY <3>1, EntryTypes
    <3>3. r.present /\ r.count = q.count
      BY <1>1, <2>3, <3>1, <3>2 DEF MarkDone, NotifiedGen, Finished, Gen
    <3>4. Notify(g) /\ UNCHANGED subVars
      BY <2>3 DEF MarkDone
    <3>5. r.count = Cardinality(Attached(g)')
      BY <3>1, <3>3, <3>4, NotifyCount
    <3>6. /\ gens'[g].count = r.count
          /\ gens'[g].present \/ gens'[g].count = 0
          /\ \A h \in Generations : h # g => gens'[h] = gens[h]
      <4>1. CASE r.count = 0
        <5>1. ScheduleCleanup(r, g)
          BY <2>3, <3>1, <3>2, <4>1 DEF MarkDone
        <5>2. QED
          BY <3>3, <5>1, ScheduleCount
      <4>2. CASE r.count # 0
        <5>1. gens' = [gens EXCEPT ![g] = r]
          BY <2>3, <3>1, <3>2, <4>2 DEF MarkDone
        <5>2. QED
          BY <3>3, <5>1 DEF TypeOK
      <4>3. QED
        BY <4>1, <4>2
    <3>7. \A h \in Generations : h # g => Attached(h)' = Attached(h)
      BY <3>4, NotifyCount
    <3>8. QED
      BY <3>5, <3>6, <3>7 DEF HubCount
  <2>4. CASE DeadlinePasses(g)
    <3>1. \A h \in Generations : Attached(h)' = Attached(h)
      BY <2>4 DEF DeadlinePasses, Attached, subVars
    <3>2. QED
      BY <1>1, <2>4, <3>1, CountUnmoved DEF DeadlinePasses, TypeOK, Gen, HubCount
  <2>5. ASSUME NEW life \in 1 .. MaxLives, Reap(g, life) PROVE HubCount'
    <3>1. \A h \in Generations : Attached(h)' = Attached(h)
      BY <2>5 DEF Reap, Attached, subVars
    <3>2. PICK r \in Gen : r = [gens[g] EXCEPT !.scheduled = FALSE]
      BY <1>1, EntryTypes
    <3>3. /\ r.count = gens[g].count /\ r.present = gens[g].present
      BY <1>1, <3>2 DEF Gen
    <3>4. \/ r.count = 0 /\ gens' = [gens EXCEPT ![g] = NoGen(r.life)]
          \/ gens' = [gens EXCEPT ![g] = r]
          \/ gens' = gens
      BY <2>5, <3>2 DEF Reap, Idle
    <3>5. NoGen(r.life).count = 0
      BY DEF NoGen
    <3>6. \A h \in Generations :
             /\ gens'[h].count = gens[h].count
             /\ gens'[h].present \/ gens'[h].count = 0
      BY <3>3, <3>4, <3>5 DEF TypeOK, HubCount
    <3>7. QED
      BY <3>1, <3>6, CountUnmoved
  <2>6. QED
    BY <1>2, <2>1, <2>2, <2>3, <2>4, <2>5 DEF GenerationStep
<1>3. ASSUME NEW s \in Subscribers, SubscriberStep(s) PROVE HubCount'
  <2>1. CASE Subscribe(s)
    <3>1. PICK g \in Generations :
             /\ gens[g].present
             /\ gens' = [gens EXCEPT ![g] = [gens[g] EXCEPT !.count = @ + 1]]
             /\ listed' = IF s \in Async THEN [listed EXCEPT ![g] = @ \cup {s}] ELSE listed
             /\ of' = [of EXCEPT ![s] = g]
             /\ at' = [at EXCEPT ![s] = "look"]
             /\ at[s] = "new"
      BY <2>1 DEF Subscribe
    <3>2. \A h \in Generations : s \notin listed[h] /\ s \notin Attached(h)
      BY <3>1 DEF RegisteredInv, Attached, Inside
    <3>3. Attached(g)' = Attached(g) \cup {s}
      BY <3>1, <3>2 DEF Attached, TypeOK, Inside
    <3>4. \A h \in Generations : h # g => Attached(h)' = Attached(h)
      BY <3>1, <3>2 DEF Attached, TypeOK, Inside
    <3>5. Cardinality(Attached(g) \cup {s}) = Cardinality(Attached(g)) + 1
      BY <3>2, FiniteAttached, FS_AddElement
    <3>6. /\ gens'[g].count = gens[g].count + 1 /\ gens'[g].present
          /\ \A h \in Generations : h # g => gens'[h] = gens[h]
      BY <1>1, <3>1 DEF TypeOK, Gen
    <3>7. QED
      BY <3>3, <3>4, <3>5, <3>6 DEF HubCount
  <2>2. CASE Look(s) \/ Resume(s) \/ Disconnect(s) \/ Wake(s) \/ Heartbeat(s)
    <3>1. /\ \E a \in Inside : at' = [at EXCEPT ![s] = a]
          /\ at[s] \in Inside
          /\ UNCHANGED <<of, listed, gens>>
      BY <2>2 DEF Look, Resume, Disconnect, Wake, Heartbeat, Leaves, hubVars, Inside
    <3>2. \A h \in Generations : Attached(h)' = Attached(h)
      BY <3>1 DEF Attached, TypeOK
    <3>3. QED
      BY <3>1, <3>2, CountUnmoved DEF HubCount
  <2>3. CASE Leave(s)
    <3>1. PICK g \in Generations : g = of[s]
      BY <2>3 DEF Leave, RegisteredInv, Inside
    <3>2. at[s] = "leave" /\ s \in Attached(g) /\ (s \in Async => s \in listed[g])
      BY <2>3, <3>1 DEF Leave, RegisteredInv, Attached, Inside
    <3>3. Attached(g)' = Attached(g) \ {s}
      BY <2>3, <3>1 DEF Leave, Attached, TypeOK, Inside
    <3>4. \A h \in Generations : h # g => Attached(h)' = Attached(h)
      BY <2>3, <3>1 DEF Leave, Attached, TypeOK, Inside
    <3>5. /\ Cardinality(Attached(g) \ {s}) = Cardinality(Attached(g)) - 1
          /\ Cardinality(Attached(g) \ {s}) \in Nat
          /\ Cardinality(Attached(g)) \in Nat
      BY <3>2, FiniteAttached, FS_RemoveElement, FS_CardinalityType
    <3>6. gens[g].present /\ gens[g].count = Cardinality(Attached(g))
      BY <3>5 DEF HubCount
    <3>7. PICK r \in Gen : r = Unfollowed(gens[g])
      BY <1>1, EntryTypes
    <3>8. r.present /\ r.count = Cardinality(Attached(g)')
      BY <1>1, <3>3, <3>5, <3>6, <3>7 DEF Unfollowed, Gen, Minus
    <3>9. ScheduleCleanup(r, g) \/ gens' = [gens EXCEPT ![g] = r]
      BY <2>3, <3>1, <3>2, <3>6, <3>7 DEF Leave
    <3>10. /\ gens'[g].count = r.count
           /\ gens'[g].present \/ gens'[g].count = 0
           /\ \A h \in Generations : h # g => gens'[h] = gens[h]
      <4>1. CASE ScheduleCleanup(r, g)
        BY <3>8, <4>1, ScheduleCount
      <4>2. CASE gens' = [gens EXCEPT ![g] = r]
        BY <3>8, <4>2 DEF TypeOK
      <4>3. QED
        BY <3>9, <4>1, <4>2
    <3>11. QED
      BY <3>4, <3>8, <3>10 DEF HubCount
  <2>4. CASE RunPosted(s)
    BY <2>4 DEF RunPosted, HubCount, Attached, hubVars, subVars
  <2>5. CASE LoopCloses(s)
    <3>1. /\ at' = [at EXCEPT ![s] = "gone"] /\ at[s] \in Inside /\ s \in Async
          /\ UNCHANGED <<of, listed, gens>>
      BY <2>5, HubAssumption DEF LoopCloses, hubVars, Inside
    <3>2. s \in listed[of[s]]
      BY <3>1 DEF RegisteredInv
    <3>3. \A h \in Generations : Attached(h)' = Attached(h)
      BY <3>1, <3>2 DEF Attached, TypeOK, Inside
    <3>4. QED
      BY <3>1, <3>3, CountUnmoved DEF HubCount
  <2>6. QED
    BY <1>3, <2>1, <2>2, <2>3, <2>4, <2>5 DEF SubscriberStep
<1>4. CASE UNCHANGED vars
  BY <1>4 DEF vars, hubVars, subVars, HubCount, Attached
<1>5. QED
  BY <1>2, <1>3, <1>4 DEF Next

LEMMA HubInit == Init => HubInv
<1> SUFFICES ASSUME Init PROVE HubInv
  OBVIOUS
<1>1. \A g \in Generations : gens[g] = NoGen(0)
  BY DEF Init
<1>2. NoGen(0) \in Gen /\ GoodBuffer(NoGen(0))
  BY NoGenType
<1>3. TypeOK
  BY <1>1, <1>2 DEF Init, TypeOK, SubscriberState
<1>4. BufferInv
  BY <1>1, <1>2 DEF BufferInv
<1>5. RegisteredInv
  BY DEF Init, RegisteredInv, Inside
<1>6. \A g \in Generations : Attached(g) = {}
  BY DEF Init, Attached, Inside
<1>7. HubCount
  <2>1. NoGen(0).count = 0
    BY DEF NoGen
  <2>2. Cardinality({}) = 0
    BY FS_EmptySet
  <2>3. QED
    BY <1>1, <1>6, <2>1, <2>2 DEF HubCount
<1>8. QED
  BY <1>3, <1>4, <1>5, <1>7 DEF HubInv

LEMMA HubNext == HubInv /\ [Next]_vars => HubInv'
BY TypeNext, RegisteredNext, CountNext DEF HubInv

LEMMA HubInvariant == Spec => []HubInv
BY HubInit, HubNext, PTL DEF Spec

\* Every reachable state of the hub is well typed.
THEOREM HubTypeCorrect == Spec => []TypeOK
<1>1. HubInv => TypeOK
  BY DEF HubInv
<1>2. QED
  BY <1>1, HubInvariant, PTL

-----------------------------------------------------------------------------
(* What subscribers are handed.                                            *)

LEMMA InsideIsPresent ==
    ASSUME TypeOK, RegisteredInv, HubCount, NEW s \in Subscribers, at[s] \in Inside
    PROVE  of[s] \in Generations /\ gens[of[s]].present
<1>1. PICK g \in Generations : g = of[s]
  BY DEF RegisteredInv
<1>2. s \in Attached(g)
  BY <1>1 DEF Attached
<1>3. Cardinality(Attached(g)) # 0
  BY <1>2, FiniteAttached, FS_EmptySet
<1>4. QED
  BY <1>1, <1>3 DEF HubCount

\* What one step does to the outcome of a subscriber.
LEMMA OutcomeStep ==
    ASSUME HubInv, [Next]_vars, NEW s \in Subscribers, ended'[s] # ended[s]
    PROVE  \/ ended'[s] = "left"
           \/ Look(s)
<1>1. ASSUME NEW g \in Generations, GenerationStep(g) PROVE FALSE
  BY <1>1 DEF GenerationStep, Start, PublishLine, MarkDone, DeadlinePasses, Reap, subVars
<1>2. ASSUME NEW t \in Subscribers, SubscriberStep(t) PROVE ended'[s] = "left" \/ Look(s)
  <2>1. CASE Look(t)
    <3>1. CASE t = s
      BY <2>1, <3>1
    <3>2. CASE t # s
      BY <2>1, <3>2 DEF Look, Leaves, HubInv, TypeOK
    <3>3. QED
      BY <3>1, <3>2
  <2>2. CASE Disconnect(t)
    BY <2>2 DEF Disconnect, Leaves, HubInv, TypeOK
  <2>3. CASE ~Look(t) /\ ~Disconnect(t)
    BY <1>2, <2>3 DEF SubscriberStep, Subscribe, Resume, Wake, Heartbeat, Leave,
                     RunPosted, LoopCloses, subVars
  <2>4. QED
    BY <2>1, <2>2, <2>3
<1>3. CASE UNCHANGED vars
  BY <1>3 DEF vars, subVars
<1>4. QED
  BY <1>1, <1>2, <1>3 DEF Next

\* No stream is removed while somebody follows it, because its count is exact.
THEOREM FollowedStaysPresent == Spec => []FollowedStreamStays
<1>1. Init => FollowedStreamStays
  BY DEF Init, FollowedStreamStays
<1>2. HubInv /\ FollowedStreamStays /\ [Next]_vars => FollowedStreamStays'
  <2> SUFFICES ASSUME HubInv, FollowedStreamStays, [Next]_vars, NEW s \in Subscribers
               PROVE  ended'[s] # "lost"
    BY DEF FollowedStreamStays
  <2>1. CASE Look(s)
    <3>1. gens[of[s]].present
      BY <2>1, InsideIsPresent DEF Look, HubInv, Inside
    <3>2. QED
      BY <2>1, <3>1 DEF Look, Leaves, FollowedStreamStays, HubInv, TypeOK
  <2>2. CASE ~Look(s)
    BY <2>2, OutcomeStep DEF FollowedStreamStays
  <2>3. QED
    BY <2>1, <2>2
<1>3. QED
  BY <1>1, <1>2, HubInvariant, PTL DEF Spec

ReadInv ==
    \A s \in Subscribers : from[s] <= cursor[s] /\ (at[s] = "new" => seen[s] = {})

LEMMA ContiguousStep ==
    HubInv /\ ReadInv /\ ContiguousLines /\ [Next]_vars => ReadInv' /\ ContiguousLines'
<1> SUFFICES ASSUME HubInv, ReadInv, ContiguousLines, [Next]_vars, NEW s \in Subscribers
             PROVE  /\ from'[s] <= cursor'[s]
                    /\ at'[s] = "new" => seen'[s] = {}
                    /\ seen'[s] = (from'[s] + 1) .. cursor'[s]
  BY DEF ReadInv, ContiguousLines
<1> USE DEF HubInv, TypeOK
<1>1. /\ from[s] \in Nat /\ cursor[s] \in Nat /\ from[s] <= cursor[s]
      /\ at[s] = "new" => seen[s] = {}
      /\ seen[s] = (from[s] + 1) .. cursor[s]
  BY DEF ReadInv, ContiguousLines
<1>2. CASE /\ from'[s] = from[s] /\ cursor'[s] = cursor[s] /\ seen'[s] = seen[s]
           /\ at'[s] = "new" => at[s] = "new"
  BY <1>1, <1>2
<1>3. ASSUME NEW g \in Generations, GenerationStep(g) PROVE UNCHANGED <<at, from, cursor, seen>>
  BY <1>3 DEF GenerationStep, Start, PublishLine, MarkDone, DeadlinePasses, Reap, subVars
<1>4. ASSUME NEW t \in Subscribers, SubscriberStep(t)
      PROVE  /\ from'[s] <= cursor'[s]
             /\ at'[s] = "new" => seen'[s] = {}
             /\ seen'[s] = (from'[s] + 1) .. cursor'[s]
  <2>1. CASE Subscribe(t)
    <3>1. CASE t = s
      <4>1. PICK n \in 0 .. MaxSeq : from'[s] = n /\ cursor'[s] = n
        BY <2>1, <3>1 DEF Subscribe
      <4>2. seen'[s] = {} /\ n \in Nat /\ (n + 1) .. n = {}
        BY <1>1, <2>1, <3>1, HubAssumption DEF Subscribe
      <4>3. QED
        BY <4>1, <4>2
    <3>2. CASE t # s
      BY <1>2, <2>1, <3>2 DEF Subscribe
    <3>3. QED
      BY <3>1, <3>2
  <2>2. CASE Look(t)
    <3>1. /\ UNCHANGED from
          /\ t # s => cursor'[s] = cursor[s] /\ seen'[s] = seen[s] /\ at'[s] = at[s]
          /\ t = s => at'[s] # "new"
      BY <2>2 DEF Look, Leaves
    <3>2. CASE UNCHANGED <<cursor, seen>>
      BY <1>1, <3>1, <3>2
    <3>3. CASE t = s /\ ~UNCHANGED <<cursor, seen>>
      <4>1. of[s] \in Generations
        BY <2>2, <3>3, InsideIsPresent DEF Look, Inside
      <4>2. PICK r \in Gen : r = gens[of[s]] /\ GoodBuffer(r)
        BY <4>1 DEF BufferInv
      <4>3. /\ ~Gap(r.buffer, cursor[s]) /\ Unread(r.buffer, cursor[s])
            /\ cursor'[s] = NextLine(r.buffer, cursor[s])
            /\ seen'[s] = seen[s] \cup {NextLine(r.buffer, cursor[s])}
        BY <2>2, <3>3, <4>2 DEF Look
      <4>4. NextLine(r.buffer, cursor[s]) = cursor[s] + 1
        BY <1>1, <4>2, <4>3, NextLineFollows
      <4>5. seen'[s] = (from[s] + 1) .. (cursor[s] + 1)
        BY <1>1, <4>3, <4>4
      <4>6. QED
        BY <1>1, <3>1, <3>3, <4>3, <4>4, <4>5
    <3>4. QED
      BY <1>2, <3>1, <3>2, <3>3
  <2>3. CASE ~Subscribe(t) /\ ~Look(t)
    <3>1. UNCHANGED <<from, cursor, seen>> /\ (at'[s] = "new" => at[s] = "new")
      BY <1>4, <2>3 DEF SubscriberStep, Resume, Disconnect, Wake, Heartbeat, Leave,
                       RunPosted, LoopCloses, Leaves, subVars
    <3>2. QED
      BY <1>2, <3>1
  <2>4. QED
    BY <2>1, <2>2, <2>3
<1>5. CASE UNCHANGED vars
  BY <1>2, <1>5 DEF vars, subVars
<1>6. QED
  BY <1>2, <1>3, <1>4, <1>5 DEF Next

\* Lines arrive in order and without a hole, whatever the buffer dropped.
THEOREM LinesContiguous == Spec => []ContiguousLines
<1>1. Init => ReadInv /\ ContiguousLines
  BY DEF Init, ReadInv, ContiguousLines
<1>2. QED
  BY <1>1, ContiguousStep, HubInvariant, PTL DEF Spec

\* Whoever is told that the stream has ended was handed all of it.
THEOREM EndedWasComplete == Spec => EndsComplete
<1> DEFINE Complete ==
      \A s \in Subscribers :
         ended[s] # "end" /\ ended'[s] = "end"
             => (from[s] + 1) .. gens[of[s]].seq \subseteq seen[s]
<1>1. HubInv /\ ContiguousLines /\ [Next]_vars => [Complete]_vars
  <2> SUFFICES ASSUME HubInv, ContiguousLines, [Next]_vars, NEW s \in Subscribers,
                      ended[s] # "end", ended'[s] = "end"
               PROVE  (from[s] + 1) .. gens[of[s]].seq \subseteq seen[s]
    OBVIOUS
  <2>1. Look(s)
    BY OutcomeStep
  <2>2. PICK r \in Gen : r = gens[of[s]] /\ GoodBuffer(r)
    BY <2>1, InsideIsPresent DEF Look, Inside, HubInv, BufferInv, TypeOK
  <2>3. ~Unread(r.buffer, cursor[s])
    BY <2>1, <2>2 DEF Look, Leaves, HubInv, TypeOK
  <2>4. cursor[s] \in Nat /\ from[s] \in Nat /\ r.seq \in Nat /\ cursor[s] >= r.seq
    BY <2>2, <2>3, AllRead DEF HubInv, TypeOK, Gen
  <2>5. seen[s] = (from[s] + 1) .. cursor[s]
    BY DEF ContiguousLines
  <2>6. QED
    BY <2>2, <2>4, <2>5
<1>2. QED
  BY <1>1, HubInvariant, LinesContiguous, PTL DEF Spec, EndsComplete

-----------------------------------------------------------------------------
(* Wakeups.                                                                *)

\* While a stream is there, only publishing and finishing change what a waiting
\* subscriber looks at.
LEMMA NewsStep ==
    ASSUME HubInv, HubInv', [Next]_vars, NEW g \in Generations,
           gens[g].present, gens'[g].present
    PROVE  \/ gens'[g].seq = gens[g].seq /\ gens'[g].active = gens[g].active
           \/ PublishLine(g) \/ MarkDone(g)
<1> DEFINE Same == gens'[g].seq = gens[g].seq /\ gens'[g].active = gens[g].active
<1>1. gens[g] \in Gen /\ \A h \in Generations : gens[h] \in Gen
  BY DEF HubInv, TypeOK
<1>2. \A life : ~NoGen(life).present
  BY DEF NoGen
<1>3. ASSUME NEW h \in Generations, NEW r \in Gen, r.seq = gens[h].seq,
             r.active = gens[h].active, gens' = [gens EXCEPT ![h] = r]
      PROVE  Same
  BY <1>3 DEF HubInv, TypeOK
<1>4. ASSUME NEW h \in Generations, GenerationStep(h) PROVE Same \/ PublishLine(g) \/ MarkDone(g)
  <2>1. ASSUME NEW chat \in Chats \cup {NoChat}, Start(h, chat) PROVE Same
    <3>1. CASE gens[h].present
      <4>1. gens' = [gens EXCEPT ![h] = [gens[h] EXCEPT !.chat = chat]]
        BY <2>1, <3>1 DEF Start
      <4>2. [gens[h] EXCEPT !.chat = chat] \in Gen
        BY <1>1, <2>1 DEF Gen
      <4>3. /\ [gens[h] EXCEPT !.chat = chat].seq = gens[h].seq
            /\ [gens[h] EXCEPT !.chat = chat].active = gens[h].active
        BY <1>1 DEF Gen
      <4>4. QED
        BY <1>3, <4>1, <4>2, <4>3
    <3>2. CASE ~gens[h].present
      <4>1. gens' = [gens EXCEPT ![h] = NewGen(chat, gens[h].life + 1)] /\ h # g
        BY <2>1, <3>2 DEF Start
      <4>2. QED
        BY <4>1 DEF HubInv, TypeOK
    <3>3. QED
      BY <3>1, <3>2
  <2>2. CASE PublishLine(h) /\ h # g
    BY <2>2 DEF PublishLine, HubInv, TypeOK
  <2>3. CASE MarkDone(h) /\ h # g
    BY <2>3 DEF MarkDone, ScheduleCleanup, HubInv, TypeOK
  <2>4. CASE DeadlinePasses(h)
    <3>1. gens' = [gens EXCEPT ![h] = [gens[h] EXCEPT !.deadline = "passed"]]
      BY <2>4 DEF DeadlinePasses
    <3>2. [gens[h] EXCEPT !.deadline = "passed"] \in Gen
      BY <1>1, EntryTypes DEF HubInv, BufferInv
    <3>3. /\ [gens[h] EXCEPT !.deadline = "passed"].seq = gens[h].seq
          /\ [gens[h] EXCEPT !.deadline = "passed"].active = gens[h].active
      BY <1>1 DEF Gen
    <3>4. QED
      BY <1>3, <3>1, <3>2, <3>3
  <2>5. ASSUME NEW life \in 1 .. MaxLives, Reap(h, life) PROVE Same
    <3>1. PICK r \in Gen : r = [gens[h] EXCEPT !.scheduled = FALSE]
      BY <1>1, EntryTypes DEF HubInv, BufferInv
    <3>2. r.seq = gens[h].seq /\ r.active = gens[h].active
      BY <1>1, <3>1 DEF Gen
    <3>3. \/ gens' = [gens EXCEPT ![h] = NoGen(r.life)]
          \/ gens' = [gens EXCEPT ![h] = r]
          \/ gens' = gens
      BY <2>5, <3>1 DEF Reap
    <3>4. CASE gens' = [gens EXCEPT ![h] = NoGen(r.life)]
      <4>1. h # g
        BY <1>2, <3>4 DEF HubInv, TypeOK
      <4>2. QED
        BY <3>4, <4>1 DEF HubInv, TypeOK
    <3>5. QED
      BY <1>3, <3>1, <3>2, <3>3, <3>4
  <2>6. QED
    BY <1>4, <2>1, <2>2, <2>3, <2>4, <2>5 DEF GenerationStep
<1>5. ASSUME NEW s \in Subscribers, SubscriberStep(s) PROVE Same
  <2>1. CASE Subscribe(s)
    <3>1. PICK h \in Generations :
             gens' = [gens EXCEPT ![h] = [gens[h] EXCEPT !.count = @ + 1]]
      BY <2>1 DEF Subscribe
    <3>2. [gens[h] EXCEPT !.count = @ + 1] \in Gen
      BY <1>1, EntryTypes DEF HubInv, BufferInv
    <3>3. /\ [gens[h] EXCEPT !.count = @ + 1].seq = gens[h].seq
          /\ [gens[h] EXCEPT !.count = @ + 1].active = gens[h].active
      BY <1>1 DEF Gen
    <3>4. QED
      BY <1>3, <3>1, <3>2, <3>3
  <2>2. CASE Leave(s)
    <3>1. PICK h \in Generations : h = of[s]
      BY <2>2, InsideIsPresent DEF Leave, Inside, HubInv
    <3>2. PICK r \in Gen :
             /\ r = IF gens[h].present /\ (s \in Async => s \in listed[h])
                    THEN Unfollowed(gens[h]) ELSE gens[h]
             /\ GoodBuffer(r)
      BY <1>1, EntryTypes DEF HubInv, BufferInv
    <3>3. r.seq = gens[h].seq /\ r.active = gens[h].active
      BY <1>1, <3>2 DEF Unfollowed, Gen
    <3>4. ScheduledGen(r) \in Gen
      BY <3>2, EntryTypes
    <3>5. ScheduledGen(r).seq = gens[h].seq /\ ScheduledGen(r).active = gens[h].active
      BY <3>2, <3>3 DEF ScheduledGen, Gen
    <3>6. \/ gens' = [gens EXCEPT ![h] = NoGen(r.life)]
          \/ gens' = [gens EXCEPT ![h] = ScheduledGen(r)]
          \/ gens' = [gens EXCEPT ![h] = r]
      BY <2>2, <3>1, <3>2 DEF Leave, ScheduleCleanup
    <3>7. CASE gens' = [gens EXCEPT ![h] = NoGen(r.life)]
      <4>1. h # g
        BY <1>2, <3>7 DEF HubInv, TypeOK
      <4>2. QED
        BY <3>7, <4>1 DEF HubInv, TypeOK
    <3>8. CASE gens' = [gens EXCEPT ![h] = ScheduledGen(r)]
      BY <1>3, <3>4, <3>5, <3>8
    <3>9. CASE gens' = [gens EXCEPT ![h] = r]
      BY <1>3, <3>2, <3>3, <3>9
    <3>10. QED
      BY <3>6, <3>7, <3>8, <3>9
  <2>3. CASE ~Subscribe(s) /\ ~Leave(s)
    BY <1>5, <2>3 DEF SubscriberStep, Look, Resume, Disconnect, Wake, Heartbeat,
                      RunPosted, LoopCloses, hubVars
  <2>4. QED
    BY <2>1, <2>2, <2>3
<1>6. CASE UNCHANGED vars
  BY <1>6 DEF vars, hubVars
<1>7. QED
  BY <1>4, <1>5, <1>6 DEF Next

\* Publishing and finishing wake everybody who waits on the stream.
LEMMA NotifyWakes ==
    ASSUME HubInv, NEW g \in Generations, Notify(g),
           NEW s \in Subscribers, at[s] = "wait", of[s] = g
    PROVE  event'[s] \/ posted'[s]
<1>1. CASE s \notin Async
  BY <1>1 DEF Notify
<1>2. CASE s \in Async
  <2>1. s \in listed[g] \ Stale(g)
    BY <1>2 DEF HubInv, RegisteredInv, Inside, Stale
  <2>2. QED
    BY <2>1 DEF Notify
<1>3. QED
  BY <1>1, <1>2

LEMMA SignalsStay ==
    ASSUME HubInv, [Next]_vars, NEW s \in Subscribers, at[s] = "wait", event[s] \/ posted[s]
    PROVE  event'[s] \/ posted'[s]
<1> USE DEF HubInv, TypeOK
<1>1. ASSUME NEW g \in Generations, GenerationStep(g) PROVE event'[s] \/ posted'[s]
  BY <1>1 DEF GenerationStep, Start, PublishLine, MarkDone, DeadlinePasses, Reap,
              Notify, wakeVars
<1>2. ASSUME NEW t \in Subscribers, SubscriberStep(t) PROVE event'[s] \/ posted'[s]
  <2>1. CASE Look(t)
    BY <2>1 DEF Look
  <2>2. CASE RunPosted(t)
    BY <2>2 DEF RunPosted
  <2>3. CASE ~Look(t) /\ ~RunPosted(t)
    BY <1>2, <2>3 DEF SubscriberStep, Subscribe, Resume, Disconnect, Wake, Heartbeat,
                      Leave, LoopCloses, wakeVars
  <2>4. QED
    BY <2>1, <2>2, <2>3
<1>3. CASE UNCHANGED vars
  BY <1>3 DEF vars, wakeVars
<1>4. QED
  BY <1>1, <1>2, <1>3 DEF Next

\* Who starts to wait has read everything of a stream that goes on.
LEMMA WaitStart ==
    ASSUME HubInv, [Next]_vars, NEW s \in Subscribers, at'[s] = "wait"
    PROVE  \/ at[s] = "wait" /\ of'[s] = of[s] /\ cursor'[s] = cursor[s]
           \/ /\ of'[s] = of[s] /\ of[s] \in Generations /\ UNCHANGED gens
              /\ cursor'[s] >= gens[of[s]].seq /\ gens[of[s]].active
<1> USE DEF HubInv, TypeOK
<1>1. CASE Look(s)
  <2>1. PICK r \in Gen : r = gens[of[s]] /\ GoodBuffer(r) /\ of[s] \in Generations
    BY <1>1, InsideIsPresent DEF Look, Inside, BufferInv
  <2>2. ~Unread(r.buffer, cursor[s]) /\ r.active /\ UNCHANGED <<gens, of, cursor>>
    BY <1>1, <2>1 DEF Look, Leaves, hubVars
  <2>3. QED
    BY <2>1, <2>2, AllRead
<1>2. CASE ~Look(s)
  <2>1. ASSUME NEW g \in Generations, GenerationStep(g) PROVE UNCHANGED <<at, of, cursor>>
    BY <2>1 DEF GenerationStep, Start, PublishLine, MarkDone, DeadlinePasses, Reap, subVars
  <2>2. ASSUME NEW t \in Subscribers, SubscriberStep(t)
        PROVE  at'[s] = at[s] /\ of'[s] = of[s] /\ cursor'[s] = cursor[s]
    BY <1>2, <2>2 DEF SubscriberStep, Subscribe, Look, Resume, Disconnect, Wake, Heartbeat,
                      Leave, RunPosted, LoopCloses, Leaves, subVars
  <2>3. CASE UNCHANGED vars
    BY <2>3 DEF vars, subVars
  <2>4. QED
    BY <2>1, <2>2, <2>3 DEF Next
<1>3. QED
  BY <1>1, <1>2

\* No wakeup is lost between a producer and a subscriber that starts to wait.
THEOREM WaitersAreWoken == Spec => []WokenForNews
<1>1. Init => WokenForNews
  BY DEF Init, WokenForNews
<1>2. HubInv /\ HubInv' /\ WokenForNews /\ [Next]_vars => WokenForNews'
  <2> SUFFICES ASSUME HubInv, HubInv', WokenForNews, [Next]_vars, NEW s \in Subscribers,
                      at'[s] = "wait",
                      cursor'[s] < gens'[of'[s]].seq \/ ~gens'[of'[s]].active
               PROVE  event'[s] \/ posted'[s]
    BY DEF WokenForNews
  <2>1. CASE at[s] = "wait" /\ of'[s] = of[s] /\ cursor'[s] = cursor[s]
    <3>1. PICK g \in Generations : g = of[s]
      BY <2>1 DEF HubInv, RegisteredInv, Inside
    <3>2. gens[g].present /\ gens'[g].present
      <4>1. gens[g].present
        BY <2>1, <3>1, InsideIsPresent DEF HubInv, Inside
      <4>2. Attached(g)' # {}
        BY <2>1, <3>1 DEF Attached, Inside
      <4>3. gens'[g].count = Cardinality(Attached(g)') /\ IsFiniteSet(Attached(g)')
        BY FS_Subset, HubAssumption DEF HubInv, HubCount, Attached
      <4>4. gens'[g].count # 0
        BY <4>2, <4>3, FS_EmptySet
      <4>5. QED
        BY <4>1, <4>4 DEF HubInv, HubCount
    <3>3. CASE PublishLine(g) \/ MarkDone(g)
      BY <2>1, <3>1, <3>3, NotifyWakes DEF PublishLine, MarkDone
    <3>4. CASE gens'[g].seq = gens[g].seq /\ gens'[g].active = gens[g].active
      <4>1. event[s] \/ posted[s]
        BY <2>1, <3>1, <3>4 DEF WokenForNews
      <4>2. QED
        BY <2>1, <4>1, SignalsStay
    <3>5. QED
      BY <3>2, <3>3, <3>4, NewsStep
  <2>2. CASE ~(at[s] = "wait" /\ of'[s] = of[s] /\ cursor'[s] = cursor[s])
    <3>1. /\ of'[s] = of[s] /\ UNCHANGED gens
          /\ cursor'[s] >= gens[of[s]].seq /\ gens[of[s]].active
          /\ of[s] \in Generations
      BY <2>2, WaitStart
    <3>2. gens[of[s]].seq \in Nat /\ cursor'[s] \in Nat
      BY <3>1 DEF HubInv, TypeOK, Gen
    <3>3. QED
      BY <3>1, <3>2
  <2>3. QED
    BY <2>1, <2>2
<1>3. QED
  BY <1>1, <1>2, HubInvariant, PTL DEF Spec

-----------------------------------------------------------------------------
(* Chats.                                                                  *)

\* A stream stays with its chat until it is removed, and then its chat forgets it;
\* only a stream without a chat is given one.
ChatMove(g) ==
    \/ gens'[g].present /\ gens'[g].chat = gens[g].chat
    \/ ~gens[g].present
    \/ gens[g].chat = NoChat
    \/ Forget(g)

LEMMA EntryFields ==
    ASSUME NEW r \in Gen
    PROVE  /\ Finished(r).present = r.present /\ Finished(r).chat = r.chat
           /\ ScheduledGen(r).present = r.present /\ ScheduledGen(r).chat = r.chat
           /\ Unfollowed(r).present = r.present /\ Unfollowed(r).chat = r.chat
<1>1. Finished(r).present = r.present /\ Finished(r).chat = r.chat
  BY DEF Finished, Gen
<1>2. ScheduledGen(r).present = r.present /\ ScheduledGen(r).chat = r.chat
  BY DEF ScheduledGen, Gen
<1>3. Unfollowed(r).present = r.present /\ Unfollowed(r).chat = r.chat
  BY DEF Unfollowed, Gen
<1>4. QED
  BY <1>1, <1>2, <1>3

LEMMA ChatMoves ==
    ASSUME HubInv, [Next]_vars, NEW g \in Generations PROVE ChatMove(g)
<1> USE DEF HubInv, TypeOK, BufferInv
<1>1. \A h \in Generations : gens[h] \in Gen /\ GoodBuffer(gens[h])
  OBVIOUS
<1>2. ASSUME NEW h \in Generations, NEW r \in Gen, r.present = gens[h].present,
             r.chat = gens[h].chat, gens' = [gens EXCEPT ![h] = r]
      PROVE  ChatMove(g)
  BY <1>2 DEF ChatMove
<1>3. ASSUME NEW h \in Generations, NEW x, Forget(h) \/ ~gens[h].present,
             gens' = [gens EXCEPT ![h] = x]
      PROVE  ChatMove(g)
  BY <1>3 DEF ChatMove
<1>4. ASSUME NEW h \in Generations, GenerationStep(h) PROVE ChatMove(g)
  <2>1. ASSUME NEW chat \in Chats \cup {NoChat}, Start(h, chat) PROVE ChatMove(g)
    <3>1. CASE gens[h].present
      BY <2>1, <3>1 DEF Start, ChatMove
    <3>2. CASE ~gens[h].present
      BY <2>1, <3>2, <1>3 DEF Start
    <3>3. QED
      BY <3>1, <3>2
  <2>2. CASE PublishLine(h)
    <3>1. PICK kept \in 1 .. MaxLines :
             /\ gens' = [gens EXCEPT ![h] = Published(NotifiedGen(gens[h], h), kept)]
      BY <2>2 DEF PublishLine
    <3>2. PICK q \in Gen : q = NotifiedGen(gens[h], h)
      BY <1>1, NotifiedType
    <3>3. q.present = gens[h].present /\ q.chat = gens[h].chat
      BY <1>1, <3>2 DEF NotifiedGen, Gen
    <3>4. Published(q, kept).present = q.present /\ Published(q, kept).chat = q.chat
      BY DEF Published, Gen
    <3>5. QED
      BY <3>1, <3>2, <3>3, <3>4 DEF ChatMove
  <2>3. CASE MarkDone(h)
    <3>1. Forget(h) /\ \E x : gens' = [gens EXCEPT ![h] = x]
      BY <2>3 DEF MarkDone, ScheduleCleanup
    <3>2. QED
      BY <1>3, <3>1
  <2>4. CASE DeadlinePasses(h)
    BY <1>1, <2>4 DEF DeadlinePasses, ChatMove, Gen
  <2>5. ASSUME NEW life \in 1 .. MaxLives, Reap(h, life) PROVE ChatMove(g)
    <3>1. PICK r \in Gen : r = [gens[h] EXCEPT !.scheduled = FALSE]
      BY <1>1, EntryTypes
    <3>2. r.present = gens[h].present /\ r.chat = gens[h].chat
      BY <1>1, <3>1 DEF Gen
    <3>3. \/ gens' = [gens EXCEPT ![h] = NoGen(r.life)] /\ Forget(h)
          \/ gens' = [gens EXCEPT ![h] = r]
          \/ gens' = gens
      BY <2>5, <3>1 DEF Reap
    <3>4. CASE gens' = gens
      BY <3>4 DEF ChatMove
    <3>5. QED
      BY <1>2, <1>3, <3>1, <3>2, <3>3, <3>4
  <2>6. QED
    BY <1>4, <2>1, <2>2, <2>3, <2>4, <2>5 DEF GenerationStep
<1>5. ASSUME NEW s \in Subscribers, SubscriberStep(s) PROVE ChatMove(g)
  <2>1. CASE Subscribe(s)
    <3>1. PICK h \in Generations :
             gens' = [gens EXCEPT ![h] = [gens[h] EXCEPT !.count = @ + 1]]
      BY <2>1 DEF Subscribe
    <3>2. [gens[h] EXCEPT !.count = @ + 1] \in Gen
      BY <1>1, EntryTypes
    <3>3. /\ [gens[h] EXCEPT !.count = @ + 1].present = gens[h].present
          /\ [gens[h] EXCEPT !.count = @ + 1].chat = gens[h].chat
      BY <1>1 DEF Gen
    <3>4. QED
      BY <1>2, <3>1, <3>2, <3>3
  <2>2. CASE Leave(s)
    <3>1. PICK h \in Generations : h = of[s]
      BY <2>2, InsideIsPresent DEF Leave, Inside
    <3>2. PICK r \in Gen :
             /\ r = IF gens[h].present /\ (s \in Async => s \in listed[h])
                    THEN Unfollowed(gens[h]) ELSE gens[h]
             /\ GoodBuffer(r)
      BY <1>1, EntryTypes
    <3>3. r.present = gens[h].present /\ r.chat = gens[h].chat
      BY <1>1, <3>2, EntryFields
    <3>4. /\ ScheduledGen(r) \in Gen
          /\ ScheduledGen(r).present = r.present /\ ScheduledGen(r).chat = r.chat
      BY <3>2, EntryTypes, EntryFields
    <3>5. \/ gens' = [gens EXCEPT ![h] = NoGen(r.life)] /\ Forget(h)
          \/ gens' = [gens EXCEPT ![h] = ScheduledGen(r)]
          \/ gens' = [gens EXCEPT ![h] = r]
      BY <2>2, <3>1, <3>2 DEF Leave, ScheduleCleanup
    <3>6. CASE gens' = [gens EXCEPT ![h] = ScheduledGen(r)]
      BY <1>2, <3>3, <3>4, <3>6
    <3>7. QED
      BY <1>2, <1>3, <3>2, <3>3, <3>5, <3>6
  <2>3. CASE ~Subscribe(s) /\ ~Leave(s)
    BY <1>5, <2>3 DEF SubscriberStep, Look, Resume, Disconnect, Wake, Heartbeat,
                      RunPosted, LoopCloses, hubVars, ChatMove
  <2>4. QED
    BY <2>1, <2>2, <2>3
<1>6. CASE UNCHANGED vars
  BY <1>6 DEF vars, hubVars, ChatMove
<1>7. QED
  BY <1>4, <1>5, <1>6 DEF Next

\* A chat is pointed at a stream by the call that starts it, and by nothing else.
LEMMA PointerMoves ==
    ASSUME HubInv, [Next]_vars, NEW c \in Chats, byChat'[c] # NoGeneration
    PROVE  \/ byChat'[c] = byChat[c]
           \/ byChat'[c] \in Generations /\ Start(byChat'[c], c)
<1> USE DEF HubInv, TypeOK
<1>1. ASSUME NEW g \in Generations, Forget(g) PROVE byChat'[c] = byChat[c]
  BY <1>1 DEF Forget
<1>2. ASSUME NEW g \in Generations, NEW chat \in Chats \cup {NoChat}, Start(g, chat)
      PROVE  byChat'[c] = byChat[c] \/ (byChat'[c] \in Generations /\ Start(byChat'[c], c))
  <2>1. byChat' = [d \in Chats |-> IF d = chat THEN g ELSE byChat[d]]
    BY <1>2 DEF Start
  <2>2. CASE c = chat
    <3>1. byChat'[c] = g
      BY <2>1, <2>2
    <3>2. Start(g, c)
      BY <1>2, <2>2
    <3>3. QED
      BY <3>1, <3>2
  <2>3. CASE c # chat
    <3>1. byChat'[c] = byChat[c]
      BY <2>1, <2>3
    <3>2. QED
      BY <3>1
  <2>4. QED
    BY <2>2, <2>3
<1>3. ASSUME NEW g \in Generations,
             PublishLine(g) \/ MarkDone(g) \/ DeadlinePasses(g)
             \/ \E life \in 1 .. MaxLives : Reap(g, life)
      PROVE  byChat'[c] = byChat[c]
  BY <1>1, <1>3 DEF PublishLine, MarkDone, DeadlinePasses, Reap
<1>4. ASSUME NEW s \in Subscribers, SubscriberStep(s) PROVE byChat'[c] = byChat[c]
  <2>1. CASE Leave(s)
    <3>1. Forget(of[s]) \/ UNCHANGED byChat
      BY <2>1 DEF Leave
    <3>2. of[s] \in Generations
      BY <2>1, InsideIsPresent DEF Leave, Inside
    <3>3. QED
      BY <1>1, <3>1, <3>2
  <2>2. CASE ~Leave(s)
    BY <1>4, <2>2 DEF SubscriberStep, Subscribe, Look, Resume, Disconnect, Wake,
                      Heartbeat, RunPosted, LoopCloses, hubVars
  <2>3. QED
    BY <2>1, <2>2
<1>5. CASE UNCHANGED vars
  BY <1>5 DEF vars, hubVars
<1>6. QED
  BY <1>2, <1>3, <1>4, <1>5 DEF Next, GenerationStep

\* No chat points at a removed stream or at one of another chat.
THEOREM ChatPointersExact == Spec => []ChatNamesItsStream
<1>1. Init => ChatNamesItsStream
  BY DEF Init, ChatNamesItsStream
<1>2. HubInv /\ ChatNamesItsStream /\ [Next]_vars => ChatNamesItsStream'
  <2> SUFFICES ASSUME HubInv, ChatNamesItsStream, [Next]_vars,
                      NEW c \in Chats, byChat'[c] # NoGeneration
               PROVE  gens'[byChat'[c]].present /\ gens'[byChat'[c]].chat = c
    BY DEF ChatNamesItsStream
  <2> USE DEF HubInv, TypeOK
  <2>1. CASE byChat'[c] \in Generations /\ Start(byChat'[c], c)
    <3>1. PICK g \in Generations : g = byChat'[c] /\ Start(g, c)
      BY <2>1
    <3>2. gens[g] \in Gen
      OBVIOUS
    <3>3. CASE gens[g].present
      <4>1. PICK r : r = [gens[g] EXCEPT !.chat = c]
        OBVIOUS
      <4>2. r.present /\ r.chat = c
        BY <3>2, <3>3, <4>1 DEF Gen
      <4>3. gens' = [gens EXCEPT ![g] = r]
        BY <3>1, <3>3, <4>1 DEF Start
      <4>4. gens'[g] = r
        BY <4>3
      <4>5. QED
        BY <3>1, <4>2, <4>4
    <3>4. CASE ~gens[g].present
      <4>1. PICK l \in Nat : l = gens[g].life + 1
        BY <3>2 DEF Gen
      <4>2. gens' = [gens EXCEPT ![g] = NewGen(c, l)]
        BY <3>1, <3>4, <4>1 DEF Start
      <4>3. gens'[g] = NewGen(c, l)
        BY <4>2
      <4>4. QED
        BY <3>1, <4>3, NewGenType
    <3>5. QED
      BY <3>3, <3>4
  <2>2. CASE byChat'[c] = byChat[c]
    <3>1. PICK g \in Generations : g = byChat[c]
      BY <2>2
    <3>2. gens[g].present /\ gens[g].chat = c /\ c # NoChat
      BY <2>2, <3>1, HubAssumption DEF ChatNamesItsStream
    <3>3. ~Forget(g)
      BY <2>2, <3>1, <3>2, HubAssumption DEF Forget
    <3>4. QED
      BY <2>2, <3>1, <3>2, <3>3, ChatMoves DEF ChatMove
  <2>3. QED
    BY <2>1, <2>2, PointerMoves
<1>3. QED
  BY <1>1, <1>2, HubInvariant, PTL DEF Spec

-----------------------------------------------------------------------------
(* The reaper's list.                                                      *)

\* A scheduled entry is on the list of the reaper, and its deadline is known.
OnList(r, g, h) == r.scheduled => <<g, r.life>> \in h /\ r.deadline # "none"

ListInv ==
    \A g \in Generations :
        gens[g].present =>
            OnList(gens[g], g, heap) /\ (Idle(gens[g]) => gens[g].scheduled)

LEMMA NewGenIdle ==
    ASSUME NEW chat \in Chats \cup {NoChat}, NEW l \in Nat
    PROVE  ~NewGen(chat, l).scheduled /\ ~Idle(NewGen(chat, l))
BY NewGenType DEF Idle

\* The entry written keeps the invariant, the others keep their list entries.
LEMMA ListWritten ==
    ASSUME HubInv, ListInv, NEW g \in Generations, NEW r,
           gens' = [gens EXCEPT ![g] = r],
           r.present => OnList(r, g, heap') /\ (Idle(r) => r.scheduled),
           \A h \in Generations \ {g}, l \in Nat : <<h, l>> \in heap => <<h, l>> \in heap'
    PROVE  ListInv'
<1>1. ASSUME NEW h \in Generations, h # g, gens[h].present
      PROVE  OnList(gens[h], h, heap') /\ (Idle(gens[h]) => gens[h].scheduled)
  BY <1>1 DEF ListInv, OnList, HubInv, TypeOK, Gen
<1>2. QED
  BY <1>1 DEF ListInv, HubInv, TypeOK

LEMMA ScheduleLists ==
    ASSUME HubInv, ListInv, NEW g \in Generations, NEW r \in Gen,
           OnList(r, g, heap), ScheduleCleanup(r, g)
    PROVE  ListInv'
<1>1. CASE ReclaimsNow(r)
  <2>1. gens' = [gens EXCEPT ![g] = NoGen(r.life)] /\ heap' = heap
    BY <1>1 DEF ScheduleCleanup
  <2>2. ~NoGen(r.life).present
    BY DEF NoGen
  <2>3. QED
    BY <2>1, <2>2, ListWritten
<1>2. CASE ~ReclaimsNow(r)
  <2>1. /\ gens' = [gens EXCEPT ![g] = ScheduledGen(r)]
        /\ heap \subseteq heap' /\ <<g, r.life>> \in heap'
    BY <1>2 DEF ScheduleCleanup, OnList
  <2>2. /\ ScheduledGen(r).scheduled /\ ScheduledGen(r).life = r.life
        /\ ScheduledGen(r).deadline # "none"
    BY DEF ScheduledGen, Gen
  <2>3. QED
    BY <2>1, <2>2, ListWritten DEF OnList
<1>3. QED
  BY <1>1, <1>2

LEMMA ListNext == HubInv /\ ListInv /\ [Next]_vars => ListInv'
<1> SUFFICES ASSUME HubInv, ListInv, [Next]_vars PROVE ListInv'
  OBVIOUS
<1>1. \A g \in Generations : gens[g] \in Gen /\ GoodBuffer(gens[g])
  BY DEF HubInv, TypeOK, BufferInv
<1>2. ASSUME UNCHANGED <<gens, heap>> PROVE ListInv'
  BY <1>2 DEF ListInv
<1>3. ASSUME NEW g \in Generations, GenerationStep(g) PROVE ListInv'
  <2>1. ASSUME NEW chat \in Chats \cup {NoChat}, Start(g, chat) PROVE ListInv'
    <3>1. CASE gens[g].present
      <4> DEFINE r == [gens[g] EXCEPT !.chat = chat]
      <4>1. gens' = [gens EXCEPT ![g] = r] /\ heap' = heap
        BY <2>1, <3>1 DEF Start
      <4>2. /\ r.present = gens[g].present /\ r.scheduled = gens[g].scheduled
            /\ r.life = gens[g].life /\ r.deadline = gens[g].deadline
            /\ r.active = gens[g].active /\ r.count = gens[g].count
        BY <1>1 DEF Gen
      <4> HIDE DEF r
      <4>3. OnList(r, g, heap') /\ (Idle(r) => r.scheduled)
        BY <3>1, <4>1, <4>2 DEF ListInv, OnList, Idle
      <4>4. QED
        BY <4>1, <4>3, ListWritten
    <3>2. CASE ~gens[g].present
      <4>1. PICK l \in Nat : l = gens[g].life + 1
        BY <1>1 DEF Gen
      <4>2. gens' = [gens EXCEPT ![g] = NewGen(chat, l)] /\ heap' = heap
        BY <2>1, <3>2, <4>1 DEF Start
      <4>3. QED
        BY <4>2, NewGenIdle, ListWritten DEF OnList
    <3>3. QED
      BY <3>1, <3>2
  <2>2. CASE PublishLine(g)
    <3>1. PICK kept \in 1 .. MaxLines :
             /\ gens' = [gens EXCEPT ![g] = Published(NotifiedGen(gens[g], g), kept)]
             /\ heap' = heap /\ gens[g].present /\ gens[g].active
      BY <2>2 DEF PublishLine
    <3>2. PICK q \in Gen : q = NotifiedGen(gens[g], g)
      BY <1>1, NotifiedType DEF HubInv
    <3>3. /\ q.scheduled = gens[g].scheduled /\ q.life = gens[g].life
          /\ q.deadline = gens[g].deadline /\ q.active = gens[g].active
      BY <1>1, <3>2 DEF NotifiedGen, Gen
    <3>4. PICK r : r = Published(q, kept)
      OBVIOUS
    <3>5. /\ r.scheduled = q.scheduled /\ r.life = q.life
          /\ r.deadline = q.deadline /\ r.active = q.active
      BY <3>4 DEF Published, Gen
    <3>6. OnList(r, g, heap') /\ ~Idle(r)
      BY <3>1, <3>3, <3>5 DEF ListInv, OnList, Idle
    <3>7. QED
      BY <3>1, <3>2, <3>4, <3>6, ListWritten
  <2>3. CASE MarkDone(g)
    <3>1. PICK q \in Gen : q = NotifiedGen(gens[g], g) /\ GoodBuffer(q)
      BY <1>1, NotifiedType DEF HubInv
    <3>2. PICK r \in Gen : r = Finished(q)
      BY <3>1, EntryTypes
    <3>3. /\ q.scheduled = gens[g].scheduled /\ q.life = gens[g].life
          /\ q.deadline = gens[g].deadline
      BY <1>1, <3>1 DEF NotifiedGen, Gen
    <3>4. /\ r.scheduled = q.scheduled /\ r.life = q.life
          /\ r.deadline = q.deadline
      BY <3>2 DEF Finished, Gen
    <3>5. OnList(r, g, heap)
      BY <2>3, <3>3, <3>4 DEF MarkDone, ListInv, OnList
    <3>6. CASE r.count = 0
      <4>1. ScheduleCleanup(r, g)
        BY <2>3, <3>1, <3>2, <3>6 DEF MarkDone
      <4>2. QED
        BY <3>5, <4>1, ScheduleLists
    <3>7. CASE r.count # 0
      <4>1. gens' = [gens EXCEPT ![g] = r] /\ heap' = heap
        BY <2>3, <3>1, <3>2, <3>7 DEF MarkDone
      <4>2. QED
        BY <3>5, <3>7, <4>1, ListWritten DEF Idle
    <3>8. QED
      BY <3>6, <3>7
  <2>4. CASE DeadlinePasses(g)
    <3> DEFINE r == [gens[g] EXCEPT !.deadline = "passed"]
    <3>1. gens' = [gens EXCEPT ![g] = r] /\ heap' = heap
      BY <2>4 DEF DeadlinePasses
    <3>2. /\ r.present = gens[g].present /\ r.scheduled = gens[g].scheduled
          /\ r.life = gens[g].life /\ r.deadline = "passed"
          /\ r.active = gens[g].active /\ r.count = gens[g].count
      BY <1>1 DEF Gen
    <3> HIDE DEF r
    <3>3. r.present => OnList(r, g, heap') /\ (Idle(r) => r.scheduled)
      BY <3>1, <3>2 DEF ListInv, OnList, Idle
    <3>4. QED
      BY <3>1, <3>3, ListWritten
  <2>5. ASSUME NEW life \in 1 .. MaxLives, Reap(g, life) PROVE ListInv'
    <3>1. PICK r \in Gen : r = [gens[g] EXCEPT !.scheduled = FALSE]
      BY <1>1, EntryTypes
    <3>2. /\ ~r.scheduled
          /\ r.present = gens[g].present
      BY <1>1, <3>1 DEF Gen
    <3>3. heap' = heap \ {<<g, life>>}
      BY <2>5 DEF Reap
    <3>4. \A h \in Generations \ {g}, l \in Nat : <<h, l>> \in heap => <<h, l>> \in heap'
      BY <3>3
    <3>5. CASE gens[g].present /\ gens[g].life = life /\ gens[g].deadline # "none"
      <4>1. CASE Idle(r)
        <5>1. gens' = [gens EXCEPT ![g] = NoGen(r.life)]
          BY <2>5, <3>1, <3>5, <4>1 DEF Reap
        <5>2. ~NoGen(r.life).present
          BY DEF NoGen
        <5>3. QED
          BY <3>4, <5>1, <5>2, ListWritten
      <4>2. CASE ~Idle(r)
        <5>1. gens' = [gens EXCEPT ![g] = r]
          BY <2>5, <3>1, <3>5, <4>2 DEF Reap
        <5>2. QED
          BY <3>2, <3>4, <4>2, <5>1, ListWritten DEF OnList
      <4>3. QED
        BY <4>1, <4>2
    <3>6. CASE ~(gens[g].present /\ gens[g].life = life /\ gens[g].deadline # "none")
      <4>1. gens' = gens
        BY <2>5, <3>1, <3>6 DEF Reap
      <4>2. gens' = [gens EXCEPT ![g] = gens[g]]
        BY <4>1 DEF HubInv, TypeOK
      <4>3. gens[g].present => OnList(gens[g], g, heap')
        BY <3>3, <3>6 DEF ListInv, OnList
      <4>4. gens[g].present => (Idle(gens[g]) => gens[g].scheduled)
        BY DEF ListInv
      <4>5. QED
        BY <3>4, <4>2, <4>3, <4>4, ListWritten
    <3>7. QED
      BY <3>5, <3>6
  <2>6. QED
    BY <1>3, <2>1, <2>2, <2>3, <2>4, <2>5 DEF GenerationStep
<1>4. ASSUME NEW s \in Subscribers, SubscriberStep(s) PROVE ListInv'
  <2>1. CASE Subscribe(s)
    <3>1. PICK g \in Generations :
             /\ gens' = [gens EXCEPT ![g] = [gens[g] EXCEPT !.count = @ + 1]]
             /\ heap' = heap
      BY <2>1 DEF Subscribe
    <3> DEFINE r == [gens[g] EXCEPT !.count = @ + 1]
    <3>2. /\ r.present = gens[g].present /\ r.scheduled = gens[g].scheduled
          /\ r.life = gens[g].life /\ r.deadline = gens[g].deadline
          /\ r.count = gens[g].count + 1 /\ gens[g].count \in Nat
      BY <1>1 DEF Gen
    <3>3. gens' = [gens EXCEPT ![g] = r]
      BY <3>1
    <3> HIDE DEF r
    <3>4. r.present => OnList(r, g, heap')
      BY <3>1, <3>2 DEF ListInv, OnList
    <3>5. ~Idle(r)
      BY <3>2 DEF Idle
    <3>6. QED
      BY <3>1, <3>3, <3>4, <3>5, ListWritten
  <2>2. CASE Leave(s)
    <3>1. PICK g \in Generations : g = of[s] /\ gens[g].present
      BY <2>2, InsideIsPresent DEF Leave, Inside, HubInv
    <3>2. s \in Async => s \in listed[g]
      BY <2>2, <3>1 DEF Leave, HubInv, RegisteredInv, Inside
    <3>3. PICK r \in Gen : r = Unfollowed(gens[g])
      BY <1>1, EntryTypes
    <3>4. /\ r.present = gens[g].present /\ r.scheduled = gens[g].scheduled
          /\ r.life = gens[g].life /\ r.deadline = gens[g].deadline
      BY <1>1, <3>3 DEF Unfollowed, Gen
    <3>5. OnList(r, g, heap)
      BY <3>1, <3>4 DEF ListInv, OnList
    <3>6. CASE Idle(r)
      <4>1. ScheduleCleanup(r, g)
        BY <2>2, <3>1, <3>2, <3>3, <3>4, <3>6 DEF Leave
      <4>2. QED
        BY <3>5, <4>1, ScheduleLists
    <3>7. CASE ~Idle(r)
      <4>1. gens' = [gens EXCEPT ![g] = r] /\ heap' = heap
        BY <2>2, <3>1, <3>2, <3>3, <3>4, <3>7 DEF Leave
      <4>2. QED
        BY <3>5, <3>7, <4>1, ListWritten
    <3>8. QED
      BY <3>6, <3>7
  <2>3. CASE ~Subscribe(s) /\ ~Leave(s)
    BY <1>2, <1>4, <2>3 DEF SubscriberStep, Look, Resume, Disconnect, Wake, Heartbeat,
                      RunPosted, LoopCloses, hubVars
  <2>4. QED
    BY <2>1, <2>2, <2>3
<1>5. CASE UNCHANGED vars
  BY <1>2, <1>5 DEF vars, hubVars
<1>6. QED
  BY <1>3, <1>4, <1>5 DEF Next

\* The reaper hears of every finished stream nobody follows.
THEOREM FinishedIsListed == Spec => []ReclaimScheduled
<1>1. Init => ListInv
  BY DEF Init, ListInv, NoGen
<1>2. ListInv => ReclaimScheduled
  BY DEF ListInv, ReclaimScheduled, OnList, Idle
<1>3. QED
  BY <1>1, <1>2, ListNext, HubInvariant, PTL DEF Spec

-----------------------------------------------------------------------------
(* The stream in Redis.                                                    *)

\* The events of a stretch of consecutive numbers that come after a number.
LEMMA LaterIs ==
    \A es \in Seq(Redis!Event), n \in Nat, b \in Nat :
        (\A i \in 1 .. Len(es) : es[i].seq = b + i) =>
            \E d \in 0 .. Len(es) :
                /\ Redis!Later(es, n) \in Seq(Redis!Event) /\ Len(Redis!Later(es, n)) = Len(es) - d
                /\ \A i \in 1 .. Len(es) - d : Redis!Later(es, n)[i] = es[d + i]
                /\ d < Len(es) => n <= b + d
                /\ d > 0 => b + d <= n
<1>a. SUFFICES ASSUME NEW es \in Seq(Redis!Event), NEW n \in Nat, NEW b \in Nat,
                      \A i \in 1 .. Len(es) : es[i].seq = b + i
               PROVE  \E d \in 0 .. Len(es) :
                        /\ Redis!Later(es, n) \in Seq(Redis!Event) /\
                              Len(Redis!Later(es, n)) = Len(es) - d
                        /\ \A i \in 1 .. Len(es) - d : Redis!Later(es, n)[i] = es[d + i]
                        /\ d < Len(es) => n <= b + d
                        /\ d > 0 => b + d <= n
  OBVIOUS
<1> DEFINE d == IF n <= b THEN 0 ELSE IF n <= b + Len(es) THEN n - b ELSE Len(es)
<1>0. Len(es) \in Nat
  OBVIOUS
<1>1. d \in 0 .. Len(es) /\ (d < Len(es) => n <= b + d) /\ (d > 0 => b + d <= n)
  BY <1>0
<1> HIDE DEF d
<1> DEFINE First(i) == /\ \A j \in 1 .. i - 1 : es[j].seq <= n
                       /\ i <= Len(es) => es[i].seq > n
<1>2. First(d + 1)
  <2>1. \A j \in 1 .. d : es[j].seq <= n
    BY <1>a, <1>0, <1>1
  <2>2. d + 1 <= Len(es) => es[d + 1].seq > n
    BY <1>a, <1>0, <1>1
  <2>3. (d + 1) - 1 = d
    BY <1>0, <1>1
  <2> QED BY <2>1, <2>2, <2>3
<1>3. \A i \in 1 .. Len(es) + 1 : First(i) => i = d + 1
  <2>a. SUFFICES ASSUME NEW i \in 1 .. Len(es) + 1, First(i), i # d + 1 PROVE FALSE
    OBVIOUS
  <2>1. CASE i < d + 1
    <3>1. i \in 1 .. (d + 1) - 1 /\ i <= Len(es)
      BY <1>0, <1>1, <2>1
    <3>2. es[i].seq <= n /\ es[i].seq > n /\ es[i].seq = b + i
      BY <1>a, <1>2, <2>a, <3>1
    <3> QED BY <1>0, <1>1, <3>2
  <2>2. CASE i > d + 1
    <3>1. d + 1 \in 1 .. i - 1 /\ d + 1 <= Len(es)
      BY <1>0, <1>1, <2>2
    <3>2. es[d + 1].seq <= n /\ es[d + 1].seq > n /\ es[d + 1].seq = b + (d + 1)
      BY <1>a, <1>2, <2>a, <3>1
    <3> QED BY <1>0, <1>1, <3>2
  <2> QED BY <1>0, <1>1, <2>a, <2>1, <2>2
<1>4. (CHOOSE i \in 1 .. Len(es) + 1 : First(i)) = d + 1
  <2>1. d + 1 \in 1 .. Len(es) + 1
    BY <1>0, <1>1
  <2> HIDE DEF First
  <2> QED BY <1>2, <1>3, <2>1
<1>5. Redis!Later(es, n) = SubSeq(es, d + 1, Len(es))
  BY <1>4 DEF Redis!Later
<1>6. /\ SubSeq(es, d + 1, Len(es)) \in Seq(Redis!Event) /\
            Len(SubSeq(es, d + 1, Len(es))) = Len(es) - d
      /\ \A i \in 1 .. Len(es) - d : SubSeq(es, d + 1, Len(es))[i] = es[d + i]
  BY <1>0, <1>1
<1> QED BY <1>1, <1>5, <1>6

\* The stream keeps its newest events, all of them numbered without a hole, and in
\* the order in which they were published.
StreamInv ==
    /\ seq <= published /\ Len(events) <= seq /\ (seq > 0 => Len(events) > 0)
    /\ \A i \in 1 .. Len(events) : /\ events[i].seq = (seq - Len(events)) + i
                                   /\ events[i].line <= published
    /\ \A i, j \in 1 .. Len(events) : i < j => events[i].line < events[j].line
    /\ signal => status = "done"

\* So does the hub of each process.
LocalInv == \A p \in Redis!Processes :
    /\ \A i \in 1 .. Len(local[p].lines) : local[p].lines[i] <= published
    /\ \A i, j \in 1 .. Len(local[p].lines) : i < j => local[p].lines[i] < local[p].lines[j]

Taken(s) == Len(handed[s])

\* What a follower was handed comes right after what it asked for, and before what
\* it has still to read.
HandedOne(s) ==
    /\ sub[s].at = "new" => handed[s] = <<>>
    /\ sub[s].cursor = sub[s].from + Taken(s) /\ sub[s].last <= sub[s].cursor
    /\ \A i \in 1 .. Taken(s) : handed[s][i].seq = sub[s].from + i /\ handed[s][i].line <= published
    /\ \A i \in 1 .. Taken(s) : i > 1 => handed[s][i - 1].line < handed[s][i].line
    /\ Redis!Reading(s) /\ Taken(s) > 0 =>
          \A i \in 1 .. Len(events) : events[i].seq > sub[s].cursor =>
              handed[s][Taken(s)].line < events[i].line
    /\ sub[s].at = "local" /\ Taken(s) > 0 =>
          /\ sub[s].cursor \in 1 .. Len(local[web].lines)
          /\ handed[s][Taken(s)].line = local[web].lines[sub[s].cursor]

HandedInv == \A s \in Redis!Followers : HandedOne(s)

\* How a follower ends: before a gap, or, while Redis answers, with the last line.
EndOne(s) ==
    /\ sub[s].at # "over" => sub[s].ended = "no"
    /\ sub[s].at = "new" => ~sub[s].done
    /\ Redis!Reading(s) => status # "none"
    /\ sub[s].at = "recheck" => s \in Async /\ ~sub[s].done
    /\ sub[s].ended = "gap" => events # <<>> /\ events[1].seq > sub[s].cursor + 1
    /\ fails = 0 => /\ Redis!Reading(s) /\ sub[s].done => status = "done"
                    /\ sub[s].ended = "polled" => s \in Async /\ ~sub[s].done
                    /\ sub[s].ended = "drained" => status = "done" /\ seq <= sub[s].cursor

EndInv == \A s \in Redis!Followers : EndOne(s)

RedisInv == Redis!TypeOK /\ StreamInv /\ LocalInv /\ HandedInv /\ EndInv

\* What a read hands over: the events right after the cursor, if it reports no gap.
IsBatch(s, k, batch, m) ==
    LET new == Redis!Handover(sub[s].cursor, batch)
    IN /\ batch[k].seq \in Nat
       /\ m + Len(new) <= Len(events) /\ new \in Seq(Redis!Event)
       /\ \A i \in 1 .. Len(new) : new[i] = events[m + i]
       /\ new = <<>> => batch[k].seq <= sub[s].cursor
       /\ new # <<>> => new[Len(new)].seq = batch[k].seq
       /\ Redis!Gap(sub[s].cursor, batch) => Len(events) > 0 /\ events[1].seq > sub[s].cursor + 1
       /\ ~Redis!Gap(sub[s].cursor, batch) /\ new # <<>> => events[m + 1].seq = sub[s].cursor + 1

LEMMA BatchIs ==
    ASSUME Redis!StreamAssumption, Redis!TypeOK, StreamInv, NEW s \in Redis!Followers,
           sub[s].last <= sub[s].cursor,
           NEW k \in 1 .. Len(Redis!Unread(s)), NEW batch, batch = SubSeq(Redis!Unread(s), 1, k)
    PROVE  \E m \in 0 .. Len(events) : IsBatch(s, k, batch, m)
<1> DEFINE new == Redis!Handover(sub[s].cursor, batch)
<1>a. /\ events \in Seq(Redis!Event) /\ Len(events) \in Nat /\ seq - Len(events) \in Nat
      /\ sub[s].last \in Nat /\ sub[s].cursor \in Nat
      /\ \A i \in 1 .. Len(events) : events[i].seq = (seq - Len(events)) + i
  BY DEF Redis!TypeOK, Redis!Sub, StreamInv
<1>0. PICK base \in Nat, c \in Nat :
          /\ c = sub[s].cursor /\ sub[s].last <= c
          /\ \A i \in 1 .. Len(events) : events[i].seq = base + i
  BY <1>a
<1>1. PICK d \in 0 .. Len(events) :
          /\ Redis!Unread(s) \in Seq(Redis!Event) /\ Len(Redis!Unread(s)) = Len(events) - d
          /\ \A i \in 1 .. Len(events) - d : Redis!Unread(s)[i] = events[d + i]
          /\ d < Len(events) => sub[s].last <= base + d
          /\ d > 0 => base + d <= sub[s].last
  <2>1. \E d \in 0 .. Len(events) :
          LET late == Redis!Later(events, sub[s].last)
          IN  /\ late \in Seq(Redis!Event) /\ Len(late) = Len(events) - d
              /\ \A i \in 1 .. Len(events) - d : late[i] = events[d + i]
              /\ d < Len(events) => sub[s].last <= base + d
              /\ d > 0 => base + d <= sub[s].last
    BY <1>a, <1>0, LaterIs
  <2> QED BY <2>1 DEF Redis!Unread
<1>2. /\ d + k <= Len(events) /\ batch \in Seq(Redis!Event) /\ Len(batch) = k
      /\ \A i \in 1 .. k : batch[i] = events[d + i]
  <2>1. /\ k \in 1 .. Len(events) - d
        /\ batch \in Seq(Redis!Event) /\ Len(batch) = k
        /\ \A i \in 1 .. k : batch[i] = Redis!Unread(s)[i]
    BY <1>a, <1>1
  <2> QED BY <1>a, <1>1, <2>1
<1>3. /\ base + d \in Nat /\ \A i \in 1 .. k : batch[i].seq = base + d + i
  <2>1. ASSUME NEW i \in 1 .. k PROVE batch[i].seq = base + d + i
    <3>1. d + i \in 1 .. Len(events) /\ events[d + i].seq = base + (d + i)
      BY <1>a, <1>0, <1>2
    <3> QED BY <1>2, <3>1
  <2> QED BY <2>1
<1>4. PICK e \in 0 .. k : /\ new \in Seq(Redis!Event) /\ Len(new) = k - e
                          /\ \A i \in 1 .. k - e : new[i] = batch[e + i]
                          /\ e < k => c <= base + d + e
                          /\ e > 0 => base + d + e <= c
  <2>1. base + d \in Nat /\ \A i \in 1 .. Len(batch) : batch[i].seq = (base + d) + i
    BY <1>2, <1>3
  <2>2. \E e \in 0 .. Len(batch) :
          LET late == Redis!Later(batch, c)
          IN  /\ late \in Seq(Redis!Event) /\ Len(late) = Len(batch) - e
              /\ \A i \in 1 .. Len(batch) - e : late[i] = batch[e + i]
              /\ e < Len(batch) => c <= (base + d) + e
              /\ e > 0 => (base + d) + e <= c
    BY <1>2, <2>1, LaterIs
  <2> QED BY <1>0, <1>2, <2>2 DEF Redis!Handover
<1> HIDE DEF new
<1>6. /\ d + e \in 0 .. Len(events) /\ (d + e) + Len(new) <= Len(events)
      /\ \A i \in 1 .. Len(new) : new[i] = events[(d + e) + i]
  <2>1. ASSUME NEW i \in 1 .. Len(new) PROVE new[i] = events[(d + e) + i]
    <3>1. e + i \in 1 .. k /\ d + (e + i) = (d + e) + i
      BY <1>4
    <3> QED BY <1>2, <1>4, <3>1
  <2>2. \A n, x, y, j \in Nat : x + y <= n /\ j <= y =>
            x + j \in 0 .. n /\ (x + j) + (y - j) <= n
    OBVIOUS
  <2>3. Len(events) \in Nat /\ d \in Nat /\ k \in Nat /\ e \in Nat /\ e <= k
    BY <1>a
  <2>4. d + e \in 0 .. Len(events) /\ (d + e) + Len(new) <= Len(events)
    <3>1. d + k <= Len(events) /\ Len(new) = k - e
      BY <1>2, <1>4
    <3> QED BY <2>2, <2>3, <3>1
  <2> QED BY <2>1, <2>4
<1>7. batch[k].seq \in Nat /\ batch[k].seq = base + d + k
  BY <1>3
<1>8. new = <<>> => batch[k].seq <= c
  <2>1. new = <<>> => e = k
    BY <1>4
  <2> QED BY <1>4, <1>7, <2>1
<1>9. new # <<>> => new[Len(new)].seq = batch[k].seq
  <2>1. new # <<>> => k - e \in 1 .. k - e /\ e + (k - e) = k
    BY <1>4
  <2> QED BY <1>4, <2>1
<1>10. ASSUME Redis!Gap(c, batch) PROVE Len(events) > 0 /\ events[1].seq > c + 1
  <2>1. PICK i \in 1 .. k : batch[i].seq > c + 1 /\ \A j \in 1 .. i - 1 : batch[j].seq <= c
    BY <1>2, <1>10 DEF Redis!Gap
  <2>2. i = 1
    <3>1. ASSUME i > 1 PROVE FALSE
      <4>1. i - 1 \in 1 .. i - 1 /\ i - 1 \in 1 .. k
        BY <3>1
      <4>2. batch[i - 1].seq <= c /\ batch[i - 1].seq = base + d + (i - 1) /\
            batch[i].seq = base + d + i
        BY <1>3, <2>1, <4>1
      <4>3. batch[i].seq > c + 1
        BY <2>1
      <4>4. base + d + (i - 1) <= c /\ base + d + i > c + 1
        BY <4>2, <4>3
      <4> QED BY <1>3, <4>4
    <3> QED BY <3>1
  <2>3. base + d + 1 > c + 1
    BY <1>3, <2>1, <2>2
  <2>4. d = 0
    BY <1>a, <1>0, <1>1, <2>3
  <2>5. 1 \in 1 .. Len(events) /\ events[1].seq = base + 1
    BY <1>a, <1>0, <1>2
  <2> QED BY <2>3, <2>4, <2>5
<1>11. ASSUME ~Redis!Gap(c, batch), new # <<>> PROVE events[(d + e) + 1].seq = c + 1
  <2>1. e < k /\ (d + e) + 1 \in 1 .. Len(events)
    BY <1>a, <1>2, <1>4, <1>11
  <2>2. events[(d + e) + 1].seq = base + ((d + e) + 1) /\ c <= base + d + e
    BY <1>0, <1>4, <2>1
  <2>3. CASE e > 0
    <3>1. base + d + e <= c
      BY <1>4, <2>3
    <3>2. base + d + e = c
      BY <2>2, <3>1
    <3> QED BY <2>2, <3>2
  <2>4. CASE e = 0
    <3>1. batch[1].seq <= c + 1
      <4>1. 1 \in 1 .. Len(batch) /\ \A j \in 1 .. 1 - 1 : batch[j].seq <= c
        BY <1>2
      <4>2. ~(batch[1].seq > c + 1)
        BY <1>11, <4>1 DEF Redis!Gap
      <4> QED BY <1>2, <1>3, <4>1, <4>2
    <3>2. batch[1].seq = base + d + 1
      BY <1>3
    <3>3. base + d + 1 <= c + 1 /\ c <= base + d
      BY <2>2, <2>4, <3>1, <3>2
    <3> QED BY <2>2, <2>4, <3>3
  <2> QED BY <2>3, <2>4
<1>12. /\ batch[k].seq \in Nat
       /\ (d + e) + Len(new) <= Len(events) /\ new \in Seq(Redis!Event)
       /\ \A i \in 1 .. Len(new) : new[i] = events[(d + e) + i]
       /\ new = <<>> => batch[k].seq <= sub[s].cursor
       /\ new # <<>> => new[Len(new)].seq = batch[k].seq
       /\ Redis!Gap(sub[s].cursor, batch) => Len(events) > 0 /\ events[1].seq > sub[s].cursor + 1
       /\ ~Redis!Gap(sub[s].cursor, batch) /\ new # <<>> =>
              events[(d + e) + 1].seq = sub[s].cursor + 1
  BY <1>0, <1>4, <1>6, <1>7, <1>8, <1>9, <1>10, <1>11
<1>13. d + e \in 0 .. Len(events)
  BY <1>6
<1>14. IsBatch(s, k, batch, d + e)
  BY <1>12 DEF new, IsBatch
<1> QED BY <1>13, <1>14

-----------------------------------------------------------------------------
\* A line is appended, and the oldest events go.
LEMMA AppendIs ==
    ASSUME Redis!StreamAssumption, Redis!TypeOK, StreamInv, published < MaxPublished,
           Redis!AppendLine(published + 1)
    PROVE  /\ seq' = seq + 1 /\ seq' \in 0 .. MaxPublished
           /\ \E kept \in 1 .. MaxLines :
                 /\ kept <= Len(events) + 1 /\ events' \in Seq(Redis!Event) /\ Len(events') = kept
                 /\ \A i \in 1 .. kept :
                      events'[i] = IF (Len(events) + 1 - kept) + i <= Len(events)
                                   THEN events[(Len(events) + 1 - kept) + i]
                                   ELSE [seq |-> seq + 1, line |-> published + 1]
<1> DEFINE new == [seq |-> seq + 1, line |-> published + 1]
           all == Append(events, new)
<1>0. /\ events \in Seq(Redis!Event) /\ Len(events) \in Nat /\ seq \in Nat /\ published \in Nat
      /\ MaxPublished \in Nat /\ MaxLines \in Nat /\ seq <= published
  BY DEF Redis!TypeOK, StreamInv, Redis!StreamAssumption
<1>1. new \in Redis!Event
  BY <1>0 DEF Redis!Event
<1>2. /\ all \in Seq(Redis!Event) /\ Len(all) = Len(events) + 1
      /\ \A i \in 1 .. Len(events) : all[i] = events[i]
      /\ all[Len(events) + 1] = new
  BY <1>0, <1>1
<1>3. PICK kept \in 1 .. MaxLines :
          kept <= Len(events) + 1 /\ events' = SubSeq(all, Len(all) - kept + 1, Len(all))
  BY DEF Redis!AppendLine, Redis!Trimmed
<1>4. seq' = seq + 1
  BY DEF Redis!AppendLine
<1> HIDE DEF all, new
<1>5. /\ events' \in Seq(Redis!Event) /\ Len(events') = kept
      /\ \A i \in 1 .. kept : events'[i] = all[(Len(events) + 1 - kept) + i]
  BY <1>0, <1>2, <1>3
<1>6. ASSUME NEW i \in 1 .. kept
      PROVE  events'[i] = IF (Len(events) + 1 - kept) + i <= Len(events)
                          THEN events[(Len(events) + 1 - kept) + i] ELSE new
  <2>1. (Len(events) + 1 - kept) + i \in 1 .. Len(events) + 1
    BY <1>0, <1>3
  <2>2. CASE (Len(events) + 1 - kept) + i <= Len(events)
    BY <1>0, <1>2, <1>5, <2>1, <2>2
  <2>3. CASE ~((Len(events) + 1 - kept) + i <= Len(events))
    <3>1. (Len(events) + 1 - kept) + i = Len(events) + 1
      BY <1>0, <2>1, <2>3
    <3> QED BY <1>2, <1>5, <2>3, <3>1
  <2> QED BY <2>2, <2>3
<1>7. seq' \in 0 .. MaxPublished
  BY <1>0, <1>4
<1>8. \A i \in 1 .. kept :
         events'[i] = IF (Len(events) + 1 - kept) + i <= Len(events)
                      THEN events[(Len(events) + 1 - kept) + i]
                      ELSE [seq |-> seq + 1, line |-> published + 1]
  BY <1>6 DEF new
<1> QED BY <1>3, <1>4, <1>5, <1>7, <1>8

\* A record of a follower that changes.
LEMMA SubType ==
    ASSUME Redis!StreamAssumption, Redis!TypeOK
    PROVE  /\ \A s \in Redis!Followers : sub[s] \in Redis!Sub
           /\ \A p \in Redis!Processes : local[p] \in Redis!Hub
           /\ web \in Redis!Processes /\ "worker" \in Redis!Processes
           /\ MaxPublished \in Nat /\ MaxFails \in Nat /\ MaxLines \in Nat
BY DEF Redis!TypeOK, Redis!StreamAssumption, Redis!Processes

\* The steps of the generation.
LEMMA StartStep ==
    ASSUME Redis!StreamAssumption, RedisInv, NEW p \in Redis!Processes, Redis!Start(p)
    PROVE  RedisInv'
<1>0. /\ Redis!TypeOK /\ StreamInv /\ LocalInv /\ HandedInv /\ EndInv
  BY DEF RedisInv
<1>1. /\ UNCHANGED <<web, seq, events, signal, published, sub, handed>>
      /\ status' = status \/ (status = "none" /\ status' = "active")
      /\ fails' = fails \/ (fails < MaxFails /\ fails' = fails + 1)
      /\ local' = local \/ local' = [local EXCEPT ![p].status = "active"]
  BY DEF Redis!Start, Redis!Works, Redis!Fails, Redis!LocalStart
<1>2. /\ \A q \in Redis!Processes : local'[q].lines = local[q].lines
      /\ local' \in [Redis!Processes -> Redis!Hub]
  <2>1. \A q \in Redis!Processes : local[q] \in Redis!Hub
    BY <1>0, SubType
  <2>2. ASSUME NEW x \in {"active", "done"}, local' = [local EXCEPT ![p].status = x]
        PROVE  /\ \A q \in Redis!Processes : local'[q].lines = local[q].lines
               /\ local' \in [Redis!Processes -> Redis!Hub]
    <3>1. /\ local'[p] = [local[p] EXCEPT !.status = x]
          /\ \A q \in Redis!Processes \ {p} : local'[q] = local[q]
          /\ local' = [q \in Redis!Processes |-> local'[q]]
      BY <1>0, <2>2 DEF Redis!TypeOK
    <3>2. local'[p] \in Redis!Hub /\ local'[p].lines = local[p].lines
      BY <2>1, <3>1 DEF Redis!Hub
    <3> QED BY <2>1, <3>1, <3>2
  <2> QED BY <1>0, <1>1, <2>2 DEF Redis!TypeOK
<1>3. Redis!TypeOK'
  BY <1>0, <1>1, <1>2 DEF Redis!TypeOK, Redis!StreamAssumption
<1>4. StreamInv'
  BY <1>0, <1>1 DEF StreamInv
<1>5. LocalInv'
  BY <1>0, <1>1, <1>2 DEF LocalInv
<1>6. HandedInv'
  <2>1. web \in Redis!Processes /\ local'[web].lines = local[web].lines
    BY <1>0, <1>2, SubType
  <2> QED BY <1>0, <1>1, <2>1 DEF HandedInv, HandedOne, Redis!Reading, Taken
<1>7. fails' = 0 => fails = 0
  BY <1>0, <1>1, SubType DEF Redis!TypeOK
<1>8. EndInv'
  BY <1>0, <1>1, <1>7 DEF EndInv, EndOne, Redis!Reading
<1> QED BY <1>3, <1>4, <1>5, <1>6, <1>8 DEF RedisInv

LEMMA DoneStep ==
    ASSUME Redis!StreamAssumption, RedisInv, NEW p \in Redis!Processes, Redis!MarkDone(p)
    PROVE  RedisInv'
<1>0. /\ Redis!TypeOK /\ StreamInv /\ LocalInv /\ HandedInv /\ EndInv
  BY DEF RedisInv
<1>1. /\ UNCHANGED <<web, seq, events, published, sub, handed>>
      /\ \/ status' = status /\ signal' = signal
         \/ status' = "done" /\ signal' = TRUE
      /\ fails' = fails \/ (fails < MaxFails /\ fails' = fails + 1)
      /\ local' = local \/ local' = [local EXCEPT ![p].status = "done"]
  BY DEF Redis!MarkDone, Redis!Works, Redis!Fails, Redis!LocalDone, Redis!Terminal
<1>2. /\ \A q \in Redis!Processes : local'[q].lines = local[q].lines
      /\ local' \in [Redis!Processes -> Redis!Hub]
  <2>1. \A q \in Redis!Processes : local[q] \in Redis!Hub
    BY <1>0, SubType
  <2>2. ASSUME NEW x \in {"active", "done"}, local' = [local EXCEPT ![p].status = x]
        PROVE  /\ \A q \in Redis!Processes : local'[q].lines = local[q].lines
               /\ local' \in [Redis!Processes -> Redis!Hub]
    <3>1. /\ local'[p] = [local[p] EXCEPT !.status = x]
          /\ \A q \in Redis!Processes \ {p} : local'[q] = local[q]
          /\ local' = [q \in Redis!Processes |-> local'[q]]
      BY <1>0, <2>2 DEF Redis!TypeOK
    <3>2. local'[p] \in Redis!Hub /\ local'[p].lines = local[p].lines
      BY <2>1, <3>1 DEF Redis!Hub
    <3> QED BY <2>1, <3>1, <3>2
  <2> QED BY <1>0, <1>1, <2>2 DEF Redis!TypeOK
<1>3. Redis!TypeOK'
  <2>1. signal' \in BOOLEAN /\ status' \in {"none", "active", "done"}
    BY <1>0, <1>1 DEF Redis!TypeOK
  <2>2. fails' \in 0 .. MaxFails
    BY <1>0, <1>1, SubType DEF Redis!TypeOK
  <2> QED BY <1>0, <1>1, <1>2, <2>1, <2>2 DEF Redis!TypeOK
<1>4. StreamInv'
  BY <1>0, <1>1 DEF StreamInv
<1>5. LocalInv'
  BY <1>0, <1>1, <1>2 DEF LocalInv
<1>6. HandedInv'
  <2>1. web \in Redis!Processes /\ local'[web].lines = local[web].lines
    BY <1>0, <1>2, SubType
  <2> QED BY <1>0, <1>1, <2>1 DEF HandedInv, HandedOne, Redis!Reading, Taken
<1>7. fails' = 0 => fails = 0
  BY <1>0, <1>1, SubType DEF Redis!TypeOK
<1>8. EndInv'
  BY <1>0, <1>1, <1>7 DEF EndInv, EndOne, Redis!Reading
<1> QED BY <1>3, <1>4, <1>5, <1>6, <1>8 DEF RedisInv

LEMMA PublishStep ==
    ASSUME Redis!StreamAssumption, RedisInv, Redis!Publish
    PROVE  RedisInv'
<1>0. /\ Redis!TypeOK /\ StreamInv /\ LocalInv /\ HandedInv /\ EndInv
  BY DEF RedisInv
<1>1. /\ UNCHANGED <<web, status, signal, sub, handed>>
      /\ published < MaxPublished /\ published' = published + 1
      /\ fails' = fails \/ (fails < MaxFails /\ fails' = fails + 1)
      /\ local' = local
         \/ local' = [local EXCEPT !["worker"].lines = Append(@, published + 1)]
      /\ \/ seq' = seq /\ events' = events
         \/ status = "active" /\ Redis!AppendLine(published + 1)
  BY DEF Redis!Publish, Redis!Works, Redis!Fails, Redis!LocalPublish
<1>a. /\ events \in Seq(Redis!Event) /\ Len(events) \in Nat /\ seq \in Nat /\ published \in Nat
      /\ MaxPublished \in Nat /\ MaxLines \in Nat /\ MaxFails \in Nat /\ fails \in Nat
  BY <1>0 DEF Redis!TypeOK, Redis!StreamAssumption
<1>2. /\ local' \in [Redis!Processes -> Redis!Hub]
      /\ \A q \in Redis!Processes :
            /\ Len(local'[q].lines) >= Len(local[q].lines)
            /\ \A i \in 1 .. Len(local[q].lines) : local'[q].lines[i] = local[q].lines[i]
            /\ Len(local[q].lines) \in Nat /\ Len(local'[q].lines) \in Nat
  <2>1. CASE local' = local
    BY <1>0, <2>1 DEF Redis!TypeOK, Redis!Hub
  <2>2. CASE local' = [local EXCEPT !["worker"].lines = Append(@, published + 1)]
    <3>1. /\ \A q \in Redis!Processes : local[q].lines \in Seq(1 .. MaxPublished)
          /\ published + 1 \in 1 .. MaxPublished
      BY <1>0, <1>1, <1>a DEF Redis!TypeOK, Redis!Hub
    <3>2. /\ Append(local["worker"].lines, published + 1) \in Seq(1 .. MaxPublished)
          /\ Len(Append(local["worker"].lines, published + 1)) = Len(local["worker"].lines) + 1
          /\ \A i \in 1 .. Len(local["worker"].lines) :
                Append(local["worker"].lines, published + 1)[i] = local["worker"].lines[i]
      BY <3>1 DEF Redis!Processes
    <3>3. /\ local' \in [Redis!Processes -> Redis!Hub]
          /\ local'["worker"].lines = Append(local["worker"].lines, published + 1)
          /\ \A q \in Redis!Processes : q # "worker" => local'[q] = local[q]
      BY <1>0, <2>2, <3>2 DEF Redis!TypeOK, Redis!Hub, Redis!Processes
    <3>4. ASSUME NEW q \in Redis!Processes
          PROVE  /\ Len(local'[q].lines) >= Len(local[q].lines)
                 /\ \A i \in 1 .. Len(local[q].lines) : local'[q].lines[i] = local[q].lines[i]
                 /\ Len(local[q].lines) \in Nat /\ Len(local'[q].lines) \in Nat
      <4>1. Len(local[q].lines) \in Nat /\ Len(local["worker"].lines) \in Nat
        BY <3>1 DEF Redis!Processes
      <4>2. CASE q = "worker"
        BY <3>2, <3>3, <4>1, <4>2
      <4>3. CASE q # "worker"
        BY <3>3, <4>1, <4>3
      <4> QED BY <4>2, <4>3
    <3> QED BY <3>3, <3>4
  <2> QED BY <1>1, <2>1, <2>2
<1>b. \/ seq' = seq /\ events' = events
      \/ /\ status = "active" /\ seq' = seq + 1 /\ seq' \in 0 .. MaxPublished
         /\ \E kept \in 1 .. MaxLines :
               /\ kept <= Len(events) + 1 /\ events' \in Seq(Redis!Event) /\ Len(events') = kept
               /\ \A i \in 1 .. kept :
                      events'[i] = IF (Len(events) + 1 - kept) + i <= Len(events)
                                   THEN events[(Len(events) + 1 - kept) + i]
                                   ELSE [seq |-> seq + 1, line |-> published + 1]
  BY <1>0, <1>1, AppendIs
<1>3. Redis!TypeOK'
  BY <1>0, <1>1, <1>2, <1>a, <1>b DEF Redis!TypeOK
<1>e. /\ \A i \in 1 .. Len(events) : events[i].line \in Nat /\ events[i].seq \in Nat
      /\ Len(events') \in Nat /\ seq' \in Nat
  <2>1. events' \in Seq(Redis!Event) /\ seq' \in 0 .. MaxPublished
    BY <1>3 DEF Redis!TypeOK
  <2>2. \A i \in 1 .. Len(events) : events[i] \in Redis!Event
    BY <1>a
  <2> QED BY <1>a, <2>1, <2>2 DEF Redis!Event
<1>4. ASSUME seq' = seq, events' = events
      PROVE  /\ StreamInv'
             /\ events # <<>> => events' # <<>> /\ events'[1].seq >= events[1].seq
             /\ \A i \in 1 .. Len(events') :
                  (\E j \in 1 .. Len(events) : events'[i] = events[j]) \/
                    events'[i].line = published + 1
  <2>1. StreamInv'
    BY <1>0, <1>1, <1>a, <1>e, <1>4 DEF StreamInv
  <2>2. events # <<>> => events' # <<>> /\ events'[1].seq >= events[1].seq
    BY <1>a, <1>e, <1>4
  <2> QED BY <1>4, <2>1, <2>2
<1>5. ASSUME status = "active", seq' = seq + 1, NEW kept \in 1 .. MaxLines,
             kept <= Len(events) + 1, Len(events') = kept,
             \A i \in 1 .. kept :
                 events'[i] = IF (Len(events) + 1 - kept) + i <= Len(events)
                              THEN events[(Len(events) + 1 - kept) + i]
                              ELSE [seq |-> seq + 1, line |-> published + 1]
      PROVE  /\ StreamInv'
             /\ events # <<>> => events' # <<>> /\ events'[1].seq >= events[1].seq
             /\ \A i \in 1 .. Len(events') :
                  (\E j \in 1 .. Len(events) : events'[i] = events[j]) \/
                    events'[i].line = published + 1
  <2>a. Len(events) + 1 - kept \in Nat /\ kept \in Nat
    BY <1>a, <1>5
  <2>0. PICK m \in Nat : m = Len(events) + 1 - kept /\ m + kept = Len(events) + 1
    BY <1>a, <2>a
  <2>1. \A i \in 1 .. kept : /\ m + i <= Len(events) => /\ m + i \in 1 .. Len(events)
                                                        /\ events'[i] = events[m + i]
                             /\ m + i > Len(events) => /\ i = kept
                                                       /\ events'[i].seq = seq + 1
                                                       /\ events'[i].line = published + 1
    BY <1>a, <1>5, <2>0
  <2>2. ASSUME NEW i \in 1 .. kept
        PROVE  events'[i].seq = (seq' - kept) + i /\ events'[i].line <= published'
    <3>1. CASE m + i <= Len(events)
      <4>1. events[m + i].seq = (seq - Len(events)) + (m + i) /\ events[m + i].line <= published
        BY <1>0, <2>1, <3>1 DEF StreamInv
      <4>2. (seq - Len(events)) + (m + i) = ((seq + 1) - kept) + i
        BY <1>a, <2>a, <2>0
      <4>3. events'[i] = events[m + i] /\ m + i \in 1 .. Len(events)
        BY <2>1, <3>1
      <4>4. events[m + i].line \in Nat
        BY <1>e, <4>3
      <4>5. events'[i].seq = (seq' - kept) + i
        <5>1. events'[i].seq = ((seq + 1) - kept) + i
          BY <4>1, <4>2, <4>3
        <5> QED BY <1>5, <5>1
      <4>6. events'[i].line <= published'
        <5>1. events'[i].line \in Nat /\ events'[i].line <= published
          BY <4>1, <4>3, <4>4
        <5> QED BY <1>1, <1>a, <5>1
      <4> QED BY <4>5, <4>6
    <3>2. CASE m + i > Len(events)
      BY <1>1, <1>a, <1>5, <2>0, <2>1, <3>2
    <3> QED BY <1>a, <2>0, <3>1, <3>2
  <2>3. ASSUME NEW i \in 1 .. kept, NEW j \in 1 .. kept, i < j
        PROVE  events'[i].line < events'[j].line
    <3>1. m + i <= Len(events) /\ m + i \in 1 .. Len(events) /\ events'[i] = events[m + i]
      BY <1>a, <1>5, <2>0, <2>1, <2>3
    <3>2. CASE m + j <= Len(events)
      <4>1. m + j \in 1 .. Len(events) /\ events'[j] = events[m + j] /\ m + i < m + j
        BY <2>0, <2>1, <2>3, <3>2
      <4> QED BY <1>0, <3>1, <4>1 DEF StreamInv
    <3>3. CASE m + j > Len(events)
      <4>1. events[m + i].line <= published
        BY <1>0, <3>1 DEF StreamInv
      <4> QED BY <1>a, <1>e, <2>1, <3>1, <3>3, <4>1
    <3> QED BY <1>a, <2>0, <3>2, <3>3
  <2>4. StreamInv'
    BY <1>0, <1>1, <1>a, <1>5, <2>2, <2>3 DEF StreamInv
  <2>5. ASSUME events # <<>> PROVE events' # <<>> /\ events'[1].seq >= events[1].seq
    <3>1. 1 \in 1 .. kept /\ 1 \in 1 .. Len(events) /\ events' # <<>>
      BY <1>a, <1>5, <2>5
    <3>2. events'[1].seq = (seq' - kept) + 1 /\ events[1].seq = (seq - Len(events)) + 1
      BY <1>0, <2>2, <3>1 DEF StreamInv
    <3> QED BY <1>a, <1>5, <3>1, <3>2
  <2>6. ASSUME NEW i \in 1 .. Len(events')
        PROVE  (\E j \in 1 .. Len(events) : events'[i] = events[j]) \/
               events'[i].line = published + 1
    <3>1. CASE m + i <= Len(events)
      BY <1>5, <2>1, <3>1
    <3>2. CASE m + i > Len(events)
      BY <1>5, <2>1, <3>2
    <3> QED BY <1>a, <1>5, <2>0, <3>1, <3>2
  <2> QED BY <2>4, <2>5, <2>6
<1>6. /\ StreamInv'
      /\ events # <<>> => events' # <<>> /\ events'[1].seq >= events[1].seq
      /\ \A i \in 1 .. Len(events') :
            (\E j \in 1 .. Len(events) : events'[i] = events[j]) \/ events'[i].line = published + 1
      /\ status # "active" => seq' = seq
  <2>1. CASE seq' = seq /\ events' = events
    BY <1>4, <2>1
  <2>2. CASE ~(seq' = seq /\ events' = events)
    <3>1. status = "active"
      BY <1>b, <2>2
    <3> QED BY <1>b, <1>5, <2>2, <3>1
  <2> QED BY <2>1, <2>2
<1>7. LocalInv'
  <2>1. ASSUME NEW q \in Redis!Processes PROVE
            /\ \A i \in 1 .. Len(local'[q].lines) : local'[q].lines[i] <= published'
            /\ \A i, j \in 1 .. Len(local'[q].lines) : i < j =>
                  local'[q].lines[i] < local'[q].lines[j]
    <3>1. /\ local[q].lines \in Seq(1 .. MaxPublished) /\ Len(local[q].lines) \in Nat
          /\ \A i \in 1 .. Len(local[q].lines) : local[q].lines[i] \in Nat
          /\ \A i \in 1 .. Len(local[q].lines) : local[q].lines[i] <= published
          /\ \A i, j \in 1 .. Len(local[q].lines) : i < j => local[q].lines[i] < local[q].lines[j]
      BY <1>0, <1>a DEF Redis!TypeOK, Redis!Hub, LocalInv
    <3>2. CASE local'[q] = local[q]
      BY <1>1, <1>a, <3>1, <3>2
    <3>3. CASE local'[q].lines = Append(local[q].lines, published + 1)
      <4>1. /\ Len(local'[q].lines) = Len(local[q].lines) + 1
            /\ \A i \in 1 .. Len(local[q].lines) : local'[q].lines[i] = local[q].lines[i]
            /\ local'[q].lines[Len(local[q].lines) + 1] = published + 1
        BY <3>1, <3>3
      <4>2. ASSUME NEW i \in 1 .. Len(local'[q].lines)
            PROVE  i \in 1 .. Len(local[q].lines) \/ i = Len(local[q].lines) + 1
        BY <3>1, <4>1
      <4>3. ASSUME NEW i \in 1 .. Len(local'[q].lines) PROVE local'[q].lines[i] <= published'
        <5>1. CASE i \in 1 .. Len(local[q].lines)
          <6>1. local'[q].lines[i] \in Nat /\ local'[q].lines[i] <= published
            BY <3>1, <4>1, <5>1
          <6> QED BY <1>1, <1>a, <6>1
        <5>2. CASE i = Len(local[q].lines) + 1
          <6>1. local'[q].lines[i] = published + 1
            BY <4>1, <5>2
          <6> QED BY <1>1, <1>a, <6>1
        <5> QED BY <4>2, <5>1, <5>2
      <4>4. ASSUME NEW i \in 1 .. Len(local'[q].lines), NEW j \in 1 .. Len(local'[q].lines), i < j
            PROVE  local'[q].lines[i] < local'[q].lines[j]
        <5>1. i \in 1 .. Len(local[q].lines)
          BY <3>1, <4>1, <4>4
        <5>2. CASE j \in 1 .. Len(local[q].lines)
          BY <3>1, <4>1, <4>4, <5>1, <5>2
        <5>3. CASE j = Len(local[q].lines) + 1
          <6>1. local'[q].lines[i] \in Nat /\ local'[q].lines[i] <= published
            BY <3>1, <4>1, <5>1
          <6>2. local'[q].lines[j] = published + 1
            BY <4>1, <5>3
          <6> QED BY <1>a, <6>1, <6>2
        <5> QED BY <4>2, <5>2, <5>3
      <4> QED BY <4>3, <4>4
    <3>4. local'[q] = local[q] \/ local'[q].lines = Append(local[q].lines, published + 1)
      BY <1>0, <1>1 DEF Redis!TypeOK, Redis!Hub
    <3> QED BY <3>2, <3>3, <3>4
  <2> QED BY <2>1 DEF LocalInv
<1>8. HandedInv'
  <2>1. ASSUME NEW s \in Redis!Followers
        PROVE  /\ Taken(s) \in Nat /\ sub[s].cursor \in Nat
               /\ \A i \in 1 .. Taken(s) : handed[s][i].line \in Nat
    <3>1. handed[s] \in Seq(Redis!Event) /\ sub[s] \in Redis!Sub
      BY <1>0 DEF Redis!TypeOK
    <3>2. \A i \in 1 .. Len(handed[s]) : handed[s][i] \in Redis!Event
      BY <3>1
    <3> QED BY <1>a, <3>1, <3>2 DEF Taken, Redis!Event, Redis!Sub
  <2>2. ASSUME NEW s \in Redis!Followers, Redis!Reading(s), Taken(s) > 0,
               NEW i \in 1 .. Len(events'), events'[i].seq > sub[s].cursor
        PROVE  handed[s][Taken(s)].line < events'[i].line
    <3>1. Taken(s) \in 1 .. Taken(s)
      BY <2>1, <2>2
    <3>2. handed[s][Taken(s)].line <= published /\ handed[s][Taken(s)].line \in Nat
      BY <1>0, <2>1, <3>1 DEF HandedInv, HandedOne
    <3>3. CASE events'[i].line = published + 1
      BY <1>a, <3>2, <3>3
    <3>4. CASE \E j \in 1 .. Len(events) : events'[i] = events[j]
      BY <1>0, <2>2, <3>4 DEF HandedInv, HandedOne
    <3> QED BY <1>6, <3>3, <3>4
  <2>3. ASSUME NEW s \in Redis!Followers, sub[s].at = "local", Taken(s) > 0
        PROVE  /\ sub[s].cursor \in 1 .. Len(local'[web].lines)
               /\ handed[s][Taken(s)].line = local'[web].lines[sub[s].cursor]
    <3>1. /\ sub[s].cursor \in 1 .. Len(local[web].lines)
          /\ handed[s][Taken(s)].line = local[web].lines[sub[s].cursor]
      BY <1>0, <2>3 DEF HandedInv, HandedOne
    <3>2. web \in Redis!Processes
      BY <1>0, SubType
    <3> QED BY <1>2, <3>1, <3>2
  <2>4. \A s \in Redis!Followers : \A i \in 1 .. Taken(s) : handed[s][i].line <= published'
    BY <1>0, <1>1, <1>a, <2>1 DEF HandedInv, HandedOne
  <2>5. /\ UNCHANGED <<web, sub, handed>>
        /\ \A s \in Redis!Followers : Taken(s)' = Taken(s) /\ Redis!Reading(s)' = Redis!Reading(s)
    BY <1>1 DEF Taken, Redis!Reading
  <2> QED BY <1>0, <2>2, <2>3, <2>4, <2>5 DEF HandedInv, HandedOne
<1>9. EndInv'
  <2>1. fails' = 0 => fails = 0
    BY <1>1, <1>a
  <2>2. ASSUME NEW s \in Redis!Followers
        PROVE  sub[s].cursor \in Nat /\ (events # <<>> => events[1].seq \in Nat)
               /\ (events' # <<>> => events'[1].seq \in Nat)
    <3>1. sub[s] \in Redis!Sub /\ events' \in Seq(Redis!Event)
      BY <1>0, <1>3 DEF Redis!TypeOK
    <3>2. (events # <<>> => events[1] \in Redis!Event) /\
          (events' # <<>> => events'[1] \in Redis!Event)
      BY <1>a, <3>1
    <3> QED BY <1>a, <3>1, <3>2 DEF Redis!Event, Redis!Sub
  <2>3. ASSUME NEW s \in Redis!Followers, sub[s].ended = "gap"
        PROVE  events' # <<>> /\ events'[1].seq > sub[s].cursor + 1
    <3>1. events # <<>> /\ events[1].seq > sub[s].cursor + 1
      BY <1>0, <2>3 DEF EndInv, EndOne
    <3> QED BY <1>6, <2>2, <3>1
  <2>4. \A s \in Redis!Followers : Redis!Reading(s)' = Redis!Reading(s)
    BY <1>1 DEF Redis!Reading
  <2> QED BY <1>0, <1>1, <1>6, <2>1, <2>3, <2>4 DEF EndInv, EndOne
<1> QED BY <1>3, <1>6, <1>7, <1>8, <1>9 DEF RedisInv

\* A step of a follower leaves the others as they are.
LEMMA OneFollows ==
    ASSUME Redis!StreamAssumption, RedisInv, NEW s \in Redis!Followers,
           UNCHANGED <<web, status, seq, events, signal, local, published>>,
           sub' = [sub EXCEPT ![s] = sub'[s]], handed' = [handed EXCEPT ![s] = handed'[s]],
           sub'[s] \in Redis!Sub, handed'[s] \in Seq(Redis!Event),
           fails' = fails \/ (fails < MaxFails /\ fails' = fails + 1),
           HandedOne(s)', EndOne(s)'
    PROVE  RedisInv'
<1>0. /\ Redis!TypeOK /\ StreamInv /\ LocalInv /\ HandedInv /\ EndInv
  BY DEF RedisInv
<1>1. Redis!TypeOK'
  <2>1. fails' \in 0 .. MaxFails
    BY <1>0, SubType DEF Redis!TypeOK
  <2> QED BY <1>0, <2>1 DEF Redis!TypeOK
<1>2. StreamInv'
  BY <1>0 DEF StreamInv
<1>3. LocalInv'
  BY <1>0 DEF LocalInv
<1>4. \A u \in Redis!Followers : u # s => sub'[u] = sub[u] /\ handed'[u] = handed[u]
  BY <1>0 DEF Redis!TypeOK
<1>5. fails' = 0 => fails = 0
  BY <1>0, SubType DEF Redis!TypeOK
<1>6. HandedInv'
  <2>1. ASSUME NEW u \in Redis!Followers, u # s PROVE HandedOne(u)'
    <3>1. HandedOne(u) /\ sub'[u] = sub[u] /\ handed'[u] = handed[u]
      BY <1>0, <1>4, <2>1 DEF HandedInv
    <3> QED BY <3>1 DEF HandedOne, Taken, Redis!Reading
  <2> QED BY <2>1 DEF HandedInv
<1>7. EndInv'
  <2>1. ASSUME NEW u \in Redis!Followers, u # s PROVE EndOne(u)'
    <3>1. EndOne(u) /\ sub'[u] = sub[u]
      BY <1>0, <1>4, <2>1 DEF EndInv
    <3> QED BY <1>5, <3>1 DEF EndOne, Redis!Reading
  <2> QED BY <2>1 DEF EndInv
<1> QED BY <1>1, <1>2, <1>3, <1>6, <1>7 DEF RedisInv

\* The facts about one follower that its steps start from.
LEMMA OneFacts ==
    ASSUME Redis!StreamAssumption, RedisInv, NEW s \in Redis!Followers
    PROVE  /\ Redis!TypeOK /\ StreamInv /\ LocalInv /\ HandedOne(s) /\ EndOne(s)
           /\ sub[s] \in Redis!Sub /\ handed[s] \in Seq(Redis!Event) /\ Taken(s) \in Nat
           /\ sub[s].cursor \in Nat /\ sub[s].last \in Nat /\ sub[s].from \in Nat
           /\ \A i \in 1 .. Taken(s) : handed[s][i] \in Redis!Event
           /\ \A i \in 1 .. Taken(s) : handed[s][i].line \in Nat /\ handed[s][i].seq \in Nat
           /\ events \in Seq(Redis!Event) /\ Len(events) \in Nat
           /\ \A i \in 1 .. Len(events) : events[i].line \in Nat /\ events[i].seq \in Nat
           /\ published \in Nat /\ seq \in Nat /\ fails \in Nat
           /\ MaxPublished \in Nat /\ MaxFails \in Nat /\ MaxLines \in Nat
           /\ sub = [sub EXCEPT ![s] = sub[s]] /\ handed = [handed EXCEPT ![s] = handed[s]]
<1>1. /\ Redis!TypeOK /\ StreamInv /\ LocalInv /\ HandedOne(s) /\ EndOne(s)
  BY DEF RedisInv, HandedInv, EndInv
<1>2. /\ sub[s] \in Redis!Sub /\ handed[s] \in Seq(Redis!Event) /\ events \in Seq(Redis!Event)
      /\ sub = [sub EXCEPT ![s] = sub[s]] /\ handed = [handed EXCEPT ![s] = handed[s]]
  BY <1>1 DEF Redis!TypeOK
<1>3. /\ published \in Nat /\ seq \in Nat /\ fails \in Nat
      /\ MaxPublished \in Nat /\ MaxFails \in Nat /\ MaxLines \in Nat
  BY <1>1 DEF Redis!TypeOK, Redis!StreamAssumption
<1>4. /\ Taken(s) \in Nat /\ Len(events) \in Nat
      /\ sub[s].cursor \in Nat /\ sub[s].last \in Nat /\ sub[s].from \in Nat
  BY <1>2, <1>3 DEF Taken, Redis!Sub
<1>5. /\ \A i \in 1 .. Len(handed[s]) : handed[s][i] \in Redis!Event
      /\ \A i \in 1 .. Len(events) : events[i] \in Redis!Event
  BY <1>2
<1>6. /\ \A i \in 1 .. Taken(s) : handed[s][i].line \in Nat /\ handed[s][i].seq \in Nat
      /\ \A i \in 1 .. Len(events) : events[i].line \in Nat /\ events[i].seq \in Nat
  BY <1>3, <1>5 DEF Taken, Redis!Event
<1> QED BY <1>1, <1>2, <1>3, <1>4, <1>5, <1>6 DEF Taken

LEMMA SubscribeStep ==
    ASSUME Redis!StreamAssumption, RedisInv, NEW s \in Redis!Followers, Redis!Subscribe(s)
    PROVE  RedisInv'
<1>0. /\ HandedOne(s) /\ EndOne(s) /\ sub[s] \in Redis!Sub /\ handed[s] \in Seq(Redis!Event)
      /\ published \in Nat /\ MaxPublished \in Nat /\ fails \in Nat /\ Redis!TypeOK
      /\ handed = [handed EXCEPT ![s] = handed[s]]
  BY OneFacts
<1>1. /\ UNCHANGED <<web, status, seq, events, signal, local, published, handed>>
      /\ sub[s].at = "new"
      /\ fails' = fails \/ (fails < MaxFails /\ fails' = fails + 1)
      /\ \E at2 \in {"status", "local", "over"} :
            Redis!Opens(s, at2) /\ (at2 = "status" => status # "none")
  BY DEF Redis!Subscribe, Redis!Works, Redis!Fails, Redis!hubVars
<1>2. PICK at2 \in {"status", "local", "over"} :
          Redis!Opens(s, at2) /\ (at2 = "status" => status # "none")
  BY <1>1
<1>3. PICK n \in 0 .. published :
          sub' = [sub EXCEPT ![s] = [Redis!Fresh EXCEPT !.at = at2, !.from = n, !.cursor = n]]
  BY <1>2 DEF Redis!Opens
<1>4. /\ sub'[s] = [at |-> at2, from |-> n, cursor |-> n, last |-> 0,
                    woken |-> FALSE, done |-> FALSE, ended |-> "no"]
      /\ sub' = [sub EXCEPT ![s] = sub'[s]]
  BY <1>0, <1>3 DEF Redis!TypeOK, Redis!Fresh
<1>5. sub'[s] \in Redis!Sub
  <2>1. n \in 0 .. MaxPublished /\ n \in Nat
    BY <1>0 DEF Redis!TypeOK
  <2> QED BY <1>4, <2>1 DEF Redis!Sub
<1>6. handed'[s] = <<>> /\ Taken(s)' = 0
  BY <1>0, <1>1 DEF HandedOne, Taken
<1>7. HandedOne(s)'
  <2>1. sub'[s].cursor = sub'[s].from + 0 /\ sub'[s].last <= sub'[s].cursor
    BY <1>4
  <2> QED BY <1>6, <2>1 DEF HandedOne
<1>8. EndOne(s)'
  BY <1>1, <1>2, <1>4 DEF EndOne, Redis!Reading
<1>9. handed' = [handed EXCEPT ![s] = handed'[s]] /\ handed'[s] \in Seq(Redis!Event)
  BY <1>0, <1>1
<1> QED BY <1>1, <1>4, <1>5, <1>7, <1>8, <1>9, OneFollows

LEMMA ReadStatusStep ==
    ASSUME Redis!StreamAssumption, RedisInv, NEW s \in Redis!Followers, Redis!ReadStatus(s)
    PROVE  RedisInv'
<1>0. /\ HandedOne(s) /\ EndOne(s) /\ sub[s] \in Redis!Sub /\ handed[s] \in Seq(Redis!Event)
      /\ fails \in Nat /\ Redis!TypeOK /\ handed = [handed EXCEPT ![s] = handed[s]]
  BY OneFacts
<1>1. /\ UNCHANGED <<web, status, seq, events, signal, local, published, handed>>
      /\ sub[s].at = "status"
  BY DEF Redis!ReadStatus, Redis!hubVars
<1>2. PICK d \in {<<status # "active", 0>>, <<s \in Subscribers \ Async, 1>>} :
          /\ IF d[2] = 0 THEN fails' = fails ELSE fails < MaxFails /\ fails' = fails + 1
          /\ sub' = [sub EXCEPT ![s].at = "read", ![s].done = d[1]]
  BY DEF Redis!ReadStatus, Redis!Works, Redis!Fails
<1>3. d[1] \in BOOLEAN /\ (d[2] = 0 => (d[1] <=> status # "active"))
  <2>1. CASE d = <<status # "active", 0>>
    <3>1. d[1] = (status # "active")
      BY <2>1
    <3> QED BY <3>1
  <2>2. CASE d = <<s \in Subscribers \ Async, 1>>
    <3>1. d[1] = (s \in Subscribers \ Async) /\ d[2] = 1
      BY <2>2
    <3> QED BY <3>1
  <2> QED BY <2>1, <2>2
<1>4. /\ sub'[s] = [sub[s] EXCEPT !.at = "read", !.done = d[1]]
      /\ sub' = [sub EXCEPT ![s] = sub'[s]]
  BY <1>0, <1>2 DEF Redis!TypeOK
<1>5. sub'[s] \in Redis!Sub
  BY <1>0, <1>3, <1>4 DEF Redis!Sub
<1>6. /\ sub'[s].at = "read" /\ sub'[s].done = d[1] /\ sub'[s].from = sub[s].from
      /\ sub'[s].cursor = sub[s].cursor /\ sub'[s].last = sub[s].last
      /\ sub'[s].ended = sub[s].ended
  BY <1>0, <1>4 DEF Redis!Sub
<1>7. HandedOne(s)'
  BY <1>0, <1>1, <1>6 DEF HandedOne, Taken, Redis!Reading
<1>8. EndOne(s)'
  <2>1. fails' = 0 => (d[1] <=> status # "active")
    BY <1>0, <1>2, <1>3
  <2>2. status \in {"none", "active", "done"}
    BY <1>0 DEF Redis!TypeOK
  <2> QED BY <1>0, <1>1, <1>6, <2>1, <2>2 DEF EndOne, Redis!Reading
<1>9. handed' = [handed EXCEPT ![s] = handed'[s]] /\ handed'[s] \in Seq(Redis!Event)
  BY <1>0, <1>1
<1>10. fails' = fails \/ (fails < MaxFails /\ fails' = fails + 1)
  BY <1>2
<1> QED BY <1>1, <1>4, <1>5, <1>7, <1>8, <1>9, <1>10, OneFollows

\* Nothing was left to read: the follower has every event.
LEMMA NothingLeft ==
    ASSUME Redis!StreamAssumption, RedisInv, NEW s \in Redis!Followers, Redis!Unread(s) = <<>>
    PROVE  seq <= sub[s].cursor
<1>0. /\ StreamInv /\ HandedOne(s) /\ sub[s].last \in Nat /\ sub[s].cursor \in Nat
      /\ events \in Seq(Redis!Event) /\ Len(events) \in Nat /\ seq \in Nat
  BY OneFacts
<1>1. PICK base \in Nat : base + Len(events) = seq /\
      \A i \in 1 .. Len(events) : events[i].seq = base + i
  <2>1. seq - Len(events) \in Nat /\ (seq - Len(events)) + Len(events) = seq
    BY <1>0 DEF StreamInv
  <2> QED BY <1>0, <2>1 DEF StreamInv
<1>2. \E d \in 0 .. Len(events) :
          LET late == Redis!Later(events, sub[s].last)
          IN  /\ late \in Seq(Redis!Event) /\ Len(late) = Len(events) - d
              /\ \A i \in 1 .. Len(events) - d : late[i] = events[d + i]
              /\ d < Len(events) => sub[s].last <= base + d
              /\ d > 0 => base + d <= sub[s].last
  BY <1>0, <1>1, LaterIs
<1>3. PICK d \in 0 .. Len(events) : /\ Len(Redis!Unread(s)) = Len(events) - d
                                    /\ d > 0 => base + d <= sub[s].last
  BY <1>2 DEF Redis!Unread
<1>4. d = Len(events)
  BY <1>0, <1>3
<1>5. CASE d > 0
  BY <1>0, <1>1, <1>3, <1>4, <1>5 DEF HandedOne
<1>6. CASE d = 0
  BY <1>0, <1>4, <1>6 DEF StreamInv
<1> QED BY <1>0, <1>4, <1>5, <1>6

LEMMA ReadNothingStep ==
    ASSUME Redis!StreamAssumption, RedisInv, NEW s \in Redis!Followers, Redis!ReadNothing(s)
    PROVE  RedisInv'
<1>0. /\ HandedOne(s) /\ EndOne(s) /\ sub[s] \in Redis!Sub /\ handed[s] \in Seq(Redis!Event)
      /\ fails \in Nat /\ Redis!TypeOK /\ handed = [handed EXCEPT ![s] = handed[s]]
  BY OneFacts
<1>1. /\ UNCHANGED <<web, status, seq, events, signal, local, published, handed>>
      /\ sub[s].at = "read"
      /\ \/ fails' = fails /\ Redis!Unread(s) = <<>>
         \/ fails < MaxFails /\ fails' = fails + 1
      /\ IF sub[s].done THEN Redis!Ends(s, "drained")
         ELSE sub' = [sub EXCEPT ![s].at = IF s \in Async THEN "recheck" ELSE "status"]
  BY DEF Redis!ReadNothing, Redis!Works, Redis!Fails, Redis!hubVars
<1>2. \/ /\ sub[s].done
         /\ sub'[s] = [sub[s] EXCEPT !.at = "over", !.ended = "drained"]
         /\ sub' = [sub EXCEPT ![s] = sub'[s]]
      \/ /\ ~sub[s].done
         /\ sub'[s] = [sub[s] EXCEPT !.at = IF s \in Async THEN "recheck" ELSE "status"]
         /\ sub' = [sub EXCEPT ![s] = sub'[s]]
  BY <1>0, <1>1 DEF Redis!TypeOK, Redis!Ends
<1>3. sub'[s] \in Redis!Sub /\ sub' = [sub EXCEPT ![s] = sub'[s]]
  BY <1>0, <1>2 DEF Redis!Sub
<1>4. /\ sub'[s].done = sub[s].done /\ sub'[s].from = sub[s].from
      /\ sub'[s].cursor = sub[s].cursor /\ sub'[s].last = sub[s].last
      /\ \/ sub[s].done /\ sub'[s].at = "over" /\ sub'[s].ended = "drained"
         \/ /\ ~sub[s].done /\ sub'[s].ended = sub[s].ended
            /\ \/ sub'[s].at = "recheck" /\ s \in Async
               \/ sub'[s].at = "status"
  BY <1>0, <1>2 DEF Redis!Sub
<1>5. HandedOne(s)'
  BY <1>0, <1>1, <1>4 DEF HandedOne, Taken, Redis!Reading
<1>6. fails' = 0 => fails = 0 /\ seq <= sub[s].cursor
  BY <1>0, <1>1, NothingLeft
<1>7. EndOne(s)'
  BY <1>0, <1>1, <1>4, <1>6 DEF EndOne, Redis!Reading
<1>8. handed' = [handed EXCEPT ![s] = handed'[s]] /\ handed'[s] \in Seq(Redis!Event)
  BY <1>0, <1>1
<1> QED BY <1>1, <1>3, <1>5, <1>7, <1>8, OneFollows

LEMMA RecheckStep ==
    ASSUME Redis!StreamAssumption, RedisInv, NEW s \in Redis!Followers, Redis!Recheck(s)
    PROVE  RedisInv'
<1>0. /\ HandedOne(s) /\ EndOne(s) /\ sub[s] \in Redis!Sub /\ handed[s] \in Seq(Redis!Event)
      /\ fails \in Nat /\ Redis!TypeOK /\ handed = [handed EXCEPT ![s] = handed[s]]
  BY OneFacts
<1>1. /\ UNCHANGED <<web, status, seq, events, signal, local, published, handed>>
      /\ sub[s].at = "recheck"
      /\ fails' = fails \/ (fails < MaxFails /\ fails' = fails + 1)
      /\ Redis!Ends(s, "polled") \/ sub' = [sub EXCEPT ![s].at = "read"]
  BY DEF Redis!Recheck, Redis!Works, Redis!Fails, Redis!hubVars
<1>2. /\ sub' = [sub EXCEPT ![s] = sub'[s]]
      /\ \/ sub'[s] = [sub[s] EXCEPT !.at = "over", !.ended = "polled"]
         \/ sub'[s] = [sub[s] EXCEPT !.at = "read"]
  BY <1>0, <1>1 DEF Redis!TypeOK, Redis!Ends
<1>3. sub'[s] \in Redis!Sub
  BY <1>0, <1>2 DEF Redis!Sub
<1>4. /\ sub'[s].done = sub[s].done /\ sub'[s].from = sub[s].from
      /\ sub'[s].cursor = sub[s].cursor /\ sub'[s].last = sub[s].last
      /\ \/ sub'[s].at = "over" /\ sub'[s].ended = "polled"
         \/ sub'[s].at = "read" /\ sub'[s].ended = sub[s].ended
  BY <1>0, <1>2 DEF Redis!Sub
<1>5. HandedOne(s)'
  BY <1>0, <1>1, <1>4 DEF HandedOne, Taken, Redis!Reading
<1>6. fails' = 0 => fails = 0
  BY <1>0, <1>1
<1>7. EndOne(s)'
  BY <1>0, <1>1, <1>4, <1>6 DEF EndOne, Redis!Reading
<1>8. handed' = [handed EXCEPT ![s] = handed'[s]] /\ handed'[s] \in Seq(Redis!Event)
  BY <1>0, <1>1
<1> QED BY <1>1, <1>2, <1>3, <1>5, <1>7, <1>8, OneFollows

LEMMA FollowLocalStep ==
    ASSUME Redis!StreamAssumption, RedisInv, NEW s \in Redis!Followers, Redis!FollowLocal(s)
    PROVE  RedisInv'
<1>0. /\ HandedOne(s) /\ EndOne(s) /\ sub[s] \in Redis!Sub /\ handed[s] \in Seq(Redis!Event)
      /\ fails \in Nat /\ Redis!TypeOK /\ handed = [handed EXCEPT ![s] = handed[s]]
      /\ LocalInv /\ Taken(s) \in Nat /\ sub[s].cursor \in Nat /\ sub[s].last \in Nat
      /\ sub[s].from \in Nat /\ published \in Nat /\ MaxPublished \in Nat
      /\ \A i \in 1 .. Taken(s) : handed[s][i] \in Redis!Event
  BY OneFacts
<1> DEFINE n == sub[s].cursor + 1
           entry == [seq |-> n, line |-> local[web].lines[n]]
<1>1. /\ UNCHANGED <<web, status, seq, events, signal, local, published, fails>>
      /\ sub[s].at = "local"
      /\ IF n <= Len(local[web].lines)
         THEN handed' = [handed EXCEPT ![s] = Append(@, entry)] /\
           sub' = [sub EXCEPT ![s].cursor = n]
         ELSE UNCHANGED handed /\ \E why \in {"missing", "local"} : Redis!Ends(s, why)
  BY DEF Redis!FollowLocal, Redis!Works, Redis!hubVars
<1>2. CASE n <= Len(local[web].lines)
  <2>1. /\ n \in Nat /\ web \in Redis!Processes /\ local[web].lines \in Seq(1 .. MaxPublished)
        /\ Len(local[web].lines) \in Nat
    BY <1>0, SubType DEF Redis!Hub
  <2>2. /\ n \in 1 .. Len(local[web].lines) /\ local[web].lines[n] \in 1 .. MaxPublished
        /\ local[web].lines[n] <= published
    <3>1. n \in 1 .. Len(local[web].lines)
      BY <1>0, <1>2, <2>1
    <3>2. local[web].lines[n] <= published
      BY <1>0, <2>1, <3>1 DEF LocalInv
    <3>3. local[web].lines[n] \in 1 .. MaxPublished
      <4> HIDE DEF n
      <4>1. \A S : \A l \in Seq(S) : \A i \in 1 .. Len(l) : l[i] \in S
        OBVIOUS
      <4> QED BY <2>1, <3>1, <4>1, Zenon
    <3> QED BY <3>1, <3>2, <3>3
  <2>3. entry \in Redis!Event /\ entry.seq = n /\ entry.line = local[web].lines[n]
    BY <1>0, <2>1, <2>2 DEF Redis!Event
  <2>4. PICK line \in Nat : line = local[web].lines[n] /\ entry.line = line /\ line <= published
    BY <2>2, <2>3
  <2> HIDE DEF entry
  <2>5. handed'[s] = Append(handed[s], entry) /\ handed' = [handed EXCEPT ![s] = handed'[s]]
    BY <1>0, <1>1, <1>2 DEF Redis!TypeOK
  <2>6. /\ handed'[s] \in Seq(Redis!Event) /\ Len(handed'[s]) = Taken(s) + 1
        /\ \A i \in 1 .. Taken(s) : handed'[s][i] = handed[s][i]
        /\ handed'[s][Taken(s) + 1] = entry
    BY <1>0, <2>3, <2>5 DEF Taken
  <2>7. sub'[s] = [sub[s] EXCEPT !.cursor = n] /\ sub' = [sub EXCEPT ![s] = sub'[s]]
    BY <1>0, <1>1, <1>2 DEF Redis!TypeOK
  <2>8. sub'[s] \in Redis!Sub
    BY <1>0, <2>1, <2>7 DEF Redis!Sub
  <2>9. /\ sub'[s].at = "local" /\ sub'[s].cursor = n /\ sub'[s].from = sub[s].from
        /\ sub'[s].last = sub[s].last /\ sub'[s].ended = sub[s].ended /\ sub'[s].done = sub[s].done
    BY <1>0, <1>1, <2>7 DEF Redis!Sub
  <2>10. /\ sub[s].cursor = sub[s].from + Taken(s) /\ n = sub[s].from + (Taken(s) + 1)
         /\ sub[s].last <= n
    <3>1. sub[s].cursor = sub[s].from + Taken(s) /\ sub[s].last <= sub[s].cursor
      BY <1>0 DEF HandedOne
    <3> QED BY <1>0, <3>1
  <2>11. Taken(s)' = Taken(s) + 1
    BY <2>6 DEF Taken
  <2>12. ASSUME NEW i \in 1 .. Taken(s) + 1
         PROVE  handed'[s][i].seq = sub[s].from + i /\ handed'[s][i].line <= published
    <3>1. CASE i \in 1 .. Taken(s)
      BY <1>0, <2>6, <3>1 DEF HandedOne
    <3>2. CASE i = Taken(s) + 1
      BY <2>3, <2>4, <2>6, <2>10, <3>2
    <3> QED BY <1>0, <3>1, <3>2
  <2>13. ASSUME NEW i \in 1 .. Taken(s) + 1, i > 1
         PROVE  handed'[s][i - 1].line < handed'[s][i].line
    <3>0. i - 1 \in 1 .. Taken(s) /\ handed'[s][i - 1] = handed[s][i - 1]
      BY <1>0, <2>6, <2>13
    <3>1. CASE i \in 1 .. Taken(s)
      BY <1>0, <2>6, <2>13, <3>0, <3>1 DEF HandedOne
    <3>2. CASE i = Taken(s) + 1
      <4>1. Taken(s) > 0 /\ i - 1 = Taken(s)
        BY <1>0, <2>13, <3>2
      <4>2. /\ sub[s].cursor \in 1 .. Len(local[web].lines)
            /\ handed[s][Taken(s)].line = local[web].lines[sub[s].cursor]
        BY <1>0, <1>1, <4>1 DEF HandedOne
      <4>3. local[web].lines[sub[s].cursor] < local[web].lines[n]
        <5>1. sub[s].cursor < n
          BY <1>0
        <5> QED BY <1>0, <2>1, <2>2, <4>2, <5>1 DEF LocalInv
      <4> QED BY <2>4, <2>6, <3>0, <3>2, <4>1, <4>2, <4>3
    <3> QED BY <1>0, <3>1, <3>2
  <2>14. HandedOne(s)'
    <3>1. ~Redis!Reading(s)' /\ sub'[s].at # "new"
      BY <2>9 DEF Redis!Reading
    <3>2. sub'[s].cursor = sub'[s].from + Taken(s)' /\ sub'[s].last <= sub'[s].cursor
      BY <2>9, <2>10, <2>11
    <3>3. \A i \in 1 .. Taken(s)' : handed'[s][i].seq = sub'[s].from + i /\
          handed'[s][i].line <= published'
      BY <1>1, <2>9, <2>11, <2>12
    <3>4. \A i \in 1 .. Taken(s)' : i > 1 => handed'[s][i - 1].line < handed'[s][i].line
      BY <2>11, <2>13
    <3>5. /\ sub'[s].cursor \in 1 .. Len(local'[web'].lines)
          /\ handed'[s][Taken(s)'].line = local'[web'].lines[sub'[s].cursor]
      BY <1>1, <2>2, <2>4, <2>6, <2>9, <2>11
    <3> QED BY <3>1, <3>2, <3>3, <3>4, <3>5 DEF HandedOne
  <2>15. EndOne(s)'
    <3>1. ~Redis!Reading(s)' /\ sub'[s].at = "local" /\ sub'[s].ended = "no"
      BY <1>0, <1>1, <2>9 DEF Redis!Reading, EndOne
    <3> QED BY <3>1 DEF EndOne
  <2> QED BY <1>1, <2>5, <2>6, <2>7, <2>8, <2>14, <2>15, OneFollows
<1>3. CASE ~(n <= Len(local[web].lines))
  <2>1. PICK why \in {"missing", "local"} : Redis!Ends(s, why)
    BY <1>1, <1>3
  <2>2. /\ sub'[s] = [sub[s] EXCEPT !.at = "over", !.ended = why]
        /\ sub' = [sub EXCEPT ![s] = sub'[s]] /\ handed' = handed
    BY <1>0, <1>1, <1>3, <2>1 DEF Redis!TypeOK, Redis!Ends
  <2>3. sub'[s] \in Redis!Sub
    BY <1>0, <2>2 DEF Redis!Sub
  <2>4. /\ sub'[s].at = "over" /\ sub'[s].cursor = sub[s].cursor /\ sub'[s].from = sub[s].from
        /\ sub'[s].last = sub[s].last /\ sub'[s].ended = why
    BY <1>0, <2>2 DEF Redis!Sub
  <2>5. HandedOne(s)'
    BY <1>0, <1>1, <2>2, <2>4 DEF HandedOne, Taken, Redis!Reading
  <2>6. EndOne(s)'
    BY <2>4 DEF EndOne, Redis!Reading
  <2>7. handed' = [handed EXCEPT ![s] = handed'[s]] /\ handed'[s] \in Seq(Redis!Event)
    BY <1>0, <2>2
  <2> QED BY <1>1, <2>2, <2>3, <2>5, <2>6, <2>7, OneFollows
<1> QED BY <1>2, <1>3

LEMMA ConcatIs ==
    ASSUME NEW S, NEW x \in Seq(S), NEW y \in Seq(S)
    PROVE  /\ x \o y \in Seq(S) /\ Len(x \o y) = Len(x) + Len(y)
           /\ \A i \in 1 .. Len(x) : (x \o y)[i] = x[i]
           /\ \A i \in 1 .. Len(y) : (x \o y)[Len(x) + i] = y[i]
OBVIOUS

\* What a follower has read once it takes in what a read hands over.
LEMMA TakenIn ==
    ASSUME Redis!StreamAssumption, RedisInv, NEW s \in Redis!Followers, sub[s].at = "read",
           NEW new \in Seq(Redis!Event), NEW m \in 0 .. Len(events),
           new # <<>>, m + Len(new) <= Len(events),
           \A i \in 1 .. Len(new) : new[i] = events[m + i],
           events[m + 1].seq = sub[s].cursor + 1,
           UNCHANGED <<events, published>>,
           handed'[s] = handed[s] \o new, sub'[s].cursor = new[Len(new)].seq,
           sub'[s].from = sub[s].from, sub'[s].last <= sub'[s].cursor,
           sub'[s].at # "new", sub'[s].at # "local"
    PROVE  HandedOne(s)' /\ handed'[s] \in Seq(Redis!Event)
<1>0. /\ HandedOne(s) /\ StreamInv /\ handed[s] \in Seq(Redis!Event) /\ Taken(s) \in Nat
      /\ sub[s].cursor \in Nat /\ sub[s].from \in Nat /\ published \in Nat
      /\ events \in Seq(Redis!Event) /\ Len(events) \in Nat /\ seq \in Nat
      /\ \A i \in 1 .. Taken(s) : handed[s][i].line \in Nat /\ handed[s][i].seq \in Nat
      /\ \A i \in 1 .. Len(events) : events[i].line \in Nat /\ events[i].seq \in Nat
  BY OneFacts
<1>1. PICK base \in Nat : \A i \in 1 .. Len(events) : events[i].seq = base + i
  <2>1. seq - Len(events) \in Nat
    BY <1>0 DEF StreamInv
  <2>2. \A i \in 1 .. Len(events) : events[i].seq = (seq - Len(events)) + i
    BY <1>0 DEF StreamInv
  <2> QED BY <2>1, <2>2
<1>2. PICK t \in Nat, h \in Nat : t = Taken(s) /\ h = Len(new)
  BY <1>0
<1>3. /\ h > 0 /\ m + h <= Len(events) /\ m \in Nat
      /\ \A i \in 1 .. h : m + i \in 1 .. Len(events) /\ new[i] = events[m + i]
  BY <1>0, <1>2
<1>4. /\ handed'[s] \in Seq(Redis!Event) /\ Len(handed'[s]) = t + h /\ Taken(s)' = t + h
      /\ \A i \in 1 .. t : handed'[s][i] = handed[s][i]
      /\ \A i \in 1 .. h : handed'[s][t + i] = new[i]
  <2>1. Len(handed[s]) = t /\ Len(new) = h
    BY <1>2 DEF Taken
  <2>2. /\ handed[s] \o new \in Seq(Redis!Event) /\ Len(handed[s] \o new) = t + h
        /\ \A i \in 1 .. t : (handed[s] \o new)[i] = handed[s][i]
        /\ \A i \in 1 .. h : (handed[s] \o new)[t + i] = new[i]
    <3>1. /\ handed[s] \o new \in Seq(Redis!Event)
          /\ Len(handed[s] \o new) = Len(handed[s]) + Len(new)
          /\ \A i \in 1 .. Len(handed[s]) : (handed[s] \o new)[i] = handed[s][i]
          /\ \A i \in 1 .. Len(new) : (handed[s] \o new)[Len(handed[s]) + i] = new[i]
      BY <1>0, ConcatIs
    <3> QED BY <2>1, <3>1
  <2> QED BY <2>2 DEF Taken
<1>5. PICK f \in Nat : f = sub[s].from /\ sub[s].cursor = f + t
  BY <1>0, <1>2 DEF HandedOne
<1>6. base + m = f + t
  <2>1. 1 \in 1 .. h
    BY <1>3
  <2>2. m + 1 \in 1 .. Len(events)
    BY <1>3, <2>1
  <2>3. base + (m + 1) = (f + t) + 1
    BY <1>1, <1>5, <2>2
  <2> QED BY <1>3, <2>3
<1>7. \A i \in 1 .. h : /\ handed'[s][t + i] = events[m + i] /\ m + i \in 1 .. Len(events)
                        /\ events[m + i].seq = f + (t + i)
  <2>1. ASSUME NEW i \in 1 .. h PROVE events[m + i].seq = f + (t + i)
    <3>1. events[m + i].seq = base + (m + i)
      BY <1>1, <1>3
    <3>2. base + (m + i) = f + (t + i)
      <4>1. base \in Nat /\ m \in Nat /\ f \in Nat /\ t \in Nat /\ i \in Nat
        BY <1>1, <1>2, <1>3, <1>5
      <4>2. \A a, b, x, y, z \in Nat : a + b = x + y => a + (b + z) = x + (y + z)
        OBVIOUS
      <4> QED BY <1>6, <4>1, <4>2
    <3> QED BY <3>1, <3>2
  <2> QED BY <1>3, <1>4, <2>1
<1>8. sub'[s].cursor = f + (t + h)
  <2>1. h \in 1 .. h /\ new[h] = events[m + h]
    BY <1>3
  <2> QED BY <1>2, <1>7, <2>1
<1>9. ASSUME NEW i \in 1 .. t + h PROVE i \in 1 .. t \/ \E j \in 1 .. h : i = t + j
  <2>1. CASE i <= t
    BY <2>1
  <2>2. CASE i > t
    <3>1. i - t \in 1 .. h /\ i = t + (i - t)
      BY <2>2
    <3> QED BY <3>1
  <2> QED BY <2>1, <2>2
<1>10. ASSUME NEW i \in 1 .. t + h
       PROVE  handed'[s][i].seq = f + i /\ handed'[s][i].line <= published
  <2>1. CASE i \in 1 .. t
    <3>1. handed[s][i].seq = f + i /\ handed[s][i].line <= published
      BY <1>0, <1>2, <1>5, <2>1 DEF HandedOne
    <3> QED BY <1>4, <2>1, <3>1
  <2>2. CASE \E j \in 1 .. h : i = t + j
    <3>1. PICK j \in 1 .. h : i = t + j
      BY <2>2
    <3>2. events[m + j].line <= published
      BY <1>0, <1>7 DEF StreamInv
    <3> QED BY <1>7, <3>1, <3>2
  <2> QED BY <1>9, <2>1, <2>2
<1>11. ASSUME NEW j \in 1 .. h, t > 0 PROVE handed[s][t].line < events[m + j].line
  <2>1. Redis!Reading(s)
    BY DEF Redis!Reading
  <2>2. events[m + j].seq > sub[s].cursor
    <3>1. events[m + j].seq = f + (t + j) /\ f + (t + j) > f + t
      <4>1. f + (t + j) > f + t
        OBVIOUS
      <4> QED BY <1>7, <4>1
    <3> QED BY <1>5, <3>1
  <2> QED BY <1>0, <1>2, <1>7, <1>11, <2>1, <2>2 DEF HandedOne
<1>12. ASSUME NEW i \in 1 .. t + h, i > 1
       PROVE  handed'[s][i - 1].line < handed'[s][i].line
  <2>1. CASE i \in 1 .. t
    <3>1. i - 1 \in 1 .. t
      BY <1>12, <2>1
    <3>2. handed[s][i - 1].line < handed[s][i].line
      BY <1>0, <1>2, <1>12, <2>1 DEF HandedOne
    <3> QED BY <1>4, <2>1, <3>1, <3>2
  <2>2. CASE i = t + 1
    <3>1. t \in 1 .. t /\ i - 1 = t /\ 1 \in 1 .. h
      BY <1>3, <1>12, <2>2
    <3>2. handed[s][t].line < events[m + 1].line
      BY <1>11, <3>1
    <3> QED BY <1>4, <1>7, <2>2, <3>1, <3>2
  <2>3. CASE i > t + 1
    <3>1. PICK j \in 1 .. h : i = t + j
      BY <1>9, <2>3
    <3>2. j - 1 \in 1 .. h /\ i - 1 = t + (j - 1) /\ m + (j - 1) < m + j
      BY <1>3, <2>3, <3>1
    <3>3. events[m + (j - 1)].line < events[m + j].line
      BY <1>0, <1>7, <3>2 DEF StreamInv
    <3> QED BY <1>7, <3>1, <3>2, <3>3
  <2>4. i \in 1 .. t \/ i = t + 1 \/ i > t + 1
    OBVIOUS
  <2> QED BY <2>1, <2>2, <2>3, <2>4
<1>13. ASSUME NEW i \in 1 .. Len(events), events[i].seq > f + (t + h)
       PROVE  handed'[s][t + h].line < events[i].line
  <2>1. h \in 1 .. h
    BY <1>3
  <2>2. /\ handed'[s][t + h] = events[m + h] /\ m + h \in 1 .. Len(events)
        /\ events[m + h].seq = f + (t + h)
    BY <1>7, <2>1
  <2>3. m + h < i
    <3>1. base + i > base + (m + h)
      BY <1>1, <1>13, <2>2
    <3> QED BY <1>3, <3>1
  <2> QED BY <1>0, <2>2, <2>3 DEF StreamInv
<1>14. /\ sub'[s].cursor = sub'[s].from + Taken(s)'
       /\ \A i \in 1 .. Taken(s)' : handed'[s][i].seq = sub'[s].from + i /\
             handed'[s][i].line <= published'
       /\ \A i \in 1 .. Taken(s)' : i > 1 => handed'[s][i - 1].line < handed'[s][i].line
       /\ \A i \in 1 .. Len(events') : events'[i].seq > sub'[s].cursor =>
              handed'[s][Taken(s)'].line < events'[i].line
  BY <1>4, <1>5, <1>8, <1>10, <1>12, <1>13
<1> QED BY <1>4, <1>14 DEF HandedOne

\* Of nothing, nothing is handed over.
LEMMA NothingIs ==
    ASSUME NEW es \in Seq(Redis!Event)
    PROVE  \A c \in Nat : SubSeq(es, 1, 0) = <<>> /\ Redis!Handover(c, SubSeq(es, 1, 0)) = <<>>
<1>a. SUFFICES ASSUME NEW c \in Nat
      PROVE  SubSeq(es, 1, 0) = <<>> /\ Redis!Handover(c, SubSeq(es, 1, 0)) = <<>>
  OBVIOUS
<1>1. SubSeq(es, 1, 0) = <<>>
  OBVIOUS
<1>4. ASSUME NEW e0 \in Seq(Redis!Event), Len(e0) = 0
      PROVE  Redis!Later(e0, c) \in Seq(Redis!Event) /\ Len(Redis!Later(e0, c)) = 0
  <2>1. 0 \in Nat /\ \A i \in 1 .. Len(e0) : e0[i].seq = 0 + i
    BY <1>4
  <2>2. \E d \in 0 .. Len(e0) : /\ Redis!Later(e0, c) \in Seq(Redis!Event)
                                /\ Len(Redis!Later(e0, c)) = Len(e0) - d
    BY <2>1, LaterIs
  <2>3. PICK d \in 0 .. Len(e0) : /\ Redis!Later(e0, c) \in Seq(Redis!Event)
                                 /\ Len(Redis!Later(e0, c)) = Len(e0) - d
    BY <2>2
  <2>4. d = 0
    BY <1>4
  <2> QED BY <1>4, <2>3, <2>4
<1>5. Redis!Later(<<>>, c) = <<>>
  <2>1. <<>> \in Seq(Redis!Event) /\ Len(<<>>) = 0
    OBVIOUS
  <2>2. Redis!Later(<<>>, c) \in Seq(Redis!Event) /\ Len(Redis!Later(<<>>, c)) = 0
    BY <1>4, <2>1, Zenon
  <2> QED BY <2>2
<1> QED BY <1>1, <1>5 DEF Redis!Handover

LEMMA UnreadIs ==
    ASSUME Redis!StreamAssumption, RedisInv, NEW s \in Redis!Followers
    PROVE  Redis!Unread(s) \in Seq(Redis!Event)
<1>0. /\ StreamInv /\ sub[s].last \in Nat /\ events \in Seq(Redis!Event) /\ Len(events) \in Nat
      /\ seq \in Nat
  BY OneFacts
<1>1. seq - Len(events) \in Nat /\
      \A i \in 1 .. Len(events) : events[i].seq = (seq - Len(events)) + i
  BY <1>0 DEF StreamInv
<1>2. \E d \in 0 .. Len(events) : Redis!Later(events, sub[s].last) \in Seq(Redis!Event)
  BY <1>0, <1>1, LaterIs
<1> QED BY <1>2 DEF Redis!Unread

LEMMA ReadBatchStep ==
    ASSUME Redis!StreamAssumption, RedisInv, NEW s \in Redis!Followers, Redis!ReadBatch(s)
    PROVE  RedisInv'
<1>0. /\ HandedOne(s) /\ EndOne(s) /\ sub[s] \in Redis!Sub /\ handed[s] \in Seq(Redis!Event)
      /\ fails \in Nat /\ Redis!TypeOK /\ handed = [handed EXCEPT ![s] = handed[s]]
      /\ StreamInv /\ sub[s].last \in Nat /\ sub[s].cursor \in Nat
      /\ events \in Seq(Redis!Event) /\ Len(events) \in Nat
  BY OneFacts
<1>1. /\ UNCHANGED <<web, status, seq, events, signal, local, published, fails>>
      /\ sub[s].at = "read"
  BY DEF Redis!ReadBatch, Redis!Works, Redis!hubVars
<1>b. sub[s].last <= sub[s].cursor /\ sub[s].ended = "no"
  BY <1>0, <1>1 DEF HandedOne, EndOne
<1>2. PICK k \in 0 .. Len(Redis!Unread(s)) :
         LET batch == SubSeq(Redis!Unread(s), 1, k)
             c     == sub[s].cursor
             new   == Redis!Handover(c, batch)
         IN  IF Redis!Gap(c, batch)
             THEN Redis!Ends(s, "gap") /\ UNCHANGED handed
             ELSE /\ handed' = [handed EXCEPT ![s] = @ \o new]
                  /\ sub' = [sub EXCEPT
                          ![s].last   = IF k > 0 THEN batch[k].seq ELSE @,
                          ![s].cursor = IF new = <<>> THEN @ ELSE new[Len(new)].seq,
                          ![s].woken  = @ \/ Redis!News(s),
                          ![s].done   = @ \/ Redis!News(s),
                          ![s].at     = Redis!Turn(s)]
  BY DEF Redis!ReadBatch
<1> DEFINE batch == SubSeq(Redis!Unread(s), 1, k)
           c     == sub[s].cursor
           new   == Redis!Handover(c, batch)
<1>3. CASE Redis!Gap(c, batch)
  <2>1. k \in 1 .. Len(Redis!Unread(s))
    <3>1. k # 0
      <4>1. ASSUME k = 0 PROVE FALSE
        <5>1. batch = <<>>
          BY <4>1, UnreadIs, NothingIs
        <5> HIDE DEF batch
        <5>2. Len(batch) = 0
          BY <5>1
        <5> QED BY <1>3, <5>2 DEF Redis!Gap
      <4> QED BY <4>1
    <3> QED BY <3>1, UnreadIs
  <2>2. events # <<>> /\ events[1].seq > sub[s].cursor + 1
    <3>1. Len(events) > 0 /\ events[1].seq > sub[s].cursor + 1
      <4> HIDE DEF new
      <4>1. batch = SubSeq(Redis!Unread(s), 1, k)
        OBVIOUS
      <4> HIDE DEF batch
      <4>2. \E m \in 0 .. Len(events) : IsBatch(s, k, batch, m)
        BY <1>0, <1>b, <2>1, <4>1, BatchIs
      <4> QED BY <1>3, <4>2 DEF IsBatch
    <3> QED BY <1>0, <3>1
  <2>3. /\ sub'[s] = [sub[s] EXCEPT !.at = "over", !.ended = "gap"]
        /\ sub' = [sub EXCEPT ![s] = sub'[s]] /\ handed' = handed
    BY <1>0, <1>2, <1>3 DEF Redis!TypeOK, Redis!Ends
  <2>4. sub'[s] \in Redis!Sub
    BY <1>0, <2>3 DEF Redis!Sub
  <2>5. /\ sub'[s].at = "over" /\ sub'[s].cursor = sub[s].cursor /\ sub'[s].from = sub[s].from
        /\ sub'[s].last = sub[s].last /\ sub'[s].ended = "gap"
    BY <1>0, <2>3 DEF Redis!Sub
  <2>6. HandedOne(s)'
    BY <1>0, <1>1, <2>3, <2>5 DEF HandedOne, Taken, Redis!Reading
  <2>7. EndOne(s)'
    BY <1>1, <2>2, <2>5 DEF EndOne, Redis!Reading
  <2>8. handed' = [handed EXCEPT ![s] = handed'[s]] /\ handed'[s] \in Seq(Redis!Event)
    BY <1>0, <2>3
  <2> QED BY <1>1, <2>3, <2>4, <2>6, <2>7, <2>8, OneFollows
<1>4. CASE ~Redis!Gap(c, batch)
  <2>1. \E m \in 0 .. Len(events) :
            /\ m + Len(new) <= Len(events) /\ new \in Seq(Redis!Event)
            /\ \A i \in 1 .. Len(new) : new[i] = events[m + i]
            /\ k > 0 => batch[k].seq \in Nat
            /\ k > 0 /\ new = <<>> => batch[k].seq <= c
            /\ k > 0 /\ new # <<>> => new[Len(new)].seq = batch[k].seq
            /\ new # <<>> => k > 0 /\ events[m + 1].seq = c + 1
    <3>1. CASE k = 0
      <4>1. new = <<>>
        BY <1>0, <3>1, UnreadIs, NothingIs
      <4> HIDE DEF new, batch
      <4>2. 0 \in 0 .. Len(events) /\ Len(new) = 0 /\ new \in Seq(Redis!Event)
        BY <1>0, <4>1
      <4> QED BY <1>0, <3>1, <4>1, <4>2
    <3>2. CASE k \in 1 .. Len(Redis!Unread(s))
      <4>1. batch = SubSeq(Redis!Unread(s), 1, k)
        OBVIOUS
      <4> HIDE DEF batch
      <4>2. \E m \in 0 .. Len(events) :
                 /\ batch[k].seq \in Nat
                 /\ m + Len(new) <= Len(events) /\ new \in Seq(Redis!Event)
                 /\ \A i \in 1 .. Len(new) : new[i] = events[m + i]
                 /\ new = <<>> => batch[k].seq <= sub[s].cursor
                 /\ new # <<>> => new[Len(new)].seq = batch[k].seq
                 /\ ~Redis!Gap(sub[s].cursor, batch) /\ new # <<>> =>
                       events[m + 1].seq = sub[s].cursor + 1
        <5>1. \E m \in 0 .. Len(events) : IsBatch(s, k, batch, m)
          BY <1>0, <1>b, <3>2, <4>1, BatchIs
        <5>2. new = Redis!Handover(sub[s].cursor, batch)
          OBVIOUS
        <5> HIDE DEF new
        <5> QED BY <5>1, <5>2 DEF IsBatch
      <4>3. k > 0
        BY <3>2
      <4> HIDE DEF new
      <4> QED BY <1>4, <4>2, <4>3
    <3> QED BY <3>1, <3>2, UnreadIs
  <2>2. PICK m \in 0 .. Len(events) :
            /\ m + Len(new) <= Len(events) /\ new \in Seq(Redis!Event)
            /\ \A i \in 1 .. Len(new) : new[i] = events[m + i]
            /\ k > 0 => batch[k].seq \in Nat
            /\ k > 0 /\ new = <<>> => batch[k].seq <= c
            /\ k > 0 /\ new # <<>> => new[Len(new)].seq = batch[k].seq
            /\ new # <<>> => k > 0 /\ events[m + 1].seq = c + 1
    BY <2>1
  <2> DEFINE rec == [sub[s] EXCEPT
                          !.last   = IF k > 0 THEN batch[k].seq ELSE @,
                          !.cursor = IF new = <<>> THEN @ ELSE new[Len(new)].seq,
                          !.woken  = @ \/ Redis!News(s),
                          !.done   = @ \/ Redis!News(s),
                          !.at     = Redis!Turn(s)]
  <2>3. handed' = [handed EXCEPT ![s] = @ \o new] /\ sub' = [sub EXCEPT ![s] = rec]
    BY <1>2, <1>4
  <2> HIDE DEF batch, new
  <2>4. PICK last \in Nat, place \in Nat :
            /\ last = (IF k > 0 THEN batch[k].seq ELSE sub[s].last)
            /\ place = (IF new = <<>> THEN c ELSE new[Len(new)].seq)
            /\ last <= place
    <3>1. CASE new = <<>>
      BY <1>0, <1>b, <2>2, <3>1
    <3>2. CASE new # <<>>
      BY <1>0, <1>b, <2>2, <3>2
    <3> QED BY <3>1, <3>2
  <2>5. rec = [sub[s] EXCEPT !.last = last, !.cursor = place,
                             !.woken = sub[s].woken \/ Redis!News(s),
                             !.done = sub[s].done \/ Redis!News(s), !.at = Redis!Turn(s)]
    BY <1>0, <2>4 DEF Redis!Sub
  <2>6. (sub[s].woken \/ Redis!News(s)) \in BOOLEAN /\ (sub[s].done \/ Redis!News(s)) \in BOOLEAN
    OBVIOUS
  <2>7. Redis!Turn(s) \in {"read", "status"}
    BY DEF Redis!Turn
  <2>8. /\ rec \in Redis!Sub
        /\ rec.at \in {"read", "status"} /\ rec.last = last /\ rec.cursor = place
        /\ rec.from = sub[s].from /\ rec.ended = sub[s].ended
    BY <1>0, <2>5, <2>6, <2>7 DEF Redis!Sub
  <2>9. rec.done => sub[s].done \/ Redis!News(s)
    BY <1>0, <2>5 DEF Redis!Sub
  <2> HIDE DEF rec
  <2>10. /\ sub'[s] = rec /\ sub' = [sub EXCEPT ![s] = sub'[s]]
         /\ handed'[s] = handed[s] \o new /\ handed' = [handed EXCEPT ![s] = handed'[s]]
    BY <1>0, <2>3 DEF Redis!TypeOK
  <2>11. EndOne(s)'
    <3>1. Redis!News(s) => status = "done"
      BY <1>0 DEF Redis!News, StreamInv
    <3>2. status # "none"
      BY <1>0, <1>1 DEF EndOne, Redis!Reading
    <3>3. fails = 0 /\ sub[s].done => status = "done"
      BY <1>0, <1>1 DEF EndOne, Redis!Reading
    <3> QED BY <1>1, <1>b, <2>8, <2>9, <2>10, <3>1, <3>2, <3>3 DEF EndOne, Redis!Reading
  <2>12. HandedOne(s)' /\ handed'[s] \in Seq(Redis!Event)
    <3>1. CASE new = <<>>
      <4>1. handed'[s] = handed[s]
        <5>1. \A S : \A x \in Seq(S) : x \o <<>> = x
          OBVIOUS
        <5> QED BY <1>0, <2>10, <3>1, <5>1
      <4>2. sub'[s].cursor = sub[s].cursor /\ sub'[s].last <= sub'[s].cursor
        BY <2>4, <2>8, <2>10, <3>1
      <4> QED BY <1>0, <1>1, <2>8, <2>10, <4>1, <4>2 DEF HandedOne, Taken, Redis!Reading
    <3>2. CASE new # <<>>
      <4>1. /\ sub'[s].cursor = new[Len(new)].seq /\ sub'[s].last <= sub'[s].cursor
            /\ sub'[s].from = sub[s].from /\ sub'[s].at # "new" /\ sub'[s].at # "local"
        BY <2>4, <2>8, <2>10, <3>2
      <4>2. /\ m + Len(new) <= Len(events) /\ new \in Seq(Redis!Event)
            /\ \A i \in 1 .. Len(new) : new[i] = events[m + i]
            /\ events[m + 1].seq = sub[s].cursor + 1
        BY <2>2, <3>2
      <4> QED BY <1>1, <2>10, <3>2, <4>1, <4>2, TakenIn
    <3> QED BY <3>1, <3>2
  <2>13. sub'[s] \in Redis!Sub
    BY <2>8, <2>10
  <2> QED BY <1>1, <2>10, <2>11, <2>12, <2>13, OneFollows
<1> QED BY <1>3, <1>4

\* The start, and what the invariant says of the clients.
LEMMA RedisStarts ==
    ASSUME Redis!StreamAssumption, Redis!Init
    PROVE  RedisInv
<1>1. /\ sub = [s \in Redis!Followers |-> Redis!Fresh] /\ handed = [s \in Redis!Followers |-> <<>>]
      /\ local = [p \in Redis!Processes |-> [status |-> "none", lines |-> <<>>]]
      /\ status = "none" /\ seq = 0 /\ events = <<>> /\ signal = FALSE
      /\ published = 0 /\ fails = 0 /\ web \in {"worker", "web"}
      /\ MaxPublished \in Nat /\ MaxFails \in Nat /\ MaxLines \in Nat
  BY DEF Redis!Init, Redis!StreamAssumption
<1>2. Redis!TypeOK
  <2>1. 0 \in 0 .. MaxPublished /\ 0 \in 0 .. MaxFails
    BY <1>1
  <2>2. /\ <<>> \in Seq(Redis!Event) /\ <<>> \in Seq(1 .. MaxPublished) /\ Len(events) = 0
        /\ Len(events) <= MaxLines
    BY <1>1
  <2>3. Redis!Fresh \in Redis!Sub
    BY <1>1, <2>1 DEF Redis!Fresh, Redis!Sub
  <2>4. /\ sub \in [Redis!Followers -> Redis!Sub] /\
              handed \in [Redis!Followers -> Seq(Redis!Event)]
    BY <1>1, <2>2, <2>3
  <2>5. local \in [Redis!Processes -> Redis!Hub]
    BY <1>1, <2>2 DEF Redis!Hub
  <2> QED BY <1>1, <2>1, <2>2, <2>4, <2>5 DEF Redis!TypeOK
<1>3. StreamInv
  BY <1>1 DEF StreamInv
<1>4. LocalInv
  BY <1>1 DEF LocalInv
<1>5. HandedInv
  <2>1. ASSUME NEW s \in Redis!Followers PROVE HandedOne(s)
    <3>1. /\ sub[s].at = "new" /\ sub[s].from = 0 /\ sub[s].cursor = 0 /\ sub[s].last = 0
          /\ handed[s] = <<>> /\ Taken(s) = 0
      BY <1>1 DEF Redis!Fresh, Taken
    <3> QED BY <3>1 DEF HandedOne
  <2> QED BY <2>1 DEF HandedInv
<1>6. EndInv
  BY <1>1 DEF EndInv, EndOne, Redis!Fresh, Redis!Reading
<1> QED BY <1>2, <1>3, <1>4, <1>5, <1>6 DEF RedisInv

LEMMA RedisStep ==
    ASSUME Redis!StreamAssumption, RedisInv, Redis!Next
    PROVE  RedisInv'
<1>1. ASSUME NEW p \in {"worker", web}, Redis!Start(p) \/ Redis!MarkDone(p) PROVE RedisInv'
  <2>1. p \in Redis!Processes
    BY SubType DEF RedisInv
  <2> QED BY <1>1, <2>1, StartStep, DoneStep
<1>2. ASSUME NEW s \in Redis!Followers, Redis!SubscriberStep(s) PROVE RedisInv'
  BY <1>2, SubscribeStep, ReadStatusStep, ReadBatchStep, ReadNothingStep, RecheckStep,
     FollowLocalStep DEF Redis!SubscriberStep
<1> QED BY <1>1, <1>2, PublishStep DEF Redis!Next

LEMMA RedisRests ==
    ASSUME RedisInv, UNCHANGED redisVars
    PROVE  RedisInv'
BY DEF RedisInv, redisVars, Redis!TypeOK, StreamInv, LocalInv, HandedInv, HandedOne, EndInv, EndOne,
       Taken, Redis!Reading

LEMMA RedisHolds ==
    ASSUME RedisInv
    PROVE  Redis!TypeOK /\ Redis!HandedInOrder /\ Redis!NoFalseGap /\ Redis!EndsComplete
<1>1. /\ Redis!TypeOK /\ \A s \in Redis!Followers : HandedOne(s) /\ EndOne(s)
  BY DEF RedisInv, HandedInv, EndInv
<1>2. Redis!HandedInOrder
  BY <1>1 DEF HandedOne, Taken, Redis!HandedInOrder
<1>3. Redis!NoFalseGap
  BY <1>1 DEF EndOne, Redis!NoFalseGap
<1>4. Redis!EndsComplete
  BY <1>1 DEF EndOne, Redis!EndsComplete, Redis!Drained, Redis!Complete
<1> QED BY <1>1, <1>2, <1>3, <1>4

-----------------------------------------------------------------------------
(* The provider streams of a generation.                                   *)

Now      == consumer.stream
Over     == consumer.at = "over"
Active   == consumer.at \in {"check", "start", "peek", "take", "after", "given"}
Cleared  == caller["handler"] \in {"clear handles", "clear redis", "done"}
Working  == ~Over /\ ~Cleared
Clearing == {"clear flag", "clear handles", "clear redis"}

\* Who may be in which step, and what the generation may hold there.
PlaceInv ==
    /\ ~Over => caller["generator"] = "idle"
    /\ caller["generator"] \in Clearing \cup {"idle", "done"}
    /\ caller["user"] \notin Clearing \cup {"read"}
    /\ caller["monitor"] \in {"idle", "read", "flag", "event", "close"}
    /\ consumer.at \notin {"between", "over"} => Now > 0
    /\ consumer.at = "after" => consumer.held \in Provider!Kind
    /\ consumer.at = "given" => consumer.held \in {"item", "wakeup"}
    /\ consumer.at \notin {"after", "given"} => consumer.held = "nothing"

\* Nothing is known of a stream before it begins.
AheadInv ==
    /\ hook <= Now /\ \A c \in Provider!Callers : snap[c] <= Now
    /\ \A n \in closed \cup stopped : n <= Now
    /\ Active => Now \notin stopped
    /\ \A n \in Provider!Streams :
          n > Now \/ (n = Now /\ consumer.at \in {"check", "start"}) =>
              producer[n] = "none" /\ queue[n] = <<>> /\ sent[n] = 0

\* Until the handler clears the flags, they account for the event and the wake-up value.
FlagInv == Working =>
    /\ stop => Provider!Cancelled
    /\ \A c \in Provider!Callers : caller[c] \in {"event", "close"} => flag
    /\ consumer.held = "wakeup" => Provider!Cancelled

\* A read is cut only where the resource was closed.
CutInv ==
    /\ \A n \in Provider!Streams :
          /\ producer[n] = "cut" => n \in closed
          /\ \A i \in 1 .. Len(queue[n]) : queue[n][i] = "cut" => n \in closed
    /\ consumer.held = "cut" => Now \in closed

\* The resource of the stream that is read is closed only with the event set.
CloseInv == Working /\ Active =>
    /\ Now \in closed => stop
    /\ \A c \in Provider!Callers : snap[c] = Now => stop

\* A cancellation that returned stands in Redis.
DoneInv == ~Over /\ caller["user"] \in {"durable", "done"} /\ caller["handler"] # "done" => redis

MisledInv == misled => Cleared

\* The end of a stream comes last in its queue.
QueueOne(n) ==
    LET q == queue[n] IN
    /\ producer[n] # "gone" => \A i \in 1 .. Len(q) : q[i] = "item"
    /\ producer[n] = "gone" => /\ \A i \in 1 .. Len(q) - 1 : q[i] = "item"
                               /\ q # <<>> => q[Len(q)] # "item"

QueueInv == Active => QueueOne(Now)

One(b) == IF b THEN 1 ELSE 0

\* The items of a queue.
Waiting(n) == Len(queue[n]) - One(producer[n] = "gone" /\ queue[n] # <<>>)

\* No more is interpreted than was read.
CountOne(n) ==
    interpreted + One(consumer.held = "item") + Waiting(n) + One(producer[n] = "item")
        <= (n - 1) * MaxItems + sent[n]

CountInv == interpreted <= Now * MaxItems /\ (Active => CountOne(Now))

ProviderInv ==
    /\ Provider!TypeOK /\ PlaceInv /\ AheadInv /\ FlagInv /\ CutInv /\ CloseInv /\ DoneInv
    /\ MisledInv /\ QueueInv /\ CountInv

\* The step of a caller, of the monitor or of a clear: the streams stay as they are.
Steps == {"idle", "read", "flag", "event", "close", "redis", "durable",
          "clear flag", "clear handles", "clear redis", "done"}

LEMMA CallerKeeps ==
    ASSUME Provider!CancelAssumption, ProviderInv,
           UNCHANGED <<mode, consumer, producer, queue, sent, stopped, outcome, interpreted,
             misled>>,
           flag' \in BOOLEAN, redis' \in BOOLEAN, stop' \in BOOLEAN, wanted' \in BOOLEAN,
           hook' \in 0 .. MaxStreams, hook' <= Now,
           caller' \in [Provider!Callers -> Steps], snap' \in [Provider!Callers -> 0 .. MaxStreams],
           closed' \subseteq Provider!Streams, closed \subseteq closed',
           \A n \in closed' : n <= Now, \A c \in Provider!Callers : snap'[c] <= Now,
           ~Over => caller'["generator"] = "idle",
           caller'["generator"] \in Clearing \cup {"idle", "done"},
           caller'["user"] \notin Clearing \cup {"read"},
           caller'["monitor"] \in {"idle", "read", "flag", "event", "close"},
           Cleared => Cleared', FlagInv', CloseInv', DoneInv'
    PROVE  ProviderInv'
<1>0. /\ Provider!TypeOK /\ PlaceInv /\ AheadInv /\ CutInv /\ MisledInv /\ QueueInv /\ CountInv
  BY DEF ProviderInv
<1>1. Provider!TypeOK'
  BY <1>0 DEF Provider!TypeOK, Steps
<1>2. PlaceInv'
  BY <1>0 DEF PlaceInv, Now, Over
<1>3. AheadInv'
  BY <1>0 DEF AheadInv, Now, Active
<1>4. CutInv'
  BY <1>0 DEF CutInv, Now
<1>5. MisledInv'
  BY <1>0 DEF MisledInv
<1>6. QueueInv'
  BY <1>0 DEF QueueInv, QueueOne, Now, Active
<1>7. CountInv'
  BY <1>0 DEF CountInv, CountOne, Now, Active, Waiting
<1> QED BY <1>1, <1>2, <1>3, <1>4, <1>5, <1>6, <1>7 DEF ProviderInv

\* What a step of a caller starts from.
LEMMA CallerFacts ==
    ASSUME Provider!CancelAssumption, ProviderInv
    PROVE  /\ Provider!TypeOK /\ PlaceInv /\ FlagInv /\ CloseInv /\ DoneInv
           /\ flag \in BOOLEAN /\ redis \in BOOLEAN /\ stop \in BOOLEAN /\ wanted \in BOOLEAN
           /\ hook \in 0 .. MaxStreams /\ hook <= Now /\ MaxStreams \in Nat /\ Now \in Nat
           /\ caller \in [Provider!Callers -> Steps] /\
                 snap \in [Provider!Callers -> 0 .. MaxStreams]
           /\ closed \subseteq Provider!Streams /\ \A n \in closed : n <= Now
           /\ \A c \in Provider!Callers : snap[c] <= Now
           /\ ~Over => caller["generator"] = "idle"
           /\ caller["generator"] \in Clearing \cup {"idle", "done"}
           /\ caller["user"] \notin Clearing \cup {"read"}
           /\ caller["monitor"] \in {"idle", "read", "flag", "event", "close"}
<1>1. /\ Provider!TypeOK /\ PlaceInv /\ FlagInv /\ CloseInv /\ DoneInv /\ AheadInv
  BY DEF ProviderInv
<1>2. /\ flag \in BOOLEAN /\ redis \in BOOLEAN /\ stop \in BOOLEAN /\ wanted \in BOOLEAN
      /\ hook \in 0 .. MaxStreams /\ closed \subseteq Provider!Streams
      /\ caller \in [Provider!Callers -> Steps] /\ snap \in [Provider!Callers -> 0 .. MaxStreams]
  BY <1>1 DEF Provider!TypeOK, Steps
<1>3. MaxStreams \in Nat /\ Now \in Nat
  <2>1. MaxStreams \in Nat /\ consumer.stream \in 0 .. MaxStreams
    BY <1>1 DEF Provider!TypeOK, Provider!CancelAssumption
  <2> QED BY <2>1 DEF Now
<1>4. /\ hook <= Now /\ \A n \in closed : n <= Now
      /\ \A c \in Provider!Callers : snap[c] <= Now
  BY <1>1 DEF AheadInv
<1> QED BY <1>1, <1>2, <1>3, <1>4 DEF PlaceInv

\* The steps that only lead on.
LEMMA MoveStep ==
    ASSUME Provider!CancelAssumption, ProviderInv,
           \/ Provider!UserCancels \/ Provider!HandlerCancels \/ Provider!MonitorLooks
           \/ Provider!MonitorReads \/ Provider!SetDurable
    PROVE  ProviderInv'
<1>0. /\ FlagInv /\ CloseInv /\ DoneInv
      /\ flag \in BOOLEAN /\ redis \in BOOLEAN /\ stop \in BOOLEAN /\ wanted \in BOOLEAN
      /\ hook \in 0 .. MaxStreams /\ hook <= Now
      /\ caller \in [Provider!Callers -> Steps] /\ snap \in [Provider!Callers -> 0 .. MaxStreams]
      /\ closed \subseteq Provider!Streams /\ \A n \in closed : n <= Now
      /\ \A c \in Provider!Callers : snap[c] <= Now
      /\ ~Over => caller["generator"] = "idle"
      /\ caller["generator"] \in Clearing \cup {"idle", "done"}
      /\ caller["user"] \notin Clearing \cup {"read"}
      /\ caller["monitor"] \in {"idle", "read", "flag", "event", "close"}
  BY CallerFacts
<1>1. /\ UNCHANGED <<flag, redis, stop, hook, snap, closed>>
      /\ UNCHANGED <<mode, consumer, producer, queue, sent, stopped, outcome, interpreted, misled>>
      /\ wanted' \in BOOLEAN
      /\ \/ caller["user"] = "idle" /\ caller' = [caller EXCEPT !["user"] = "flag"]
         \/ caller["user"] = "idle" /\ caller' = [caller EXCEPT !["user"] = "redis"]
         \/ caller["user"] = "durable" /\ caller' = [caller EXCEPT !["user"] = "done"]
         \/ caller["handler"] = "idle" /\ caller' = [caller EXCEPT !["handler"] = "flag"]
         \/ \E x \in {"read", "flag", "idle"} : caller' = [caller EXCEPT !["monitor"] = x]
  BY <1>0 DEF Provider!UserCancels, Provider!HandlerCancels, Provider!MonitorLooks,
     Provider!MonitorReads, Provider!SetDurable, Provider!To, Provider!flagVars, Provider!rest,
     Provider!streamVars, Provider!endVars
<1>2. /\ caller' \in [Provider!Callers -> Steps] /\ caller'["generator"] = caller["generator"]
      /\ \A c \in Provider!Callers : caller'[c] \in {"event", "close"} => caller'[c] = caller[c]
      /\ \/ /\ caller'["user"] = caller["user"]
         \/ caller["user"] = "idle" /\ caller'["user"] \in {"flag", "redis"}
         \/ caller["user"] = "durable" /\ caller'["user"] = "done"
      /\ \/ /\ caller'["handler"] = caller["handler"]
         \/ caller["handler"] = "idle" /\ caller'["handler"] = "flag"
      /\ \/ /\ caller'["monitor"] = caller["monitor"]
         \/ caller'["monitor"] \in {"read", "flag", "idle"}
  <2>1. ASSUME NEW c \in Provider!Callers, NEW x \in Steps, caller' = [caller EXCEPT ![c] = x]
        PROVE  /\ caller' \in [Provider!Callers -> Steps] /\ caller'[c] = x
               /\ \A k \in Provider!Callers : k # c => caller'[k] = caller[k]
    BY <1>0, <2>1
  <2>2. /\ "user" \in Provider!Callers /\ "handler" \in Provider!Callers
        /\ "monitor" \in Provider!Callers /\ "generator" \in Provider!Callers
        /\ {"flag", "redis", "done", "read", "idle"} \subseteq Steps
    BY DEF Provider!Callers, Steps
  <2>3. CASE caller["user"] = "idle" /\ caller' = [caller EXCEPT !["user"] = "flag"]
    BY <2>1, <2>2, <2>3
  <2>4. CASE caller["user"] = "idle" /\ caller' = [caller EXCEPT !["user"] = "redis"]
    BY <2>1, <2>2, <2>4
  <2>5. CASE caller["user"] = "durable" /\ caller' = [caller EXCEPT !["user"] = "done"]
    BY <2>1, <2>2, <2>5
  <2>6. CASE caller["handler"] = "idle" /\ caller' = [caller EXCEPT !["handler"] = "flag"]
    BY <2>1, <2>2, <2>6
  <2>7. CASE \E x \in {"read", "flag", "idle"} : caller' = [caller EXCEPT !["monitor"] = x]
    <3>1. PICK x \in {"read", "flag", "idle"} : caller' = [caller EXCEPT !["monitor"] = x]
      BY <2>7
    <3> QED BY <2>1, <2>2, <3>1
  <2> QED BY <1>1, <2>3, <2>4, <2>5, <2>6, <2>7
<1>3. /\ caller'["user"] \notin Clearing \cup {"read"}
      /\ caller'["monitor"] \in {"idle", "read", "flag", "event", "close"}
      /\ Cleared <=> Cleared'
  BY <1>0, <1>2 DEF Clearing, Cleared
<1>4. FlagInv'
  BY <1>0, <1>1, <1>2, <1>3 DEF FlagInv, Working, Over, Provider!Cancelled
<1>5. CloseInv'
  BY <1>0, <1>1, <1>3 DEF CloseInv, Working, Over, Active, Now
<1>6. DoneInv'
  BY <1>0, <1>1, <1>2 DEF DoneInv, Over
<1> QED BY <1>0, <1>1, <1>2, <1>3, <1>4, <1>5, <1>6, CallerKeeps

LEMMA SetFlagStep ==
    ASSUME Provider!CancelAssumption, ProviderInv, NEW c \in Provider!Callers, Provider!SetFlag(c)
    PROVE  ProviderInv'
<1>0. /\ FlagInv /\ CloseInv /\ DoneInv
      /\ flag \in BOOLEAN /\ redis \in BOOLEAN /\ stop \in BOOLEAN /\ wanted \in BOOLEAN
      /\ hook \in 0 .. MaxStreams /\ hook <= Now
      /\ caller \in [Provider!Callers -> Steps] /\ snap \in [Provider!Callers -> 0 .. MaxStreams]
      /\ closed \subseteq Provider!Streams /\ \A n \in closed : n <= Now
      /\ \A k \in Provider!Callers : snap[k] <= Now
      /\ ~Over => caller["generator"] = "idle"
      /\ caller["generator"] \in Clearing \cup {"idle", "done"}
      /\ caller["user"] \notin Clearing \cup {"read"}
      /\ caller["monitor"] \in {"idle", "read", "flag", "event", "close"}
  BY CallerFacts
<1>1. /\ UNCHANGED <<redis, stop, hook, wanted, snap, closed>> /\ flag' = TRUE
      /\ UNCHANGED <<mode, consumer, producer, queue, sent, stopped, outcome, interpreted, misled>>
      /\ caller[c] = "flag" /\ caller' = [caller EXCEPT ![c] = "event"]
  BY DEF Provider!SetFlag, Provider!To, Provider!rest, Provider!streamVars, Provider!endVars
<1>2. /\ caller' \in [Provider!Callers -> Steps] /\ caller'[c] = "event"
      /\ \A k \in Provider!Callers : k # c => caller'[k] = caller[k]
      /\ c # "generator"
  BY <1>0, <1>1 DEF Steps, Provider!Callers, Clearing
<1>3. /\ caller'["generator"] = caller["generator"]
      /\ caller'["user"] \notin Clearing \cup {"read"}
      /\ caller'["monitor"] \in {"idle", "read", "flag", "event", "close"}
      /\ Cleared <=> Cleared'
  BY <1>0, <1>1, <1>2 DEF Clearing, Cleared, Provider!Callers
<1>4. FlagInv'
  BY <1>1 DEF FlagInv, Provider!Cancelled
<1>5. CloseInv'
  BY <1>0, <1>1, <1>3 DEF CloseInv, Working, Over, Active, Now
<1>6. DoneInv'
  BY <1>0, <1>1, <1>2 DEF DoneInv, Over, Provider!Callers
<1> QED BY <1>0, <1>1, <1>2, <1>3, <1>4, <1>5, <1>6, CallerKeeps

LEMMA SetEventStep ==
    ASSUME Provider!CancelAssumption, ProviderInv, NEW c \in Provider!Callers, Provider!SetEvent(c)
    PROVE  ProviderInv'
<1>0. /\ FlagInv /\ CloseInv /\ DoneInv
      /\ flag \in BOOLEAN /\ redis \in BOOLEAN /\ stop \in BOOLEAN /\ wanted \in BOOLEAN
      /\ hook \in 0 .. MaxStreams /\ hook <= Now
      /\ caller \in [Provider!Callers -> Steps] /\ snap \in [Provider!Callers -> 0 .. MaxStreams]
      /\ closed \subseteq Provider!Streams /\ \A n \in closed : n <= Now
      /\ \A k \in Provider!Callers : snap[k] <= Now
      /\ ~Over => caller["generator"] = "idle"
      /\ caller["generator"] \in Clearing \cup {"idle", "done"}
      /\ caller["user"] \notin Clearing \cup {"read"}
      /\ caller["monitor"] \in {"idle", "read", "flag", "event", "close"}
  BY CallerFacts
<1>1. /\ UNCHANGED <<flag, redis, hook, wanted, closed>> /\ stop' = TRUE
      /\ UNCHANGED <<mode, consumer, producer, queue, sent, stopped, outcome, interpreted, misled>>
      /\ snap' = [snap EXCEPT ![c] = hook]
      /\ caller[c] = "event" /\ caller' = [caller EXCEPT ![c] = "close"]
  BY DEF Provider!SetEvent, Provider!To, Provider!rest, Provider!streamVars, Provider!endVars
<1>2. /\ caller' \in [Provider!Callers -> Steps] /\ caller'[c] = "close"
      /\ \A k \in Provider!Callers : k # c => caller'[k] = caller[k]
      /\ snap' \in [Provider!Callers -> 0 .. MaxStreams]
      /\ \A k \in Provider!Callers : snap'[k] <= Now
      /\ c # "generator"
  BY <1>0, <1>1 DEF Steps, Provider!Callers, Clearing
<1>3. /\ caller'["generator"] = caller["generator"]
      /\ caller'["user"] \notin Clearing \cup {"read"}
      /\ caller'["monitor"] \in {"idle", "read", "flag", "event", "close"}
      /\ Cleared <=> Cleared'
  BY <1>0, <1>1, <1>2 DEF Clearing, Cleared, Provider!Callers
<1>4. FlagInv'
  <2>1. Working' => Working /\ flag
    BY <1>0, <1>1, <1>3 DEF FlagInv, Working, Over
  <2> QED BY <1>0, <1>1, <2>1 DEF FlagInv, Provider!Cancelled
<1>5. CloseInv'
  BY <1>1 DEF CloseInv
<1>6. DoneInv'
  BY <1>0, <1>1, <1>2 DEF DoneInv, Over, Provider!Callers
<1> QED BY <1>0, <1>1, <1>2, <1>3, <1>4, <1>5, <1>6, CallerKeeps

LEMMA CloseStep ==
    ASSUME Provider!CancelAssumption, ProviderInv, NEW c \in Provider!Callers, Provider!Close(c)
    PROVE  ProviderInv'
<1>0. /\ FlagInv /\ CloseInv /\ DoneInv
      /\ flag \in BOOLEAN /\ redis \in BOOLEAN /\ stop \in BOOLEAN /\ wanted \in BOOLEAN
      /\ hook \in 0 .. MaxStreams /\ hook <= Now
      /\ caller \in [Provider!Callers -> Steps] /\ snap \in [Provider!Callers -> 0 .. MaxStreams]
      /\ closed \subseteq Provider!Streams /\ \A n \in closed : n <= Now
      /\ \A k \in Provider!Callers : snap[k] <= Now
      /\ ~Over => caller["generator"] = "idle"
      /\ caller["generator"] \in Clearing \cup {"idle", "done"}
      /\ caller["user"] \notin Clearing \cup {"read"}
      /\ caller["monitor"] \in {"idle", "read", "flag", "event", "close"}
      /\ MaxStreams \in Nat /\ Now \in Nat
  BY CallerFacts
<1>1. /\ UNCHANGED <<flag, redis, stop, hook, wanted>> /\ closed' = closed \cup ({snap[c]} \ {0})
      /\ UNCHANGED <<mode, consumer, producer, queue, sent, stopped, outcome, interpreted, misled>>
      /\ snap' = [snap EXCEPT ![c] = 0] /\ caller[c] = "close"
      /\ caller' = [caller EXCEPT ![c] = IF c = "monitor" THEN "idle" ELSE "redis"]
  BY DEF Provider!Close, Provider!To, Provider!flagVars, Provider!rest, Provider!streamVars,
     Provider!endVars
<1>2. /\ caller' \in [Provider!Callers -> Steps]
      /\ caller'[c] = IF c = "monitor" THEN "idle" ELSE "redis"
      /\ \A k \in Provider!Callers : k # c => caller'[k] = caller[k]
      /\ snap' \in [Provider!Callers -> 0 .. MaxStreams]
      /\ \A k \in Provider!Callers : snap'[k] <= Now /\ (snap'[k] = 0 \/ snap'[k] = snap[k])
      /\ c # "generator"
  <2>1. 0 \in 0 .. MaxStreams /\ 0 <= Now
    BY <1>0
  <2>2. /\ snap' \in [Provider!Callers -> 0 .. MaxStreams] /\ snap'[c] = 0
        /\ \A k \in Provider!Callers : k # c => snap'[k] = snap[k]
    BY <1>0, <1>1, <2>1
  <2>3. /\ caller' \in [Provider!Callers -> Steps]
        /\ caller'[c] = IF c = "monitor" THEN "idle" ELSE "redis"
        /\ \A k \in Provider!Callers : k # c => caller'[k] = caller[k]
    BY <1>0, <1>1 DEF Steps
  <2>4. c # "generator"
    BY <1>0, <1>1 DEF Clearing
  <2>5. \A k \in Provider!Callers : snap'[k] <= Now /\ (snap'[k] = 0 \/ snap'[k] = snap[k])
    BY <1>0, <2>1, <2>2
  <2> QED BY <2>2, <2>3, <2>4, <2>5
<1>3. /\ caller'["generator"] = caller["generator"]
      /\ caller'["user"] \notin Clearing \cup {"read"}
      /\ caller'["monitor"] \in {"idle", "read", "flag", "event", "close"}
      /\ Cleared <=> Cleared'
  BY <1>0, <1>1, <1>2 DEF Clearing, Cleared, Provider!Callers
<1>4. /\ closed' \subseteq Provider!Streams /\ closed \subseteq closed'
      /\ \A n \in closed' : n <= Now
  <2>1. snap[c] \in 0 .. MaxStreams /\ snap[c] <= Now
    BY <1>0
  <2>2. snap[c] # 0 => snap[c] \in Provider!Streams
    BY <1>0, <2>1 DEF Provider!Streams
  <2> QED BY <1>0, <1>1, <2>1, <2>2
<1>5. FlagInv'
  BY <1>0, <1>1, <1>2, <1>3 DEF FlagInv, Working, Over, Provider!Cancelled
<1>6. CloseInv'
  <2>1. Active => Now > 0
    <3>1. PlaceInv
      BY CallerFacts
    <3> QED BY <3>1 DEF PlaceInv, Active
  <2>2. Working' /\ Active' => Working /\ Active
    BY <1>1, <1>3 DEF Working, Over, Active
  <2>3. ASSUME Working', Active', Now' \in closed' PROVE stop'
    <3>1. Now \in closed \/ snap[c] = Now
      BY <1>1, <2>3 DEF Now
    <3> QED BY <1>0, <1>1, <2>2, <2>3, <3>1 DEF CloseInv
  <2>4. ASSUME Working', Active', NEW k \in Provider!Callers, snap'[k] = Now' PROVE stop'
    <3>1. snap[k] = Now
      BY <1>1, <1>2, <2>1, <2>2, <2>4 DEF Now
    <3> QED BY <1>0, <1>1, <2>2, <2>4, <3>1 DEF CloseInv
  <2> QED BY <2>3, <2>4 DEF CloseInv
<1>7. DoneInv'
  BY <1>0, <1>1, <1>2 DEF DoneInv, Over, Provider!Callers
<1> QED BY <1>0, <1>1, <1>2, <1>3, <1>4, <1>5, <1>6, <1>7, CallerKeeps

LEMMA SetRedisStep ==
    ASSUME Provider!CancelAssumption, ProviderInv, NEW c \in Provider!Callers, Provider!SetRedis(c)
    PROVE  ProviderInv'
<1>0. /\ FlagInv /\ CloseInv /\ DoneInv
      /\ flag \in BOOLEAN /\ redis \in BOOLEAN /\ stop \in BOOLEAN /\ wanted \in BOOLEAN
      /\ hook \in 0 .. MaxStreams /\ hook <= Now
      /\ caller \in [Provider!Callers -> Steps] /\ snap \in [Provider!Callers -> 0 .. MaxStreams]
      /\ closed \subseteq Provider!Streams /\ \A n \in closed : n <= Now
      /\ \A k \in Provider!Callers : snap[k] <= Now
      /\ ~Over => caller["generator"] = "idle"
      /\ caller["generator"] \in Clearing \cup {"idle", "done"}
      /\ caller["user"] \notin Clearing \cup {"read"}
      /\ caller["monitor"] \in {"idle", "read", "flag", "event", "close"}
  BY CallerFacts
<1>1. /\ UNCHANGED <<flag, stop, hook, wanted, snap, closed>> /\ redis' = TRUE
      /\ UNCHANGED <<mode, consumer, producer, queue, sent, stopped, outcome, interpreted, misled>>
      /\ caller[c] = "redis"
      /\ \/ c = "handler" /\ caller' = [caller EXCEPT ![c] = "clear flag"]
         \/ c = "user" /\ caller' = [caller EXCEPT ![c] = "durable"]
         \/ c # "handler" /\ caller' = [caller EXCEPT ![c] = "done"]
  BY DEF Provider!SetRedis, Provider!To, Provider!rest, Provider!streamVars, Provider!endVars
<1>2. /\ caller' \in [Provider!Callers -> Steps]
      /\ caller'[c] \in {"clear flag", "durable", "done"}
      /\ c = "handler" => caller'[c] = "clear flag"
      /\ c = "user" => caller'[c] \in {"durable", "done"}
      /\ \A k \in Provider!Callers : k # c => caller'[k] = caller[k]
      /\ c # "generator" /\ c # "monitor"
  <2>1. ASSUME NEW x \in {"clear flag", "durable", "done"}, caller' = [caller EXCEPT ![c] = x]
        PROVE  /\ caller' \in [Provider!Callers -> Steps] /\ caller'[c] = x
               /\ \A k \in Provider!Callers : k # c => caller'[k] = caller[k]
    BY <1>0, <2>1 DEF Steps
  <2>2. c # "generator" /\ c # "monitor"
    BY <1>0, <1>1 DEF Clearing
  <2> QED BY <1>1, <2>1, <2>2
<1>3. /\ caller'["generator"] = caller["generator"]
      /\ caller'["user"] \notin Clearing \cup {"read"}
      /\ caller'["monitor"] \in {"idle", "read", "flag", "event", "close"}
      /\ Cleared <=> Cleared'
  BY <1>0, <1>1, <1>2 DEF Clearing, Cleared, Provider!Callers
<1>4. FlagInv'
  BY <1>0, <1>1, <1>2, <1>3 DEF FlagInv, Working, Over, Provider!Cancelled
<1>5. CloseInv'
  BY <1>0, <1>1, <1>3 DEF CloseInv, Working, Over, Active, Now
<1>6. DoneInv'
  BY <1>1 DEF DoneInv
<1> QED BY <1>0, <1>1, <1>2, <1>3, <1>4, <1>5, <1>6, CallerKeeps

LEMMA ClearStep ==
    ASSUME Provider!CancelAssumption, ProviderInv, NEW c \in Provider!Callers, Provider!Clear(c)
    PROVE  ProviderInv'
<1>0. /\ FlagInv /\ CloseInv /\ DoneInv
      /\ flag \in BOOLEAN /\ redis \in BOOLEAN /\ stop \in BOOLEAN /\ wanted \in BOOLEAN
      /\ hook \in 0 .. MaxStreams /\ hook <= Now
      /\ caller \in [Provider!Callers -> Steps] /\ snap \in [Provider!Callers -> 0 .. MaxStreams]
      /\ closed \subseteq Provider!Streams /\ \A n \in closed : n <= Now
      /\ \A k \in Provider!Callers : snap[k] <= Now
      /\ ~Over => caller["generator"] = "idle"
      /\ caller["generator"] \in Clearing \cup {"idle", "done"}
      /\ caller["user"] \notin Clearing \cup {"read"}
      /\ caller["monitor"] \in {"idle", "read", "flag", "event", "close"}
      /\ MaxStreams \in Nat /\ Now \in Nat
  BY CallerFacts
<1>1. /\ UNCHANGED <<wanted, snap, closed>>
      /\ UNCHANGED <<mode, consumer, producer, queue, sent, stopped, outcome, interpreted, misled>>
      /\ \/ /\ caller[c] = "clear flag" /\ caller' = [caller EXCEPT ![c] = "clear handles"]
            /\ flag' = FALSE /\ UNCHANGED <<redis, stop, hook>>
         \/ /\ caller[c] = "clear handles" /\ caller' = [caller EXCEPT ![c] = "clear redis"]
            /\ stop' = FALSE /\ hook' = 0 /\ UNCHANGED <<flag, redis>>
         \/ /\ caller[c] = "clear redis" /\ caller' = [caller EXCEPT ![c] = "done"]
            /\ redis' = FALSE /\ UNCHANGED <<flag, stop, hook>>
  BY DEF Provider!Clear, Provider!To, Provider!rest, Provider!streamVars, Provider!endVars
<1>2. /\ caller' \in [Provider!Callers -> Steps]
      /\ caller'[c] \in {"clear handles", "clear redis", "done"}
      /\ caller[c] = "clear redis" <=> caller'[c] = "done"
      /\ caller[c] \in Clearing
      /\ \A k \in Provider!Callers : k # c => caller'[k] = caller[k]
  <2>1. ASSUME NEW x \in {"clear handles", "clear redis", "done"},
               caller' = [caller EXCEPT ![c] = x]
        PROVE  /\ caller' \in [Provider!Callers -> Steps] /\ caller'[c] = x
               /\ \A k \in Provider!Callers : k # c => caller'[k] = caller[k]
    BY <1>0, <2>1 DEF Steps
  <2> QED BY <1>1, <2>1 DEF Clearing
<1>3. c = "handler" \/ (c = "generator" /\ Over)
  BY <1>0, <1>2 DEF Provider!Callers, Clearing
<1>4. /\ ~Over => caller'["generator"] = "idle"
      /\ caller'["generator"] \in Clearing \cup {"idle", "done"}
      /\ caller'["user"] = caller["user"] /\ caller'["monitor"] = caller["monitor"]
      /\ c = "handler" => Cleared'
      /\ Cleared => Cleared'
  <2>1. caller'[c] \in Clearing \cup {"done"} /\ "handler" \in Provider!Callers
        /\ "user" \in Provider!Callers /\ "monitor" \in Provider!Callers
        /\ "generator" \in Provider!Callers
    BY <1>2 DEF Clearing, Provider!Callers
  <2>2. CASE c = "handler"
    BY <1>0, <1>2, <2>1, <2>2 DEF Cleared
  <2>3. CASE c = "generator" /\ Over
    BY <1>0, <1>2, <2>1, <2>3 DEF Cleared
  <2> QED BY <1>3, <2>2, <2>3
<1>5. ~Working' /\ (Over <=> Over')
  BY <1>1, <1>3, <1>4 DEF Working, Over
<1>6. FlagInv' /\ CloseInv'
  BY <1>5 DEF FlagInv, CloseInv
<1>7. DoneInv'
  <2>1. CASE c = "handler"
    BY <1>0, <1>1, <1>2, <1>4, <1>5, <2>1 DEF DoneInv, Provider!Callers
  <2>2. CASE Over
    BY <1>5, <2>2 DEF DoneInv
  <2> QED BY <1>3, <2>1, <2>2
<1>8. /\ flag' \in BOOLEAN /\ redis' \in BOOLEAN /\ stop' \in BOOLEAN /\ wanted' \in BOOLEAN
      /\ hook' \in 0 .. MaxStreams /\ hook' <= Now
  <2>1. 0 \in 0 .. MaxStreams /\ 0 <= Now
    BY <1>0
  <2>2. hook' = hook \/ hook' = 0
    BY <1>1
  <2>3. hook' \in 0 .. MaxStreams /\ hook' <= Now
    BY <1>0, <2>1, <2>2
  <2> QED BY <1>0, <1>1, <2>3
<1> QED BY <1>0, <1>1, <1>2, <1>4, <1>6, <1>7, <1>8, CallerKeeps

\* The step of a producer thread: it disturbs its own stream only.
LEMMA ProducerKeeps ==
    ASSUME Provider!CancelAssumption, ProviderInv, NEW n \in Provider!Streams,
           UNCHANGED <<mode, flag, redis, stop, hook, wanted, caller, snap, consumer, stopped,
             closed,
                       outcome, interpreted, misled>>,
           producer' = [producer EXCEPT ![n] = producer'[n]],
           queue' = [queue EXCEPT ![n] = queue'[n]], sent' = [sent EXCEPT ![n] = sent'[n]],
           producer[n] \in Provider!Kind \cup {"next"},
           producer'[n] \in Provider!Kind \cup {"next", "gone"},
           queue'[n] \in Seq(Provider!Kind), Len(queue'[n]) <= QueueMax,
           sent'[n] \in 0 .. MaxItems,
           producer'[n] = "cut" => n \in closed,
           \A i \in 1 .. Len(queue'[n]) : queue'[n][i] = "cut" => n \in closed,
           Active /\ n = Now => QueueOne(n)' /\ CountOne(n)'
    PROVE  ProviderInv'
<1>0. /\ Provider!TypeOK /\ PlaceInv /\ AheadInv /\ FlagInv /\ CutInv /\ CloseInv /\ DoneInv
      /\ MisledInv /\ QueueInv /\ CountInv
  BY DEF ProviderInv
<1>1. /\ producer \in [Provider!Streams -> Provider!Kind \cup {"none", "next", "gone"}]
      /\ queue \in [Provider!Streams -> Seq(Provider!Kind)]
      /\ \A k \in Provider!Streams : Len(queue[k]) <= QueueMax
      /\ sent \in [Provider!Streams -> 0 .. MaxItems]
  BY <1>0 DEF Provider!TypeOK
<1>2. \A k \in Provider!Streams : k # n =>
          producer'[k] = producer[k] /\ queue'[k] = queue[k] /\ sent'[k] = sent[k]
  BY <1>1
<1>3. /\ producer' \in [Provider!Streams -> Provider!Kind \cup {"none", "next", "gone"}]
      /\ queue' \in [Provider!Streams -> Seq(Provider!Kind)]
      /\ sent' \in [Provider!Streams -> 0 .. MaxItems]
  BY <1>1
<1>4. \A k \in Provider!Streams : Len(queue'[k]) <= QueueMax
  BY <1>1, <1>2
<1>5. Provider!TypeOK'
  <2>1. /\ mode' \in {"inline", "remote", "external"}
        /\ flag' \in BOOLEAN /\ redis' \in BOOLEAN /\ stop' \in BOOLEAN /\ wanted' \in BOOLEAN
        /\ hook' \in 0 .. MaxStreams
    BY <1>0 DEF Provider!TypeOK
  <2>2. /\ stopped' \subseteq Provider!Streams /\ closed' \subseteq Provider!Streams
        /\ outcome' \in {"none", "partial", "complete", "failed", "dropped"}
        /\ interpreted' \in 0 .. MaxStreams * MaxItems /\ misled' \in BOOLEAN
    BY <1>0 DEF Provider!TypeOK
  <2> QED BY <1>0, <1>3, <1>4, <2>1, <2>2 DEF Provider!TypeOK
<1>6. PlaceInv' /\ FlagInv' /\ CloseInv' /\ DoneInv' /\ MisledInv'
  BY <1>0 DEF PlaceInv, FlagInv, CloseInv, DoneInv, MisledInv, Over, Now, Active, Working, Cleared,
     Provider!Cancelled
<1>7. AheadInv'
  <2>1. ASSUME NEW k \in Provider!Streams,
               k > Now \/ (k = Now /\ consumer.at \in {"check", "start"})
        PROVE  producer'[k] = "none" /\ queue'[k] = <<>> /\ sent'[k] = 0
    <3>1. producer[k] = "none" /\ queue[k] = <<>> /\ sent[k] = 0
      BY <1>0, <2>1 DEF AheadInv
    <3>2. k # n
      BY <3>1 DEF Provider!Kind
    <3> QED BY <1>2, <3>1, <3>2
  <2> QED BY <1>0, <2>1 DEF AheadInv, Now, Active
<1>8. CutInv'
  BY <1>0, <1>2 DEF CutInv, Now
<1>a. Active => Now \in Provider!Streams
  <2>1. Active => consumer.stream > 0
    BY <1>0 DEF PlaceInv, Active, Now
  <2>2. consumer.stream \in 0 .. MaxStreams /\ MaxStreams \in Nat
    BY <1>0 DEF Provider!TypeOK, Provider!CancelAssumption
  <2> QED BY <2>1, <2>2 DEF Now, Provider!Streams
<1>9. QueueInv'
  BY <1>0, <1>2, <1>a DEF QueueInv, QueueOne, Now, Active
<1>10. CountInv'
  BY <1>0, <1>2, <1>a DEF CountInv, CountOne, Waiting, Now, Active
<1> QED BY <1>5, <1>6, <1>7, <1>8, <1>9, <1>10 DEF ProviderInv

\* What a step of a producer starts from.
LEMMA ProducerFacts ==
    ASSUME Provider!CancelAssumption, ProviderInv, NEW n \in Provider!Streams
    PROVE  /\ producer \in [Provider!Streams -> Provider!Kind \cup {"none", "next", "gone"}]
           /\ queue \in [Provider!Streams -> Seq(Provider!Kind)]
           /\ sent \in [Provider!Streams -> 0 .. MaxItems]
           /\ queue[n] \in Seq(Provider!Kind) /\ Len(queue[n]) \in Nat /\ Len(queue[n]) <= QueueMax
           /\ sent[n] \in 0 .. MaxItems /\ sent[n] \in Nat /\ interpreted \in Nat
           /\ MaxItems \in Nat /\ QueueMax \in Nat /\ n \in Nat /\ (n - 1) * MaxItems \in Nat
           /\ producer[n] = "cut" => n \in closed
           /\ \A i \in 1 .. Len(queue[n]) : queue[n][i] = "cut" => n \in closed
           /\ Active /\ n = Now => QueueOne(n) /\ CountOne(n) /\ n \notin stopped
<1>1. /\ Provider!TypeOK /\ AheadInv /\ CutInv /\ QueueInv /\ CountInv
  BY DEF ProviderInv
<1>2. /\ producer \in [Provider!Streams -> Provider!Kind \cup {"none", "next", "gone"}]
      /\ queue \in [Provider!Streams -> Seq(Provider!Kind)]
      /\ sent \in [Provider!Streams -> 0 .. MaxItems]
      /\ Len(queue[n]) <= QueueMax
  BY <1>1 DEF Provider!TypeOK
<1>3. MaxItems \in Nat /\ QueueMax \in Nat /\ MaxStreams \in Nat
  BY DEF Provider!CancelAssumption
<1>4. n \in Nat /\ n - 1 \in Nat
  BY <1>3 DEF Provider!Streams
<1>5. MaxStreams * MaxItems \in Nat /\ (n - 1) * MaxItems \in Nat
  BY <1>3, <1>4
<1>6. interpreted \in Nat
  <2>1. interpreted \in 0 .. MaxStreams * MaxItems
    BY <1>1 DEF Provider!TypeOK
  <2> QED BY <1>5, <2>1
<1>7. queue[n] \in Seq(Provider!Kind) /\ Len(queue[n]) \in Nat /\ sent[n] \in 0 .. MaxItems
  BY <1>2
<1>8. /\ producer[n] = "cut" => n \in closed
      /\ \A i \in 1 .. Len(queue[n]) : queue[n][i] = "cut" => n \in closed
  BY <1>1 DEF CutInv
<1>9. Active /\ n = Now => QueueOne(n) /\ CountOne(n) /\ n \notin stopped
  BY <1>1 DEF AheadInv, QueueInv, CountInv
<1> QED BY <1>2, <1>3, <1>4, <1>5, <1>6, <1>7, <1>8, <1>9

LEMMA SendStep ==
    ASSUME Provider!CancelAssumption, ProviderInv, NEW n \in Provider!Streams,
           Provider!ProviderSends(n) \/ Provider!ReadIsCut(n)
    PROVE  ProviderInv'
<1>0. /\ producer \in [Provider!Streams -> Provider!Kind \cup {"none", "next", "gone"}]
      /\ queue \in [Provider!Streams -> Seq(Provider!Kind)]
      /\ sent \in [Provider!Streams -> 0 .. MaxItems]
      /\ queue[n] \in Seq(Provider!Kind) /\ Len(queue[n]) \in Nat /\ Len(queue[n]) <= QueueMax
      /\ sent[n] \in 0 .. MaxItems /\ sent[n] \in Nat /\ interpreted \in Nat
      /\ MaxItems \in Nat /\ QueueMax \in Nat /\ n \in Nat /\ (n - 1) * MaxItems \in Nat
      /\ \A i \in 1 .. Len(queue[n]) : queue[n][i] = "cut" => n \in closed
      /\ Active /\ n = Now => QueueOne(n) /\ CountOne(n) /\ n \notin stopped
  BY ProducerFacts
<1>1. /\ UNCHANGED <<mode, flag, redis, stop, hook, wanted, caller, snap, consumer, stopped, closed,
                     outcome, interpreted, misled, queue>>
      /\ producer[n] = "next"
      /\ \/ /\ sent[n] < MaxItems /\ sent' = [sent EXCEPT ![n] = sent[n] + 1]
            /\ producer' = [producer EXCEPT ![n] = "item"]
         \/ /\ sent' = sent
            /\ \E x \in {"error", "done", "cut"} :
                  (x = "cut" => n \in closed) /\ producer' = [producer EXCEPT ![n] = x]
  BY DEF Provider!ProviderSends, Provider!ReadIsCut, Provider!ProducerTo, Provider!others,
     Provider!flagVars, Provider!callVars, Provider!endVars
<1>2. /\ queue'[n] = queue[n] /\ queue' = [queue EXCEPT ![n] = queue'[n]]
      /\ sent' = [sent EXCEPT ![n] = sent'[n]]
      /\ producer' = [producer EXCEPT ![n] = producer'[n]]
      /\ \/ sent[n] < MaxItems /\ sent'[n] = sent[n] + 1 /\ producer'[n] = "item"
         \/ /\ sent'[n] = sent[n] /\ producer'[n] \in {"error", "done", "cut"}
            /\ producer'[n] = "cut" => n \in closed
  BY <1>0, <1>1
<1>3. producer'[n] \in Provider!Kind /\ producer[n] # "gone" /\ producer'[n] # "gone"
  BY <1>1, <1>2 DEF Provider!Kind
<1>4. sent'[n] \in 0 .. MaxItems
  BY <1>0, <1>2
<1>5. ASSUME Active, n = Now PROVE QueueOne(n)' /\ CountOne(n)'
  <2>1. QueueOne(n)'
    BY <1>0, <1>2, <1>3, <1>5 DEF QueueOne
  <2>2. Waiting(n)' = Len(queue[n]) /\ Waiting(n) = Len(queue[n])
    BY <1>0, <1>2, <1>3 DEF Waiting, One
  <2>3. One(consumer.held = "item") \in Nat /\ consumer' = consumer /\ interpreted' = interpreted
    BY <1>1 DEF One
  <2>4. One(producer[n] = "item") = 0
    BY <1>1 DEF One
  <2>5. interpreted + One(consumer.held = "item") + Len(queue[n]) <= (n - 1) * MaxItems + sent[n]
    BY <1>0, <1>5, <2>2, <2>3, <2>4 DEF CountOne
  <2>6. sent'[n] \in Nat /\ One(producer'[n] = "item") + sent[n] <= sent'[n] /\
        One(producer'[n] = "item") \in Nat
    BY <1>0, <1>2 DEF One
  <2>7. interpreted' + One(consumer'.held = "item") + Waiting(n)' + One(producer'[n] = "item")
            <= (n - 1) * MaxItems + sent'[n]
    BY <1>0, <2>2, <2>3, <2>5, <2>6
  <2> QED BY <2>1, <2>7 DEF CountOne
<1> QED BY <1>0, <1>1, <1>2, <1>3, <1>4, <1>5, ProducerKeeps

LEMMA OfferStep ==
    ASSUME Provider!CancelAssumption, ProviderInv, NEW n \in Provider!Streams, Provider!Offer(n)
    PROVE  ProviderInv'
<1>0. /\ producer \in [Provider!Streams -> Provider!Kind \cup {"none", "next", "gone"}]
      /\ queue \in [Provider!Streams -> Seq(Provider!Kind)]
      /\ sent \in [Provider!Streams -> 0 .. MaxItems]
      /\ queue[n] \in Seq(Provider!Kind) /\ Len(queue[n]) \in Nat /\ Len(queue[n]) <= QueueMax
      /\ sent[n] \in 0 .. MaxItems /\ sent[n] \in Nat /\ interpreted \in Nat
      /\ MaxItems \in Nat /\ QueueMax \in Nat /\ n \in Nat /\ (n - 1) * MaxItems \in Nat
      /\ producer[n] = "cut" => n \in closed
      /\ \A i \in 1 .. Len(queue[n]) : queue[n][i] = "cut" => n \in closed
      /\ Active /\ n = Now => QueueOne(n) /\ CountOne(n) /\ n \notin stopped
  BY ProducerFacts
<1>1. /\ UNCHANGED <<mode, flag, redis, stop, hook, wanted, caller, snap, consumer, stopped, closed,
                     outcome, interpreted, misled, sent>>
      /\ producer[n] \in Provider!Kind
      /\ \/ n \in stopped /\ queue' = queue /\ producer' = [producer EXCEPT ![n] = "gone"]
         \/ /\ Len(queue[n]) < QueueMax
            /\ queue' = [queue EXCEPT ![n] = Append(queue[n], producer[n])]
            /\ producer' = [producer EXCEPT ![n] = IF producer[n] = "item" THEN "next" ELSE "gone"]
  BY DEF Provider!Offer, Provider!ProducerTo, Provider!others, Provider!flagVars,
     Provider!callVars, Provider!endVars
<1>2. /\ queue' = [queue EXCEPT ![n] = queue'[n]] /\ sent' = [sent EXCEPT ![n] = sent'[n]]
      /\ producer' = [producer EXCEPT ![n] = producer'[n]] /\ sent'[n] = sent[n]
      /\ \/ n \in stopped /\ queue'[n] = queue[n] /\ producer'[n] = "gone"
         \/ /\ Len(queue[n]) < QueueMax
            /\ queue'[n] = Append(queue[n], producer[n])
            /\ producer'[n] = IF producer[n] = "item" THEN "next" ELSE "gone"
  BY <1>0, <1>1
<1>3. CASE n \in stopped /\ queue'[n] = queue[n] /\ producer'[n] = "gone"
  BY <1>0, <1>1, <1>2, <1>3, ProducerKeeps
<1>4. CASE /\ Len(queue[n]) < QueueMax
           /\ queue'[n] = Append(queue[n], producer[n])
           /\ producer'[n] = IF producer[n] = "item" THEN "next" ELSE "gone"
  <2>1. /\ queue'[n] \in Seq(Provider!Kind) /\ Len(queue'[n]) = Len(queue[n]) + 1
        /\ \A i \in 1 .. Len(queue[n]) : queue'[n][i] = queue[n][i]
        /\ queue'[n][Len(queue[n]) + 1] = producer[n]
    BY <1>0, <1>1, <1>4
  <2>2. ASSUME NEW i \in 1 .. Len(queue'[n])
        PROVE  i \in 1 .. Len(queue[n]) \/ i = Len(queue[n]) + 1
    BY <1>0, <2>1
  <2>3. /\ Len(queue'[n]) <= QueueMax
        /\ \A i \in 1 .. Len(queue'[n]) : queue'[n][i] = "cut" => n \in closed
    BY <1>0, <1>4, <2>1, <2>2
  <2>4. producer'[n] \in {"next", "gone"} /\ producer[n] # "gone"
    BY <1>1, <1>4 DEF Provider!Kind
  <2>5. ASSUME Active, n = Now PROVE QueueOne(n)' /\ CountOne(n)'
    <3>1. \A i \in 1 .. Len(queue[n]) : queue[n][i] = "item"
      BY <1>0, <2>4, <2>5 DEF QueueOne
    <3>2. Waiting(n) = Len(queue[n])
      BY <1>0, <2>4 DEF Waiting, One
    <3>3. /\ One(consumer.held = "item") \in Nat /\ consumer' = consumer
          /\ interpreted' = interpreted
      BY <1>1 DEF One
    <3>4. interpreted + One(consumer.held = "item") + Len(queue[n]) + One(producer[n] = "item")
              <= (n - 1) * MaxItems + sent[n]
      BY <1>0, <2>5, <3>2 DEF CountOne
    <3>5. One(producer'[n] = "item") = 0
      BY <2>4 DEF One
    <3>6. queue'[n] # <<>>
      BY <1>0, <2>1
    <3>7. CASE producer[n] = "item"
      <4>1. producer'[n] = "next"
        BY <1>4, <3>7
      <4>2. QueueOne(n)'
        BY <2>1, <2>2, <3>1, <3>7, <4>1 DEF QueueOne
      <4>3. Waiting(n)' = Len(queue[n]) + 1 /\ One(producer[n] = "item") = 1
        BY <1>0, <2>1, <3>7, <4>1 DEF Waiting, One
      <4>4. interpreted' + One(consumer'.held = "item") + Waiting(n)' + One(producer'[n] = "item")
                <= (n - 1) * MaxItems + sent'[n]
        BY <1>0, <1>2, <3>3, <3>4, <3>5, <4>3
      <4> QED BY <4>2, <4>4 DEF CountOne
    <3>8. CASE producer[n] # "item"
      <4>1. producer'[n] = "gone"
        BY <1>4, <3>8
      <4>2. QueueOne(n)'
        <5>1. Len(queue'[n]) - 1 = Len(queue[n])
          BY <1>0, <2>1
        <5> QED BY <2>1, <3>1, <3>8, <4>1, <5>1 DEF QueueOne
      <4>3. Waiting(n)' = Len(queue[n]) /\ One(producer[n] = "item") = 0
        BY <1>0, <2>1, <3>6, <3>8, <4>1 DEF Waiting, One
      <4>4. interpreted' + One(consumer'.held = "item") + Waiting(n)' + One(producer'[n] = "item")
                <= (n - 1) * MaxItems + sent'[n]
        BY <1>0, <1>2, <3>3, <3>4, <3>5, <4>3
      <4> QED BY <4>2, <4>4 DEF CountOne
    <3> QED BY <3>7, <3>8
  <2> QED BY <1>0, <1>1, <1>2, <2>1, <2>3, <2>4, <2>5, ProducerKeeps
<1> QED BY <1>2, <1>3, <1>4

\* Items are counted stream by stream.
LEMMA Products ==
    \A n, k, m \in Nat : /\ n * m \in Nat
                         /\ n <= k => n * m <= k * m
                         /\ n > 0 => n - 1 \in Nat /\ n * m = (n - 1) * m + m
<1>1. ASSUME NEW n \in Nat, NEW k \in Nat, NEW m \in Nat
      PROVE  /\ n * m \in Nat
             /\ n <= k => n * m <= k * m
             /\ n > 0 => n - 1 \in Nat /\ n * m = (n - 1) * m + m
  <2>1. n * m \in Nat
    OBVIOUS
  <2>2. ASSUME n <= k PROVE n * m <= k * m
    <3>1. PICK d \in Nat : k = n + d
      <4>1. k - n \in Nat /\ k = n + (k - n)
        BY <2>2
      <4> QED BY <4>1
    <3>2. k * m = n * m + d * m /\ d * m \in Nat
      BY <3>1
    <3> QED BY <2>1, <3>2
  <2>3. ASSUME n > 0 PROVE n - 1 \in Nat /\ n * m = (n - 1) * m + m
    BY <2>3
  <2> QED BY <2>1, <2>2, <2>3
<1> QED BY <1>1

\* What a step of the generation starts from.
LEMMA ConsumerFacts ==
    ASSUME Provider!CancelAssumption, ProviderInv
    PROVE  /\ Provider!TypeOK /\ PlaceInv /\ AheadInv /\ FlagInv /\ CutInv /\ CloseInv /\ DoneInv
           /\ MisledInv /\ QueueInv /\ CountInv
           /\ Now = consumer.stream /\ Now \in Nat /\ Now <= MaxStreams /\ MaxStreams \in Nat
           /\ consumer.at \notin {"between", "over"} => Now \in Provider!Streams
           /\ interpreted \in Nat /\ interpreted <= Now * MaxItems /\ Now * MaxItems \in Nat
           /\ Now * MaxItems <= MaxStreams * MaxItems /\ MaxItems \in Nat
           /\ Active => interpreted + One(consumer.held = "item") <= Now * MaxItems
<1>1. /\ Provider!TypeOK /\ PlaceInv /\ AheadInv /\ FlagInv /\ CutInv /\ CloseInv /\ DoneInv
      /\ MisledInv /\ QueueInv /\ CountInv
  BY DEF ProviderInv
<1>2. MaxStreams \in Nat /\ MaxItems \in Nat
  BY DEF Provider!CancelAssumption
<1>3. consumer.stream \in 0 .. MaxStreams
  BY <1>1 DEF Provider!TypeOK
<1>4. Now = consumer.stream /\ Now \in Nat /\ Now <= MaxStreams
  BY <1>2, <1>3 DEF Now
<1>5. consumer.at \notin {"between", "over"} => Now \in Provider!Streams
  <2>1. consumer.at \notin {"between", "over"} => Now > 0
    BY <1>1 DEF PlaceInv
  <2> QED BY <1>2, <1>4, <2>1 DEF Provider!Streams
<1>6. /\ Now * MaxItems \in Nat /\ Now * MaxItems <= MaxStreams * MaxItems
      /\ MaxStreams * MaxItems \in Nat
      /\ Now > 0 => Now * MaxItems = (Now - 1) * MaxItems + MaxItems /\ (Now - 1) * MaxItems \in Nat
  BY <1>2, <1>4, Products
<1>7. interpreted \in Nat /\ interpreted <= Now * MaxItems
  <2>1. interpreted \in 0 .. MaxStreams * MaxItems
    BY <1>1 DEF Provider!TypeOK
  <2> QED BY <1>1, <1>6, <2>1 DEF CountInv
<1>8. ASSUME Active PROVE interpreted + One(consumer.held = "item") <= Now * MaxItems
  <2>1. Now \in Provider!Streams /\ Now > 0
    BY <1>5, <1>8 DEF Active, Provider!Streams
  <2>2. /\ queue[Now] \in Seq(Provider!Kind) /\ Len(queue[Now]) \in Nat /\
              sent[Now] \in 0 .. MaxItems
        /\ (Now - 1) * MaxItems \in Nat
    BY <2>1, ProducerFacts
  <2>3. CountOne(Now)
    BY <1>1, <1>8 DEF CountInv
  <2>4. Waiting(Now) \in Nat
    <3>1. CASE queue[Now] = <<>>
      BY <3>1 DEF Waiting, One
    <3>2. CASE queue[Now] # <<>>
      <4>1. Len(queue[Now]) > 0
        BY <2>2, <3>2
      <4> QED BY <2>2, <4>1 DEF Waiting, One
    <3> QED BY <3>1, <3>2
  <2>5. One(consumer.held = "item") \in Nat /\ One(producer[Now] = "item") \in Nat
    BY DEF One
  <2>6. interpreted + One(consumer.held = "item") <= (Now - 1) * MaxItems + sent[Now]
    BY <1>7, <2>2, <2>3, <2>4, <2>5 DEF CountOne
  <2>7. sent[Now] <= MaxItems /\ sent[Now] \in Nat
    BY <1>2, <2>2
  <2> QED BY <1>2, <1>6, <1>7, <2>1, <2>2, <2>5, <2>6, <2>7
<1> QED BY <1>1, <1>2, <1>4, <1>5, <1>6, <1>7, <1>8

Rec == [at : {"between", "check", "start", "peek", "take", "after", "given", "leave", "over"},
        stream : 0 .. MaxStreams, held : Provider!Kind \cup {"nothing", "wakeup"}]

\* A step that goes from one place of the same stream to another.
LEMMA QuietKeeps ==
    ASSUME Provider!CancelAssumption, ProviderInv, Active,
           UNCHANGED <<mode, flag, redis, stop, hook, wanted, caller, snap, producer, queue, sent,
                       stopped, closed>>,
           consumer' \in Rec, Now' = Now,
             consumer'.at \in {"peek", "take", "after", "given", "leave"},
           consumer'.at = "after" => consumer'.held \in Provider!Kind,
           consumer'.at = "given" => consumer'.held \in {"item", "wakeup"},
           consumer'.at \notin {"after", "given"} => consumer'.held = "nothing",
           consumer'.held = "wakeup" /\ Working => Provider!Cancelled,
           consumer'.held # "cut",
           outcome' \in {"none", "partial", "complete", "failed", "dropped"},
           misled' \in BOOLEAN, misled' => misled \/ Cleared,
           interpreted' \in Nat,
           interpreted' + One(consumer'.held = "item") <= interpreted + One(consumer.held = "item")
    PROVE  ProviderInv'
<1>0. /\ Provider!TypeOK /\ PlaceInv /\ AheadInv /\ FlagInv /\ CutInv /\ CloseInv /\ DoneInv
      /\ MisledInv /\ QueueInv /\ CountInv
      /\ Now = consumer.stream /\ Now \in Nat /\ Now <= MaxStreams /\ MaxStreams \in Nat
      /\ consumer.at \notin {"between", "over"} => Now \in Provider!Streams
      /\ interpreted \in Nat /\ interpreted <= Now * MaxItems /\ Now * MaxItems \in Nat
      /\ Now * MaxItems <= MaxStreams * MaxItems /\ MaxItems \in Nat
      /\ interpreted + One(consumer.held = "item") <= Now * MaxItems
  BY ConsumerFacts
<1>1. /\ One(consumer.held = "item") \in Nat /\ One(consumer'.held = "item") \in Nat
      /\ interpreted' <= Now * MaxItems
  <2>1. One(consumer.held = "item") \in Nat /\ One(consumer'.held = "item") \in Nat
    BY DEF One
  <2> QED BY <1>0, <2>1
<1>2. Provider!TypeOK'
  <2>1. interpreted' \in 0 .. MaxStreams * MaxItems
    <3>1. MaxStreams * MaxItems \in Nat
      BY <1>0
    <3> QED BY <1>0, <1>1, <3>1
  <2>2. /\ mode' \in {"inline", "remote", "external"}
        /\ flag' \in BOOLEAN /\ redis' \in BOOLEAN /\ stop' \in BOOLEAN /\ wanted' \in BOOLEAN
        /\ hook' \in 0 .. MaxStreams
        /\ caller' \in [Provider!Callers -> Steps] /\
              snap' \in [Provider!Callers -> 0 .. MaxStreams]
    BY <1>0 DEF Provider!TypeOK, Steps
  <2>3. /\ producer' \in [Provider!Streams -> Provider!Kind \cup {"none", "next", "gone"}]
        /\ queue' \in [Provider!Streams -> Seq(Provider!Kind)]
        /\ \A n \in Provider!Streams : Len(queue'[n]) <= QueueMax
        /\ sent' \in [Provider!Streams -> 0 .. MaxItems]
        /\ stopped' \subseteq Provider!Streams /\ closed' \subseteq Provider!Streams
    BY <1>0 DEF Provider!TypeOK
  <2> QED BY <2>1, <2>2, <2>3 DEF Provider!TypeOK, Rec, Steps
<1>3. ~Over /\ ~Over' /\ Now > 0 /\ (Working' <=> Working)
  <2>1. ~Over /\ Now > 0
    BY <1>0 DEF PlaceInv, Over, Active
  <2>2. ~Over'
    BY DEF Over
  <2> QED BY <2>1, <2>2 DEF Working, Cleared
<1>4. PlaceInv'
  BY <1>0, <1>3 DEF PlaceInv, Over
<1>5. AheadInv'
  BY <1>0 DEF AheadInv, Active
<1>6. FlagInv'
  BY <1>0, <1>3 DEF FlagInv, Provider!Cancelled
<1>7. CutInv'
  BY <1>0 DEF CutInv
<1>8. CloseInv'
  BY <1>0, <1>3 DEF CloseInv
<1>9. DoneInv'
  BY <1>0, <1>3 DEF DoneInv
<1>10. MisledInv'
  BY <1>0 DEF MisledInv, Cleared
<1>11. QueueInv'
  BY <1>0 DEF QueueInv, QueueOne
<1>12. CountInv'
  <2>1. CountOne(Now)
    BY <1>0 DEF CountInv
  <2>2. Waiting(Now)' = Waiting(Now)
    BY DEF Waiting
  <2>3. /\ Waiting(Now) \in Int /\ (Now - 1) * MaxItems + sent[Now] \in Int
        /\ One(producer[Now] = "item") \in Int
    <3>1. Now \in Provider!Streams
      BY <1>0 DEF Active
    <3>2. Len(queue[Now]) \in Nat /\ (Now - 1) * MaxItems \in Nat /\ sent[Now] \in Nat
      BY <3>1, ProducerFacts
    <3> QED BY <3>2 DEF Waiting, One
  <2>4. interpreted' + One(consumer'.held = "item") + Waiting(Now) + One(producer[Now] = "item")
            <= (Now - 1) * MaxItems + sent[Now]
    BY <1>0, <1>1, <2>1, <2>3 DEF CountOne
  <2>5. CountOne(Now)'
    BY <2>2, <2>4 DEF CountOne
  <2> QED BY <1>1, <2>5 DEF CountInv
<1> QED BY <1>2, <1>4, <1>5, <1>6, <1>7, <1>8, <1>9, <1>10, <1>11, <1>12 DEF ProviderInv

\* Where the generation goes, and what it holds there.
LEMMA Goes ==
    ASSUME Provider!TypeOK
    PROVE  /\ consumer \in Rec
           /\ \A a \in {"start", "peek", "take", "leave", "between", "over"} : Provider!At(a) =>
                 /\ consumer' \in Rec /\ consumer'.at = a /\ consumer'.held = "nothing"
                 /\ consumer'.stream = consumer.stream
           /\ \A h \in {"wakeup", "item"} : Provider!Hands(h) =>
                 /\ consumer' \in Rec /\ consumer'.at = "given" /\ consumer'.held = h
                 /\ consumer'.stream = consumer.stream
<1>1. consumer \in Rec
  BY DEF Provider!TypeOK, Rec
<1>2. ASSUME NEW a \in {"start", "peek", "take", "leave", "between", "over"}, Provider!At(a)
      PROVE  /\ consumer' \in Rec /\ consumer'.at = a /\ consumer'.held = "nothing"
             /\ consumer'.stream = consumer.stream
  <2>1. consumer' = [consumer EXCEPT !.at = a, !.held = "nothing"]
    BY <1>2 DEF Provider!At
  <2> QED BY <1>1, <2>1 DEF Rec
<1>3. ASSUME NEW h \in {"wakeup", "item"}, Provider!Hands(h)
      PROVE  /\ consumer' \in Rec /\ consumer'.at = "given" /\ consumer'.held = h
             /\ consumer'.stream = consumer.stream
  <2>1. consumer' = [consumer EXCEPT !.at = "given", !.held = h]
    BY <1>3 DEF Provider!Hands
  <2>2. h \in Provider!Kind \cup {"nothing", "wakeup"}
    BY DEF Provider!Kind
  <2> QED BY <1>1, <2>1, <2>2 DEF Rec
<1> QED BY <1>1, <1>2, <1>3

LEMMA PeekStep ==
    ASSUME Provider!CancelAssumption, ProviderInv, Provider!Peek
    PROVE  ProviderInv'
<1>0. /\ Provider!TypeOK /\ FlagInv /\ interpreted \in Nat
  BY ConsumerFacts
<1>1. /\ UNCHANGED <<mode, flag, redis, stop, hook, wanted, caller, snap, producer, queue, sent,
                     stopped, closed, outcome, interpreted, misled>>
      /\ consumer.at = "peek"
      /\ (stop /\ Provider!Hands("wakeup")) \/ Provider!At("take")
  BY DEF Provider!Peek, Provider!calm, Provider!streamVars, Provider!endVars
<1>2. /\ consumer' \in Rec /\ consumer'.stream = consumer.stream
      /\ \/ stop /\ consumer'.at = "given" /\ consumer'.held = "wakeup"
         \/ consumer'.at = "take" /\ consumer'.held = "nothing"
  BY <1>0, <1>1, Goes
<1>3. Active /\ Now' = Now
  BY <1>1, <1>2 DEF Active, Now
<1>4. consumer'.held = "wakeup" /\ Working => Provider!Cancelled
  BY <1>0, <1>2 DEF FlagInv
<1>5. interpreted' + One(consumer'.held = "item") <= interpreted + One(consumer.held = "item")
  BY <1>0, <1>1, <1>2 DEF One
<1>6. /\ outcome' \in {"none", "partial", "complete", "failed", "dropped"} /\ misled' \in BOOLEAN
      /\ misled' => misled
  BY <1>0, <1>1 DEF Provider!TypeOK
<1> QED BY <1>0, <1>1, <1>2, <1>3, <1>4, <1>5, <1>6, QuietKeeps

LEMMA WakeStep ==
    ASSUME Provider!CancelAssumption, ProviderInv, Provider!StartProducer, Provider!Cancelled
    PROVE  ProviderInv'
<1>0. /\ Provider!TypeOK /\ FlagInv /\ interpreted \in Nat
  BY ConsumerFacts
<1>1. /\ UNCHANGED <<mode, flag, redis, stop, hook, wanted, caller, snap, producer, queue, sent,
                     stopped, closed, outcome, interpreted, misled>>
      /\ consumer.at = "start" /\ Provider!Hands("wakeup")
  BY DEF Provider!StartProducer, Provider!calm, Provider!endVars
<1>2. /\ consumer' \in Rec /\ consumer'.stream = consumer.stream
      /\ consumer'.at = "given" /\ consumer'.held = "wakeup"
  BY <1>0, <1>1, Goes
<1>3. Active /\ Now' = Now
  BY <1>1, <1>2 DEF Active, Now
<1>5. interpreted' + One(consumer'.held = "item") <= interpreted + One(consumer.held = "item")
  BY <1>0, <1>1, <1>2 DEF One
<1>6. /\ outcome' \in {"none", "partial", "complete", "failed", "dropped"} /\ misled' \in BOOLEAN
      /\ misled' => misled
  BY <1>0, <1>1 DEF Provider!TypeOK
<1> QED BY <1>0, <1>1, <1>2, <1>3, <1>5, <1>6, QuietKeeps

LEMMA AfterStep ==
    ASSUME Provider!CancelAssumption, ProviderInv, Provider!After
    PROVE  ProviderInv'
<1>0. /\ Provider!TypeOK /\ FlagInv /\ CutInv /\ CloseInv /\ interpreted \in Nat
  BY ConsumerFacts
<1>1. /\ UNCHANGED <<mode, flag, redis, stop, hook, wanted, caller, snap, producer, queue, sent,
                     stopped, closed, interpreted>>
      /\ consumer.at = "after"
      /\ \/ /\ stop \/ Provider!Cancelled
            /\ Provider!Hands("wakeup") /\ UNCHANGED <<outcome, misled>>
         \/ consumer.held = "item" /\ Provider!Hands("item") /\ UNCHANGED <<outcome, misled>>
         \/ /\ ~stop /\ Provider!At("leave") /\ outcome' \in {outcome, "failed"}
            /\ misled' = (misled \/ consumer.held = "cut")
  BY DEF Provider!After, Provider!Ends, Provider!calm, Provider!streamVars, Provider!endVars
<1>2. /\ consumer' \in Rec /\ consumer'.stream = consumer.stream
      /\ \/ /\ stop \/ Provider!Cancelled
            /\ consumer'.at = "given" /\ consumer'.held = "wakeup"
         \/ consumer.held = "item" /\ consumer'.at = "given" /\ consumer'.held = "item"
         \/ consumer'.at = "leave" /\ consumer'.held = "nothing"
  BY <1>0, <1>1, Goes
<1>3. Active /\ Now' = Now /\ ~Over
  BY <1>1, <1>2 DEF Active, Now, Over
<1>4. consumer'.held = "wakeup" /\ Working => Provider!Cancelled
  BY <1>0, <1>2 DEF FlagInv
<1>5. interpreted' + One(consumer'.held = "item") <= interpreted + One(consumer.held = "item")
  BY <1>0, <1>1, <1>2 DEF One
<1>6. outcome' \in {"none", "partial", "complete", "failed", "dropped"}
  BY <1>0, <1>1 DEF Provider!TypeOK
<1>7. misled \in BOOLEAN
  BY <1>0 DEF Provider!TypeOK
<1>8. misled' \in BOOLEAN
  BY <1>1, <1>7
<1>9. misled' => misled \/ Cleared
  <2>1. CASE misled' = misled
    BY <2>1
  <2>2. CASE ~stop /\ misled' = (misled \/ consumer.held = "cut")
    <3>1. ASSUME consumer.held = "cut" PROVE Cleared
      <4>1. Now \in closed
        BY <1>0, <3>1 DEF CutInv
      <4>2. ~Working
        BY <1>0, <1>3, <2>2, <4>1 DEF CloseInv
      <4> QED BY <1>3, <4>2 DEF Working
    <3> QED BY <2>2, <3>1
  <2> QED BY <1>1, <2>1, <2>2
<1> QED BY <1>0, <1>1, <1>2, <1>3, <1>4, <1>5, <1>6, <1>8, <1>9, QuietKeeps

LEMMA InterpretStep ==
    ASSUME Provider!CancelAssumption, ProviderInv, Provider!Interpret
    PROVE  ProviderInv'
<1>0. /\ Provider!TypeOK /\ FlagInv /\ PlaceInv /\ interpreted \in Nat
  BY ConsumerFacts
<1>1. /\ UNCHANGED <<mode, flag, redis, stop, hook, wanted, caller, snap, producer, queue, sent,
                     stopped, closed>>
      /\ consumer.at = "given" /\ \E a \in {"peek", "leave"} : Provider!At(a)
      /\ outcome' \in {outcome, "partial", "failed", "dropped"}
      /\ \/ misled' = misled
         \/ ~Provider!Cancelled /\ consumer.held = "wakeup" /\ misled' = TRUE
      /\ \/ interpreted' = interpreted
         \/ consumer.held # "wakeup" /\ interpreted' = interpreted + 1
  BY DEF Provider!Interpret, Provider!Ends, Provider!calm, Provider!streamVars
<1>2. /\ consumer' \in Rec /\ consumer'.stream = consumer.stream
      /\ consumer'.at \in {"peek", "leave"} /\ consumer'.held = "nothing"
  BY <1>0, <1>1, Goes
<1>3. Active /\ Now' = Now /\ ~Over
  BY <1>1, <1>2 DEF Active, Now, Over
<1>4. interpreted' \in Nat
  BY <1>0, <1>1
<1>5. interpreted' + One(consumer'.held = "item") <= interpreted + One(consumer.held = "item")
  <2>1. consumer.held \in {"item", "wakeup"}
    BY <1>0, <1>1 DEF PlaceInv
  <2> QED BY <1>0, <1>1, <1>2, <2>1 DEF One
<1>6. outcome' \in {"none", "partial", "complete", "failed", "dropped"}
  BY <1>0, <1>1 DEF Provider!TypeOK
<1>7. misled' \in BOOLEAN
  BY <1>0, <1>1 DEF Provider!TypeOK
<1>8. misled' => misled \/ Cleared
  <2>1. ASSUME ~Provider!Cancelled, consumer.held = "wakeup" PROVE Cleared
    BY <1>0, <1>3, <2>1 DEF FlagInv, Working
  <2> QED BY <1>1, <2>1
<1> QED BY <1>0, <1>1, <1>2, <1>3, <1>4, <1>5, <1>6, <1>7, <1>8, QuietKeeps

LEMMA BeginStep ==
    ASSUME Provider!CancelAssumption, ProviderInv, Provider!Begin
    PROVE  ProviderInv'
<1>0. /\ Provider!TypeOK /\ PlaceInv /\ AheadInv /\ FlagInv /\ CutInv /\ CloseInv /\ DoneInv
      /\ MisledInv /\ QueueInv /\ CountInv
      /\ Now = consumer.stream /\ Now \in Nat /\ Now <= MaxStreams /\ MaxStreams \in Nat
      /\ interpreted \in Nat /\ interpreted <= Now * MaxItems /\ MaxItems \in Nat
  BY ConsumerFacts
<1>1. /\ UNCHANGED <<mode, caller, snap, flag, redis, wanted, stop, producer, queue, sent,
                     stopped, closed, outcome, interpreted, misled>>
      /\ consumer.at = "between" /\ Now < MaxStreams /\ hook' = Now + 1
      /\ consumer' = [consumer EXCEPT !.at = "check", !.stream = Now + 1]
  BY DEF Provider!Begin, Provider!calm, Provider!streamVars, Provider!endVars, Provider!n0, Now
<1>2. /\ consumer' \in Rec /\ consumer'.at = "check" /\ consumer'.stream = Now + 1
      /\ consumer'.held = consumer.held
  <2>1. consumer \in Rec /\ Now + 1 \in 0 .. MaxStreams
    BY <1>0, <1>1, Goes
  <2> QED BY <1>1, <2>1 DEF Rec
<1>3. /\ Now' = Now + 1 /\ Active' /\ consumer.held = "nothing" /\ consumer'.held = "nothing"
      /\ ~Over /\ ~Over' /\ (Working' <=> Working) /\ Now' \in Provider!Streams
  <2>1. Now' = Now + 1 /\ Active' /\ ~Over /\ ~Over'
    BY <1>1, <1>2 DEF Now, Active, Over
  <2>2. consumer.held = "nothing"
    BY <1>0, <1>1 DEF PlaceInv
  <2>3. Now + 1 \in Provider!Streams
    BY <1>0, <1>1 DEF Provider!Streams
  <2> QED BY <1>1, <1>2, <2>1, <2>2, <2>3 DEF Working, Cleared
<1>4. Provider!TypeOK'
  <2>1. hook' \in 0 .. MaxStreams
    BY <1>0, <1>1
  <2>2. /\ mode' \in {"inline", "remote", "external"}
        /\ flag' \in BOOLEAN /\ redis' \in BOOLEAN /\ stop' \in BOOLEAN /\ wanted' \in BOOLEAN
        /\ caller' \in [Provider!Callers -> Steps] /\
              snap' \in [Provider!Callers -> 0 .. MaxStreams]
        /\ producer' \in [Provider!Streams -> Provider!Kind \cup {"none", "next", "gone"}]
        /\ queue' \in [Provider!Streams -> Seq(Provider!Kind)]
        /\ \A n \in Provider!Streams : Len(queue'[n]) <= QueueMax
        /\ sent' \in [Provider!Streams -> 0 .. MaxItems]
        /\ stopped' \subseteq Provider!Streams /\ closed' \subseteq Provider!Streams
        /\ outcome' \in {"none", "partial", "complete", "failed", "dropped"}
        /\ interpreted' \in 0 .. MaxStreams * MaxItems /\ misled' \in BOOLEAN
    BY <1>0, <1>1 DEF Provider!TypeOK, Steps
  <2> QED BY <1>2, <2>1, <2>2 DEF Provider!TypeOK, Rec, Steps
<1>5. PlaceInv'
  <2>1. Now + 1 > 0
    BY <1>0
  <2> QED BY <1>0, <1>1, <1>2, <1>3, <2>1 DEF PlaceInv
<1>6. /\ \A c \in Provider!Callers : snap[c] <= Now /\ snap[c] \in Nat
      /\ \A n \in closed \cup stopped : n <= Now /\ n \in Nat
  <2>1. /\ \A c \in Provider!Callers : snap[c] <= Now
        /\ \A n \in closed \cup stopped : n <= Now
    BY <1>0 DEF AheadInv
  <2>2. /\ snap \in [Provider!Callers -> 0 .. MaxStreams]
        /\ closed \subseteq 1 .. MaxStreams /\ stopped \subseteq 1 .. MaxStreams
    BY <1>0 DEF Provider!TypeOK, Provider!Streams
  <2>3. \A c \in Provider!Callers : snap[c] \in 0 .. MaxStreams
    BY <2>2
  <2>4. \A k \in 0 .. MaxStreams : k \in Nat
    BY <1>0
  <2>5. \A k \in 1 .. MaxStreams : k \in Nat
    BY <1>0
  <2>6. \A n \in closed \cup stopped : n \in Nat
    BY <2>2, <2>5
  <2> QED BY <2>1, <2>3, <2>4, <2>6
<1>7. AheadInv'
  <2>1. /\ hook' <= Now' /\ \A c \in Provider!Callers : snap'[c] <= Now'
        /\ \A n \in closed' \cup stopped' : n <= Now' /\ n # Now'
    BY <1>0, <1>1, <1>3, <1>6
  <2>2. ASSUME NEW n \in Provider!Streams, n > Now' \/ n = Now'
        PROVE  producer[n] = "none" /\ queue[n] = <<>> /\ sent[n] = 0
    <3>1. n > Now
      BY <1>0, <1>3, <2>2 DEF Provider!Streams
    <3> QED BY <1>0, <3>1 DEF AheadInv
  <2> QED BY <1>1, <2>1, <2>2 DEF AheadInv
<1>8. FlagInv'
  BY <1>0, <1>1, <1>3 DEF FlagInv, Provider!Cancelled
<1>9. CutInv'
  BY <1>0, <1>1, <1>3 DEF CutInv
<1>10. CloseInv'
  <2>1. Now' \notin closed' /\ \A c \in Provider!Callers : snap'[c] # Now'
    BY <1>0, <1>1, <1>3, <1>6
  <2> QED BY <2>1 DEF CloseInv
<1>11. DoneInv' /\ MisledInv'
  BY <1>0, <1>1, <1>3 DEF DoneInv, MisledInv, Cleared
<1>12. producer'[Now'] = "none" /\ queue'[Now'] = <<>> /\ sent'[Now'] = 0
  <2>1. Now + 1 > Now
    BY <1>0
  <2> QED BY <1>0, <1>1, <1>3, <2>1 DEF AheadInv
<1>13. QueueInv'
  <2>1. \A i \in 1 .. Len(<<>>) : <<>>[i] = "item"
    OBVIOUS
  <2>2. QueueOne(Now)'
    BY <1>12, <2>1 DEF QueueOne
  <2> QED BY <2>2 DEF QueueInv
<1>14. CountInv'
  <2>1. Now' * MaxItems = (Now' - 1) * MaxItems + MaxItems /\ Now' - 1 = Now
    <3>1. Now + 1 \in Nat /\ Now + 1 > 0 /\ (Now + 1) - 1 = Now
      BY <1>0
    <3>2. (Now + 1) * MaxItems = ((Now + 1) - 1) * MaxItems + MaxItems
      BY <1>0, <3>1, Products
    <3> QED BY <1>3, <3>1, <3>2
  <2>2. Now * MaxItems \in Nat
    BY <1>0, Products
  <2>3. interpreted' <= Now' * MaxItems
    BY <1>0, <1>1, <2>1, <2>2
  <2>4. /\ Waiting(Now)' = 0 /\ One(consumer'.held = "item") = 0 /\
              One(producer'[Now'] = "item") = 0
    BY <1>3, <1>12 DEF Waiting, One
  <2>5. interpreted + 0 + 0 + 0 <= (Now' - 1) * MaxItems + 0
    BY <1>0, <2>1, <2>2
  <2>6. CountOne(Now)'
    BY <1>1, <1>12, <2>4, <2>5 DEF CountOne
  <2> QED BY <2>3, <2>6 DEF CountInv
<1> QED BY <1>4, <1>5, <1>7, <1>8, <1>9, <1>10, <1>11, <1>13, <1>14 DEF ProviderInv

LEMMA CheckStep ==
    ASSUME Provider!CancelAssumption, ProviderInv, Provider!Check
    PROVE  ProviderInv'
<1>0. /\ Provider!TypeOK /\ PlaceInv /\ AheadInv /\ FlagInv /\ CutInv /\ CloseInv /\ DoneInv
      /\ MisledInv /\ QueueInv /\ CountInv
      /\ Now = consumer.stream /\ Now \in Nat /\ Now <= MaxStreams /\ MaxStreams \in Nat
      /\ consumer.at \notin {"between", "over"} => Now \in Provider!Streams
  BY ConsumerFacts
<1>1. /\ UNCHANGED <<mode, caller, snap, flag, redis, wanted, hook, producer, queue, sent,
                     stopped, outcome, interpreted, misled>>
      /\ consumer.at = "check" /\ Provider!At("start")
      /\ \/ Provider!Cancelled /\ stop' = TRUE /\ closed' = closed \cup {Now}
         \/ UNCHANGED <<stop, closed>>
  BY DEF Provider!Check, Provider!calm, Provider!streamVars, Provider!endVars, Provider!n0, Now
<1>2. /\ consumer' \in Rec /\ consumer'.at = "start" /\ consumer'.stream = consumer.stream
      /\ consumer'.held = "nothing"
  BY <1>0, <1>1, Goes
<1>3. /\ Now' = Now /\ Active /\ Active' /\ consumer.held = "nothing"
      /\ ~Over /\ ~Over' /\ (Working' <=> Working) /\ Now \in Provider!Streams
  <2>1. Now' = Now /\ Active /\ Active' /\ ~Over /\ ~Over'
    BY <1>1, <1>2 DEF Now, Active, Over
  <2>2. consumer.held = "nothing" /\ Now \in Provider!Streams
    BY <1>0, <1>1 DEF PlaceInv
  <2> QED BY <1>1, <2>1, <2>2 DEF Working, Cleared
<1>4. stop' \in BOOLEAN /\ closed' \subseteq Provider!Streams
  BY <1>0, <1>1, <1>3 DEF Provider!TypeOK
<1>5. Provider!TypeOK'
  <2>1. /\ mode' \in {"inline", "remote", "external"}
        /\ flag' \in BOOLEAN /\ redis' \in BOOLEAN /\ wanted' \in BOOLEAN
        /\ hook' \in 0 .. MaxStreams
        /\ caller' \in [Provider!Callers -> Steps] /\
              snap' \in [Provider!Callers -> 0 .. MaxStreams]
        /\ producer' \in [Provider!Streams -> Provider!Kind \cup {"none", "next", "gone"}]
        /\ queue' \in [Provider!Streams -> Seq(Provider!Kind)]
        /\ \A n \in Provider!Streams : Len(queue'[n]) <= QueueMax
        /\ sent' \in [Provider!Streams -> 0 .. MaxItems]
        /\ stopped' \subseteq Provider!Streams
        /\ outcome' \in {"none", "partial", "complete", "failed", "dropped"}
        /\ interpreted' \in 0 .. MaxStreams * MaxItems /\ misled' \in BOOLEAN
    BY <1>0, <1>1 DEF Provider!TypeOK, Steps
  <2> QED BY <1>2, <1>4, <2>1 DEF Provider!TypeOK, Rec, Steps
<1>6. PlaceInv'
  BY <1>0, <1>1, <1>2, <1>3 DEF PlaceInv
<1>7. AheadInv'
  BY <1>0, <1>1, <1>2, <1>3 DEF AheadInv
<1>8. FlagInv'
  BY <1>0, <1>1, <1>2, <1>3 DEF FlagInv, Provider!Cancelled
<1>9. CutInv'
  BY <1>0, <1>1, <1>2, <1>3 DEF CutInv
<1>10. CloseInv'
  BY <1>0, <1>1, <1>3 DEF CloseInv
<1>11. DoneInv' /\ MisledInv'
  BY <1>0, <1>1, <1>3 DEF DoneInv, MisledInv, Cleared
<1>12. QueueInv'
  BY <1>0, <1>1, <1>3 DEF QueueInv, QueueOne
<1>13. CountInv'
  BY <1>0, <1>1, <1>2, <1>3 DEF CountInv, CountOne, Waiting
<1> QED BY <1>5, <1>6, <1>7, <1>8, <1>9, <1>10, <1>11, <1>12, <1>13 DEF ProviderInv

LEMMA LaunchStep ==
    ASSUME Provider!CancelAssumption, ProviderInv, Provider!StartProducer, ~Provider!Cancelled
    PROVE  ProviderInv'
<1>0. /\ Provider!TypeOK /\ PlaceInv /\ AheadInv /\ FlagInv /\ CutInv /\ CloseInv /\ DoneInv
      /\ MisledInv /\ QueueInv /\ CountInv
      /\ Now = consumer.stream /\ Now \in Nat /\ Now <= MaxStreams /\ MaxStreams \in Nat
      /\ consumer.at \notin {"between", "over"} => Now \in Provider!Streams
  BY ConsumerFacts
<1>1. /\ UNCHANGED <<mode, caller, snap, flag, redis, wanted, stop, hook, queue, sent,
                     stopped, closed, outcome, interpreted, misled>>
      /\ consumer.at = "start" /\ Provider!At("peek")
      /\ producer' = [producer EXCEPT ![Now] = "next"]
  BY DEF Provider!StartProducer, Provider!ProducerTo, Provider!calm, Provider!endVars,
     Provider!n0, Now
<1>2. /\ consumer' \in Rec /\ consumer'.at = "peek" /\ consumer'.stream = consumer.stream
      /\ consumer'.held = "nothing"
  BY <1>0, <1>1, Goes
<1>3. /\ Now' = Now /\ Active /\ Active' /\ consumer.held = "nothing"
      /\ ~Over /\ ~Over' /\ (Working' <=> Working) /\ Now \in Provider!Streams
  <2>1. Now' = Now /\ Active /\ Active' /\ ~Over /\ ~Over'
    BY <1>1, <1>2 DEF Now, Active, Over
  <2>2. consumer.held = "nothing" /\ Now \in Provider!Streams
    BY <1>0, <1>1 DEF PlaceInv
  <2> QED BY <1>1, <2>1, <2>2 DEF Working, Cleared
<1>4. /\ producer' \in [Provider!Streams -> Provider!Kind \cup {"none", "next", "gone"}]
      /\ producer'[Now] = "next" /\ producer[Now] = "none" /\ queue[Now] = <<>>
      /\ \A n \in Provider!Streams : n # Now => producer'[n] = producer[n]
  <2>1. producer \in [Provider!Streams -> Provider!Kind \cup {"none", "next", "gone"}]
    BY <1>0 DEF Provider!TypeOK
  <2>2. producer[Now] = "none" /\ queue[Now] = <<>>
    BY <1>0, <1>1, <1>3 DEF AheadInv
  <2> QED BY <1>1, <1>3, <2>1, <2>2
<1>5. Provider!TypeOK'
  <2>1. /\ mode' \in {"inline", "remote", "external"}
        /\ flag' \in BOOLEAN /\ redis' \in BOOLEAN /\ stop' \in BOOLEAN /\ wanted' \in BOOLEAN
        /\ hook' \in 0 .. MaxStreams
        /\ caller' \in [Provider!Callers -> Steps] /\
              snap' \in [Provider!Callers -> 0 .. MaxStreams]
        /\ queue' \in [Provider!Streams -> Seq(Provider!Kind)]
        /\ \A n \in Provider!Streams : Len(queue'[n]) <= QueueMax
        /\ sent' \in [Provider!Streams -> 0 .. MaxItems]
        /\ stopped' \subseteq Provider!Streams /\ closed' \subseteq Provider!Streams
        /\ outcome' \in {"none", "partial", "complete", "failed", "dropped"}
        /\ interpreted' \in 0 .. MaxStreams * MaxItems /\ misled' \in BOOLEAN
    BY <1>0, <1>1 DEF Provider!TypeOK, Steps
  <2> QED BY <1>2, <1>4, <2>1 DEF Provider!TypeOK, Rec, Steps
<1>6. PlaceInv'
  BY <1>0, <1>1, <1>2, <1>3 DEF PlaceInv
<1>7. AheadInv'
  <2>1. ASSUME NEW n \in Provider!Streams, n > Now
        PROVE  producer'[n] = "none" /\ queue[n] = <<>> /\ sent[n] = 0
    <3>1. n # Now
      BY <1>0, <2>1
    <3> QED BY <1>0, <1>4, <2>1, <3>1 DEF AheadInv
  <2> QED BY <1>0, <1>1, <1>2, <1>3, <2>1 DEF AheadInv
<1>8. FlagInv'
  BY <1>0, <1>1, <1>2, <1>3 DEF FlagInv, Provider!Cancelled
<1>9. CutInv'
  BY <1>0, <1>1, <1>2, <1>3, <1>4 DEF CutInv
<1>10. CloseInv'
  BY <1>0, <1>1, <1>3 DEF CloseInv
<1>11. DoneInv' /\ MisledInv'
  BY <1>0, <1>1, <1>3 DEF DoneInv, MisledInv, Cleared
<1>12. QueueInv'
  BY <1>0, <1>1, <1>3, <1>4 DEF QueueInv, QueueOne
<1>13. CountInv'
  <2>1. Waiting(Now)' = Waiting(Now) /\ One(producer'[Now] = "item") = One(producer[Now] = "item")
    BY <1>1, <1>3, <1>4 DEF Waiting, One
  <2> QED BY <1>0, <1>1, <1>2, <1>3, <2>1 DEF CountInv, CountOne
<1> QED BY <1>5, <1>6, <1>7, <1>8, <1>9, <1>10, <1>11, <1>12, <1>13 DEF ProviderInv

LEMMA TakeStep ==
    ASSUME Provider!CancelAssumption, ProviderInv, Provider!Take
    PROVE  ProviderInv'
<1>0. /\ Provider!TypeOK /\ PlaceInv /\ AheadInv /\ FlagInv /\ CutInv /\ CloseInv /\ DoneInv
      /\ MisledInv /\ QueueInv /\ CountInv
      /\ Now = consumer.stream /\ Now \in Nat /\ Now <= MaxStreams /\ MaxStreams \in Nat
      /\ consumer.at \notin {"between", "over"} => Now \in Provider!Streams
      /\ interpreted \in Nat
  BY ConsumerFacts
<1>1. /\ UNCHANGED <<mode, caller, snap, flag, redis, wanted, stop, hook, producer, sent,
                     stopped, closed, outcome, interpreted, misled>>
      /\ consumer.at = "take"
      /\ IF queue[Now] = <<>> THEN Provider!At("peek") /\ queue' = queue
         ELSE /\ consumer' = [consumer EXCEPT !.at = "after", !.held = Head(queue[Now])]
              /\ queue' = [queue EXCEPT ![Now] = Tail(queue[Now])]
  BY DEF Provider!Take, Provider!calm, Provider!endVars, Provider!n0, Now
<1>2. Active /\ Now \in Provider!Streams /\ consumer.held = "nothing" /\ ~Over
  <2>1. consumer.held = "nothing"
    BY <1>0, <1>1 DEF PlaceInv
  <2> QED BY <1>0, <1>1, <2>1 DEF Active, Over
<1>3. CASE queue[Now] = <<>>
  <2>1. queue' = queue /\ Provider!At("peek")
    BY <1>1, <1>3
  <2>2. /\ consumer' \in Rec /\ consumer'.at = "peek" /\ consumer'.stream = consumer.stream
        /\ consumer'.held = "nothing"
    BY <1>0, <2>1, Goes
  <2>3. Now' = Now
    BY <2>2 DEF Now
  <2>4. interpreted' + One(consumer'.held = "item") <= interpreted + One(consumer.held = "item")
    BY <1>0, <1>1, <1>2, <2>2 DEF One
  <2>5. /\ outcome' \in {"none", "partial", "complete", "failed", "dropped"} /\ misled' \in BOOLEAN
        /\ misled' => misled
    BY <1>0, <1>1 DEF Provider!TypeOK
  <2> QED BY <1>0, <1>1, <1>2, <2>1, <2>2, <2>3, <2>4, <2>5, QuietKeeps
<1>4. CASE queue[Now] # <<>>
  <2> DEFINE q == queue[Now]
             h == Head(q)
  <2>a. /\ q \in Seq(Provider!Kind) /\ Len(q) \in Nat /\ Len(q) <= QueueMax
        /\ sent[Now] \in Nat /\ (Now - 1) * MaxItems \in Nat /\ QueueMax \in Nat
        /\ QueueOne(Now) /\ CountOne(Now)
        /\ \A i \in 1 .. Len(q) : q[i] = "cut" => Now \in closed
    BY <1>2, ProducerFacts
  <2>b. q # <<>>
    BY <1>4
  <2>1. /\ queue \in [Provider!Streams -> Seq(Provider!Kind)]
        /\ \A n \in Provider!Streams : Len(queue[n]) <= QueueMax
    BY <1>0 DEF Provider!TypeOK
  <2>2. /\ queue' = [queue EXCEPT ![Now] = Tail(q)]
        /\ consumer' = [consumer EXCEPT !.at = "after", !.held = h]
    BY <1>1, <1>4
  <2> HIDE DEF q
  <2>3. /\ h = q[1] /\ h \in Provider!Kind /\ 1 \in 1 .. Len(q) /\ Len(q) >= 1
        /\ Tail(q) \in Seq(Provider!Kind) /\ Len(Tail(q)) = Len(q) - 1
        /\ \A i \in 1 .. Len(q) - 1 : Tail(q)[i] = q[i + 1] /\ i + 1 \in 1 .. Len(q)
    <3>1. /\ Tail(q) \in Seq(Provider!Kind) /\ Len(Tail(q)) = Len(q) - 1 /\ Len(q) >= 1
          /\ \A i \in 1 .. Len(q) - 1 : Tail(q)[i] = q[i + 1]
      BY <2>a, <2>b
    <3>2. h = q[1] /\ 1 \in 1 .. Len(q)
      BY <2>a, <3>1
    <3>3. h \in Provider!Kind
      BY <2>a, <3>2
    <3> QED BY <2>a, <3>1, <3>2, <3>3
  <2> HIDE DEF h
  <2>4. /\ queue' \in [Provider!Streams -> Seq(Provider!Kind)]
        /\ queue'[Now] = Tail(q)
        /\ \A n \in Provider!Streams : n # Now => queue'[n] = queue[n]
    BY <1>2, <2>1, <2>2, <2>3
  <2>5. \A n \in Provider!Streams : Len(queue'[n]) <= QueueMax
    BY <2>1, <2>a, <2>3, <2>4
  <2>6. /\ consumer' \in Rec /\ consumer'.at = "after" /\ consumer'.stream = consumer.stream
        /\ consumer'.held = h
    <3>1. consumer \in Rec
      BY <1>0, Goes
    <3> QED BY <2>2, <2>3, <3>1 DEF Rec
  <2>7. Now' = Now /\ Active' /\ ~Over' /\ (Working' <=> Working) /\ h # "wakeup"
    <3>1. h # "wakeup"
      BY <2>3 DEF Provider!Kind
    <3> QED BY <1>1, <1>2, <2>6, <3>1 DEF Now, Active, Over, Working, Cleared
  <2>8. Provider!TypeOK'
    <3>1. /\ mode' \in {"inline", "remote", "external"}
          /\ flag' \in BOOLEAN /\ redis' \in BOOLEAN /\ stop' \in BOOLEAN /\ wanted' \in BOOLEAN
          /\ hook' \in 0 .. MaxStreams
          /\ caller' \in [Provider!Callers -> Steps] /\
                snap' \in [Provider!Callers -> 0 .. MaxStreams]
          /\ producer' \in [Provider!Streams -> Provider!Kind \cup {"none", "next", "gone"}]
          /\ sent' \in [Provider!Streams -> 0 .. MaxItems]
          /\ stopped' \subseteq Provider!Streams /\ closed' \subseteq Provider!Streams
          /\ outcome' \in {"none", "partial", "complete", "failed", "dropped"}
          /\ interpreted' \in 0 .. MaxStreams * MaxItems /\ misled' \in BOOLEAN
      BY <1>0, <1>1 DEF Provider!TypeOK, Steps
    <3> QED BY <2>4, <2>5, <2>6, <3>1 DEF Provider!TypeOK, Rec, Steps
  <2>9. PlaceInv'
    BY <1>0, <1>1, <1>2, <2>3, <2>6, <2>7 DEF PlaceInv
  <2>10. AheadInv'
    <3>1. ASSUME NEW n \in Provider!Streams, n > Now
          PROVE  producer[n] = "none" /\ queue'[n] = <<>> /\ sent[n] = 0
      <4>1. n # Now
        BY <1>0, <3>1
      <4> QED BY <1>0, <2>4, <3>1, <4>1 DEF AheadInv
    <3> QED BY <1>0, <1>1, <1>2, <2>6, <2>7, <3>1 DEF AheadInv
  <2>11. FlagInv'
    BY <1>0, <1>1, <2>6, <2>7 DEF FlagInv, Provider!Cancelled
  <2>12. CutInv'
    <3>1. h = "cut" => Now \in closed
      BY <2>a, <2>3
    <3>2. ASSUME NEW n \in Provider!Streams, NEW i \in 1 .. Len(queue'[n]), queue'[n][i] = "cut"
          PROVE  n \in closed
      <4>1. CASE n = Now
        BY <2>a, <2>3, <2>4, <3>2, <4>1
      <4>2. CASE n # Now
        BY <1>0, <2>4, <3>2, <4>2 DEF CutInv
      <4> QED BY <4>1, <4>2
    <3> QED BY <1>0, <1>1, <2>6, <2>7, <3>1, <3>2 DEF CutInv
  <2>13. CloseInv'
    BY <1>0, <1>1, <1>2, <2>7 DEF CloseInv
  <2>14. DoneInv' /\ MisledInv'
    BY <1>0, <1>1, <1>2, <2>7 DEF DoneInv, MisledInv, Cleared
  <2>15. /\ producer[Now] # "gone" => \A i \in 1 .. Len(q) : q[i] = "item"
         /\ producer[Now] = "gone" => /\ \A i \in 1 .. Len(q) - 1 : q[i] = "item"
                                      /\ q[Len(q)] # "item"
    BY <2>a, <2>b DEF QueueOne, q
  <2>16. QueueInv'
    <3>1. producer[Now] # "gone" => \A i \in 1 .. Len(Tail(q)) : Tail(q)[i] = "item"
      BY <2>3, <2>15
    <3>2. ASSUME producer[Now] = "gone"
          PROVE  /\ \A i \in 1 .. Len(Tail(q)) - 1 : Tail(q)[i] = "item"
                 /\ Tail(q) # <<>> => Tail(q)[Len(Tail(q))] # "item"
      <4>1. ASSUME NEW i \in 1 .. Len(Tail(q)) - 1 PROVE Tail(q)[i] = "item"
        <5>1. i \in 1 .. Len(q) - 1 /\ i + 1 \in 1 .. Len(q) - 1
          BY <2>a, <2>3
        <5> QED BY <2>3, <2>15, <3>2, <5>1
      <4>2. ASSUME Tail(q) # <<>> PROVE Tail(q)[Len(Tail(q))] # "item"
        <5>1. Len(q) - 1 \in 1 .. Len(q) - 1 /\ (Len(q) - 1) + 1 = Len(q)
          BY <2>a, <2>3, <4>2
        <5> QED BY <2>3, <2>15, <3>2, <5>1
      <4> QED BY <4>1, <4>2
    <3>3. QueueOne(Now)'
      BY <1>1, <2>4, <2>7, <3>1, <3>2 DEF QueueOne
    <3> QED BY <3>3 DEF QueueInv
  <2>17. CountInv'
    <3>1. interpreted <= Now * MaxItems
      BY <1>0 DEF CountInv
    <3>2. One(h = "item") + Waiting(Now)' <= Waiting(Now) /\ Waiting(Now) \in Int /\
          Waiting(Now)' \in Int
      <4>0. Waiting(Now) = Len(q) - One(producer[Now] = "gone")
        BY <2>b DEF Waiting, One, q
      <4>1. Waiting(Now)' = (Len(q) - 1) - One(producer[Now] = "gone" /\ Tail(q) # <<>>)
        BY <1>1, <2>3, <2>4, <2>7 DEF Waiting
      <4>2. CASE producer[Now] # "gone"
        BY <2>a, <4>0, <4>1, <4>2 DEF One
      <4>3. CASE producer[Now] = "gone" /\ Tail(q) # <<>>
        BY <2>a, <4>0, <4>1, <4>3 DEF One
      <4>4. CASE producer[Now] = "gone" /\ Tail(q) = <<>>
        <5>1. Len(q) = 1
          <6>1. Len(<<>>) = 0
            OBVIOUS
          <6>2. Len(Tail(q)) = 0
            BY <4>4, <6>1, Zenon
          <6>3. Len(Tail(q)) = Len(q) - 1 /\ Len(q) \in Nat
            BY <2>a, <2>3
          <6> QED BY <6>2, <6>3
        <5>2. h # "item"
          BY <2>3, <2>15, <4>4, <5>1
        <5> QED BY <4>0, <4>1, <4>4, <5>1, <5>2 DEF One
      <4> QED BY <4>2, <4>3, <4>4
    <3>3. /\ One(consumer.held = "item") = 0 /\ One(consumer'.held = "item") = One(h = "item")
          /\ One(h = "item") \in Nat /\ One(producer[Now] = "item") \in Nat
      BY <1>2, <2>6 DEF One
    <3>4. interpreted + Waiting(Now) + One(producer[Now] = "item")
              <= (Now - 1) * MaxItems + sent[Now]
      BY <1>0, <2>a, <3>2, <3>3 DEF CountOne
    <3>5. interpreted + One(h = "item") + Waiting(Now)' + One(producer[Now] = "item")
              <= (Now - 1) * MaxItems + sent[Now]
      <4>1. PICK w \in Int, v \in Int, x \in Nat, p \in Nat, b \in Int :
                /\ w = Waiting(Now) /\ v = Waiting(Now)' /\ x = One(h = "item")
                /\ p = One(producer[Now] = "item") /\ b = (Now - 1) * MaxItems + sent[Now]
                /\ x + v <= w /\ interpreted + w + p <= b
        BY <2>a, <3>2, <3>3, <3>4
      <4>2. interpreted + x + v + p <= b
        BY <1>0, <4>1
      <4> QED BY <4>1, <4>2
    <3>6. CountOne(Now)'
      BY <1>1, <2>7, <3>3, <3>5 DEF CountOne
    <3> QED BY <1>1, <2>7, <3>1, <3>6 DEF CountInv
  <2> QED BY <2>8, <2>9, <2>10, <2>11, <2>12, <2>13, <2>14, <2>16, <2>17 DEF ProviderInv
<1> QED BY <1>3, <1>4

LEMMA LeaveStep ==
    ASSUME Provider!CancelAssumption, ProviderInv, Provider!Leave \/ Provider!Complete
    PROVE  ProviderInv'
<1>0. /\ Provider!TypeOK /\ PlaceInv /\ AheadInv /\ FlagInv /\ CutInv /\ CloseInv /\ DoneInv
      /\ MisledInv /\ QueueInv /\ CountInv
      /\ Now = consumer.stream /\ Now \in Nat /\ Now <= MaxStreams /\ MaxStreams \in Nat
      /\ consumer.at \notin {"between", "over"} => Now \in Provider!Streams
  BY ConsumerFacts
<1>1. /\ UNCHANGED <<mode, snap, flag, redis, wanted, producer, queue, sent, interpreted, misled>>
      /\ consumer.at \in {"leave", "between"}
      /\ outcome' \in {outcome, "complete"}
      /\ \/ Provider!At("between") /\ caller' = caller
         \/ Provider!At("over") /\ caller' = [caller EXCEPT !["generator"] = "clear flag"]
      /\ \/ /\ consumer.at = "leave" /\ stopped' = stopped \cup {Now} /\ closed' = closed \cup {Now}
            /\ hook' = 0 /\ stop' = (stop /\ hook = 0)
         \/ UNCHANGED <<stopped, closed, hook, stop>>
  BY DEF Provider!Leave, Provider!Complete, Provider!To, Provider!streamVars, Provider!endVars,
     Provider!flagVars, Provider!n0, Now
<1>2. /\ consumer' \in Rec /\ consumer'.stream = consumer.stream /\ consumer'.held = "nothing"
      /\ \/ consumer'.at = "between" /\ caller' = caller
         \/ consumer'.at = "over" /\ caller' = [caller EXCEPT !["generator"] = "clear flag"]
  BY <1>0, <1>1, Goes
<1>3. /\ Now' = Now /\ ~Over /\ ~Active' /\ Now \in Nat
      /\ consumer.at = "leave" => Now \in Provider!Streams
  BY <1>0, <1>1, <1>2 DEF Now, Over, Active
<1>4. /\ stop' \in BOOLEAN /\ (stop' => stop) /\ hook' \in 0 .. MaxStreams /\ hook' <= Now
      /\ stopped' \subseteq Provider!Streams /\ closed' \subseteq Provider!Streams
      /\ closed \subseteq closed' /\ \A n \in closed' \cup stopped' : n <= Now
  <2>1. /\ stop \in BOOLEAN /\ hook \in 0 .. MaxStreams
        /\ stopped \subseteq Provider!Streams /\ closed \subseteq Provider!Streams
    BY <1>0 DEF Provider!TypeOK
  <2>2. 0 \in 0 .. MaxStreams /\ 0 <= Now /\ hook <= Now /\ \A n \in closed \cup stopped : n <= Now
    BY <1>0 DEF AheadInv
  <2>3. stop' \in BOOLEAN /\ (stop' => stop)
    <3>1. CASE stop' = (stop /\ hook = 0)
      <4>1. (stop /\ hook = 0) \in BOOLEAN
        OBVIOUS
      <4>2. stop' \in BOOLEAN
        BY <3>1, <4>1, Zenon
      <4>3. stop' => stop
        BY <3>1
      <4> QED BY <4>2, <4>3
    <3>2. CASE stop' = stop
      BY <2>1, <3>2
    <3> QED BY <1>1, <3>1, <3>2
  <2>4. hook' \in 0 .. MaxStreams /\ hook' <= Now
    <3>1. hook' = 0 \/ hook' = hook
      BY <1>1
    <3> QED BY <2>1, <2>2, <3>1
  <2>5. CASE consumer.at = "leave" /\ stopped' = stopped \cup {Now} /\ closed' = closed \cup {Now}
    BY <1>0, <1>3, <2>1, <2>2, <2>3, <2>4, <2>5
  <2>6. CASE UNCHANGED <<stopped, closed>>
    BY <2>1, <2>2, <2>3, <2>4, <2>6
  <2> QED BY <1>1, <2>5, <2>6
<1>5. /\ caller' \in [Provider!Callers -> Steps]
      /\ caller'["user"] = caller["user"] /\ caller'["monitor"] = caller["monitor"]
      /\ caller'["handler"] = caller["handler"]
      /\ caller'["generator"] \in {"idle", "clear flag"}
      /\ consumer'.at # "over" => /\ caller'["generator"] = "idle"
                                  /\ \A c \in Provider!Callers : caller'[c] = caller[c]
  <2>1. caller \in [Provider!Callers -> Steps] /\ caller["generator"] = "idle"
    BY <1>0, <1>3 DEF Provider!TypeOK, PlaceInv, Steps
  <2>2. CASE consumer'.at = "between" /\ caller' = caller
    BY <2>1, <2>2
  <2>3. CASE consumer'.at = "over" /\ caller' = [caller EXCEPT !["generator"] = "clear flag"]
    <3>1. "clear flag" \in Steps /\ "generator" \in Provider!Callers
      BY DEF Steps, Provider!Callers
    <3>2. /\ caller' \in [Provider!Callers -> Steps] /\ caller'["generator"] = "clear flag"
          /\ \A c \in Provider!Callers : c # "generator" => caller'[c] = caller[c]
      BY <2>1, <2>3, <3>1
    <3> QED BY <2>3, <3>2 DEF Provider!Callers
  <2> QED BY <1>2, <2>2, <2>3
<1>6. Provider!TypeOK'
  <2>1. /\ mode' \in {"inline", "remote", "external"}
        /\ flag' \in BOOLEAN /\ redis' \in BOOLEAN /\ wanted' \in BOOLEAN
        /\ snap' \in [Provider!Callers -> 0 .. MaxStreams]
        /\ producer' \in [Provider!Streams -> Provider!Kind \cup {"none", "next", "gone"}]
        /\ queue' \in [Provider!Streams -> Seq(Provider!Kind)]
        /\ \A n \in Provider!Streams : Len(queue'[n]) <= QueueMax
        /\ sent' \in [Provider!Streams -> 0 .. MaxItems]
        /\ outcome' \in {"none", "partial", "complete", "failed", "dropped"}
        /\ interpreted' \in 0 .. MaxStreams * MaxItems /\ misled' \in BOOLEAN
    BY <1>0, <1>1 DEF Provider!TypeOK
  <2> QED BY <1>2, <1>4, <1>5, <2>1 DEF Provider!TypeOK, Rec, Steps
<1>7. PlaceInv'
  BY <1>0, <1>2, <1>5 DEF PlaceInv, Over, Clearing
<1>8. AheadInv'
  <2>1. consumer'.at \notin {"check", "start"}
    BY <1>2
  <2> QED BY <1>0, <1>1, <1>3, <1>4, <2>1 DEF AheadInv
<1>9. Working' => Working /\ \A c \in Provider!Callers : caller'[c] = caller[c]
  BY <1>3, <1>5 DEF Working, Over, Cleared
<1>10. FlagInv'
  BY <1>0, <1>1, <1>2, <1>4, <1>9 DEF FlagInv, Provider!Cancelled
<1>11. CutInv'
  BY <1>0, <1>1, <1>2, <1>4 DEF CutInv
<1>12. CloseInv' /\ QueueInv'
  BY <1>3 DEF CloseInv, QueueInv
<1>13. DoneInv'
  BY <1>0, <1>1, <1>3, <1>5 DEF DoneInv
<1>14. MisledInv'
  BY <1>0, <1>1, <1>5 DEF MisledInv, Cleared
<1>15. CountInv'
  BY <1>0, <1>1, <1>3 DEF CountInv
<1> QED BY <1>6, <1>7, <1>8, <1>10, <1>11, <1>12, <1>13, <1>14, <1>15 DEF ProviderInv

LEMMA ProviderStarts ==
    ASSUME Provider!CancelAssumption, Provider!Init
    PROVE  ProviderInv
<1>1. /\ mode \in {"inline", "remote", "external"}
      /\ flag = FALSE /\ redis = FALSE /\ stop = FALSE /\ hook = 0 /\ wanted = FALSE
      /\ caller = [c \in Provider!Callers |-> "idle"] /\ snap = [c \in Provider!Callers |-> 0]
      /\ consumer = [at |-> "between", stream |-> 0, held |-> "nothing"]
      /\ producer = [n \in Provider!Streams |-> "none"]
      /\ queue = [n \in Provider!Streams |-> <<>>]
      /\ sent = [n \in Provider!Streams |-> 0] /\ stopped = {} /\ closed = {}
      /\ outcome = "none" /\ interpreted = 0 /\ misled = FALSE
      /\ MaxStreams \in Nat /\ MaxItems \in Nat /\ QueueMax \in Nat
  BY DEF Provider!Init, Provider!CancelAssumption
<1>2. 0 \in 0 .. MaxStreams /\ 0 \in 0 .. MaxItems /\ 0 \in 0 .. MaxStreams * MaxItems
  <2>1. MaxStreams * MaxItems \in Nat
    BY <1>1
  <2> QED BY <1>1, <2>1
<1>3. /\ Now = 0 /\ ~Active /\ ~Over /\ ~Cleared
      /\ \A c \in Provider!Callers : caller[c] = "idle" /\ snap[c] = 0
      /\ \A n \in Provider!Streams : producer[n] = "none" /\ queue[n] = <<>> /\ sent[n] = 0
  BY <1>1 DEF Now, Active, Over, Cleared, Provider!Callers
<1>4. Provider!TypeOK
  <2>1. /\ caller \in [Provider!Callers -> Steps] /\ snap \in [Provider!Callers -> 0 .. MaxStreams]
    BY <1>1, <1>2 DEF Steps
  <2>2. consumer \in Rec
    BY <1>1, <1>2 DEF Rec
  <2>3. /\ producer \in [Provider!Streams -> Provider!Kind \cup {"none", "next", "gone"}]
        /\ sent \in [Provider!Streams -> 0 .. MaxItems]
    BY <1>1, <1>2
  <2>4. <<>> \in Seq(Provider!Kind) /\ Len(<<>>) = 0
    OBVIOUS
  <2>5. queue \in [Provider!Streams -> Seq(Provider!Kind)]
    BY <1>1, <2>4
  <2>6. \A n \in Provider!Streams : Len(queue[n]) <= QueueMax
    <3>1. 0 <= QueueMax
      BY <1>1
    <3> QED BY <1>3, <2>4, <3>1
  <2> QED BY <1>1, <1>2, <2>1, <2>2, <2>3, <2>5, <2>6 DEF Provider!TypeOK, Steps, Rec
<1>5. PlaceInv
  BY <1>1, <1>3 DEF PlaceInv, Clearing, Provider!Callers
<1>6. AheadInv
  BY <1>1, <1>3 DEF AheadInv
<1>7. FlagInv /\ CloseInv /\ QueueInv
  BY <1>1, <1>3 DEF FlagInv, CloseInv, QueueInv
<1>8. CutInv
  BY <1>1, <1>3 DEF CutInv
<1>9. DoneInv /\ MisledInv
  BY <1>1, <1>3 DEF DoneInv, MisledInv, Provider!Callers
<1>10. CountInv
  <2>1. 0 <= 0 * MaxItems
    BY <1>1
  <2> QED BY <1>1, <1>3, <2>1 DEF CountInv
<1> QED BY <1>4, <1>5, <1>6, <1>7, <1>8, <1>9, <1>10 DEF ProviderInv

LEMMA ProviderStep ==
    ASSUME Provider!CancelAssumption, ProviderInv, Provider!Next
    PROVE  ProviderInv'
<1>1. ASSUME NEW c \in Provider!Callers, Provider!CallerStep(c) PROVE ProviderInv'
  BY <1>1, SetFlagStep, SetEventStep, CloseStep, SetRedisStep, ClearStep DEF Provider!CallerStep
<1>2. ASSUME NEW n \in Provider!Streams,
             Provider!ProviderSends(n) \/ Provider!ReadIsCut(n) \/ Provider!Offer(n)
      PROVE  ProviderInv'
  BY <1>2, SendStep, OfferStep
<1>3. ASSUME Provider!ConsumerStep PROVE ProviderInv'
  BY <1>3, BeginStep, CheckStep, LaunchStep, WakeStep, PeekStep, TakeStep, AfterStep,
     InterpretStep, LeaveStep DEF Provider!ConsumerStep
<1> QED BY <1>1, <1>2, <1>3, MoveStep DEF Provider!Next

LEMMA ProviderRests ==
    ASSUME ProviderInv, UNCHANGED providerVars
    PROVE  ProviderInv'
<1>1. Provider!TypeOK'
  <2>1. Provider!TypeOK
    BY DEF ProviderInv
  <2>2. UNCHANGED <<mode, flag, redis, stop, hook, wanted, caller, snap, consumer, producer, queue,
                    sent, stopped, closed, outcome, interpreted, misled>>
    BY DEF providerVars
  <2>3. /\ mode' \in {"inline", "remote", "external"}
        /\ flag' \in BOOLEAN /\ redis' \in BOOLEAN /\ stop' \in BOOLEAN /\ wanted' \in BOOLEAN
        /\ hook' \in 0 .. MaxStreams
        /\ caller' \in [Provider!Callers -> Steps] /\
              snap' \in [Provider!Callers -> 0 .. MaxStreams]
        /\ consumer' \in Rec
    BY <2>1, <2>2 DEF Provider!TypeOK, Steps, Rec
  <2>4. /\ producer' \in [Provider!Streams -> Provider!Kind \cup {"none", "next", "gone"}]
        /\ queue' \in [Provider!Streams -> Seq(Provider!Kind)]
        /\ \A n \in Provider!Streams : Len(queue'[n]) <= QueueMax
        /\ sent' \in [Provider!Streams -> 0 .. MaxItems]
        /\ stopped' \subseteq Provider!Streams /\ closed' \subseteq Provider!Streams
        /\ outcome' \in {"none", "partial", "complete", "failed", "dropped"}
        /\ interpreted' \in 0 .. MaxStreams * MaxItems /\ misled' \in BOOLEAN
    BY <2>1, <2>2 DEF Provider!TypeOK
  <2> QED BY <2>3, <2>4 DEF Provider!TypeOK, Steps, Rec
<1>2. PlaceInv' /\ AheadInv' /\ FlagInv' /\ CutInv'
  BY DEF ProviderInv, providerVars, PlaceInv, AheadInv, FlagInv, CutInv, Now, Over, Active,
     Working, Cleared, Provider!Cancelled
<1>3. CloseInv' /\ DoneInv' /\ MisledInv' /\ QueueInv' /\ CountInv'
  BY DEF ProviderInv, providerVars, CloseInv, DoneInv, MisledInv, QueueInv, QueueOne, CountInv,
     CountOne, Waiting, Now, Over, Active, Working, Cleared
<1> QED BY <1>1, <1>2, <1>3 DEF ProviderInv

LEMMA ProviderHolds ==
    ASSUME ProviderInv
    PROVE  Provider!TypeOK /\ Provider!CancelHolds
BY DEF ProviderInv, MisledInv, Cleared, Provider!CancelHolds

\* What is interpreted changes in one step, and not once the cancellation stands.
LEMMA Quiet ==
    ASSUME Provider!CancelAssumption, ProviderInv, Provider!Next,
           caller["user"] = "done", caller["handler"] # "done"
    PROVE  interpreted' = interpreted
<1>1. ~Over => Provider!Cancelled
  BY DEF ProviderInv, DoneInv, Provider!Cancelled
<1>2. ASSUME Provider!ConsumerStep PROVE interpreted' = interpreted
  <2>1. ASSUME Provider!Interpret PROVE interpreted' = interpreted
    <3>1. Provider!Cancelled
      BY <1>1, <2>1 DEF Provider!Interpret, Over
    <3> QED BY <2>1, <3>1 DEF Provider!Interpret, Provider!Ends
  <2> QED BY <1>2, <2>1 DEF Provider!ConsumerStep, Provider!Begin, Provider!Check,
         Provider!StartProducer, Provider!Peek, Provider!Take, Provider!After, Provider!Ends,
         Provider!Leave, Provider!Complete, Provider!endVars
<1>3. ASSUME ~Provider!ConsumerStep PROVE interpreted' = interpreted
  BY <1>3 DEF Provider!Next, Provider!UserCancels, Provider!HandlerCancels, Provider!MonitorLooks,
     Provider!MonitorReads, Provider!SetDurable, Provider!CallerStep, Provider!SetFlag,
     Provider!SetEvent, Provider!Close, Provider!SetRedis, Provider!Clear, Provider!ProviderSends,
     Provider!ReadIsCut, Provider!Offer, Provider!rest, Provider!others, Provider!endVars
<1> QED BY <1>2, <1>3

-----------------------------------------------------------------------------
(* The parts together: the one that runs keeps its invariant.              *)

ChatInv == RedisInv /\ ProviderInv

\* Initially, and after every step of any part.
LEMMA ChatStarts == ChatInit => ChatInv
<1>1. Redis!StreamAssumption /\ Provider!CancelAssumption
  BY ChatAssumption
<1>2. ASSUME ChatInit PROVE ChatInv
  <2>1. Redis!Init /\ Provider!Init
    BY <1>2 DEF ChatInit
  <2> QED BY <1>1, <2>1, RedisStarts, ProviderStarts DEF ChatInv
<1> QED BY <1>2

LEMMA ChatStep == ChatInv /\ [ChatNext]_allVars => ChatInv'
<1>a. SUFFICES ASSUME ChatInv, [ChatNext]_allVars PROVE ChatInv'
  OBVIOUS
<1>0. Redis!StreamAssumption /\ Provider!CancelAssumption /\ RedisInv /\ ProviderInv
  BY <1>a, ChatAssumption DEF ChatInv
<1>1. CASE UNCHANGED <<redisVars, providerVars>>
  BY <1>0, <1>1, RedisRests, ProviderRests DEF ChatInv
<1>2. CASE Redis!Next /\ UNCHANGED providerVars
  BY <1>0, <1>2, RedisStep, ProviderRests DEF ChatInv
<1>3. CASE Provider!Next /\ UNCHANGED redisVars
  BY <1>0, <1>3, ProviderStep, RedisRests DEF ChatInv
<1>4. QED
  BY <1>a, <1>1, <1>2, <1>3 DEF ChatNext, allVars

\* The invariant holds of every behaviour of the parts.
THEOREM ChatInvariance == ChatSpec => []ChatInv
<1>1. QED
  BY ChatStarts, ChatStep, PTL DEF ChatSpec

\* Whatever Redis fails to do, whatever it trims and whenever a client joins, the
\* client is handed the lines after the number it asked for, each once, without a
\* hole and in order; it is told of a gap only where lines were dropped, and, while
\* Redis answers, of the end only once it has every line.
THEOREM LinesHold == ChatSpec => []RedisLinesHold
<1>1. ChatInv => RedisLinesHold
  BY RedisHolds DEF ChatInv, RedisLinesHold
<1>2. QED
  BY <1>1, ChatInvariance, PTL

\* The closing of a provider's connection by a cancellation is never taken for a
\* failure, the end of the answer or an item, unless the worker's handler cleared
\* the flags; and once the cancellation has returned nothing more is interpreted.
THEOREM CancellationHolds == ChatSpec => CancelHolds
<1>1. ChatInv => (part = "provider" => Provider!TypeOK /\ Provider!CancelHolds)
  BY ProviderHolds DEF ChatInv
<1>2. ChatInv /\ [ChatNext]_allVars =>
        [caller["user"] = "done" /\ caller["handler"] # "done" =>
            UNCHANGED interpreted]_(Provider!vars)
  <2>a. SUFFICES ASSUME ChatInv, [ChatNext]_allVars,
                        caller["user"] = "done", caller["handler"] # "done"
        PROVE  interpreted' = interpreted
    OBVIOUS
  <2>1. Provider!CancelAssumption /\ ProviderInv
    BY <2>a, ChatAssumption DEF ChatInv
  <2>2. CASE UNCHANGED providerVars
    BY <2>2 DEF providerVars
  <2>3. CASE Provider!Next
    BY <2>a, <2>1, <2>3, Quiet
  <2> QED BY <2>a, <2>2, <2>3 DEF ChatNext, allVars
<1>3. QED
  BY <1>1, <1>2, ChatInvariance, PTL DEF ChatSpec, CancelHolds, Provider!NothingAfterCancel

\* In memory the composition runs the hub, so that what is proved of the hub holds
\* of it.
THEOREM ChatRunsTheHub == ChatSpec => Spec
<1>1. ChatInit => Init
  BY DEF ChatInit
<1>2. [ChatNext]_allVars => [Next]_vars
  BY DEF ChatNext, allVars
<1>3. QED
  BY <1>1, <1>2, PTL DEF ChatSpec, Spec
=============================================================================
