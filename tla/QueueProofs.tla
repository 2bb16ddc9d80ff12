----------------------------- MODULE QueueProofs -----------------------------
(***************************************************************************)
(* Every step of a netrix queue preserves the invariant QInv, from which   *)
(* AtMostOnce follows, for any number of subscribers, items and flushes    *)
(* and any channel capacity.  MessageQueue is extended; EventQueue, whose  *)
(* Add, dispatchloop and Next differ, is instantiated over the same        *)
(* variables.                                                              *)
(***************************************************************************)
EXTENDS MessageQueue, SequenceTheorems, TLAPS

Event == INSTANCE EventQueue

(***************************************************************************)
(* The inductive invariant.  The items are numbered in the order of Add,   *)
(* so the queue is increasing; the loop works on an item that is not above *)
(* any item in the queue; and what a subscriber was handed is below what   *)
(* is still to come.                                                       *)
(***************************************************************************)
Handed(s, i) == senders[s][i] > 0 \/ InGot(s, i)

SizeCounts == Alive => size = Len(queue)

QueueOrdered ==
  /\ \A j, k \in DOMAIN queue : j < k => queue[j] < queue[k]
  /\ \A k \in DOMAIN queue : queue[k] <= added

LoopOrdered ==
  pc = "spawn" => /\ toAdd \in 1 .. added
                  /\ \A k \in DOMAIN queue : toAdd <= queue[k]

HandedOrdered ==
  \A s \in Subs, i \in Items :
    Handed(s, i) =>
      /\ i <= added
      /\ pc = "spawn" => i <= toAdd /\ (i = toAdd => s \notin todo)
      /\ pc # "spawn" => \A k \in DOMAIN queue : i < queue[k]

HandedOnce ==
  \A s \in Subs :
    /\ \A j, k \in DOMAIN Got(s) : Got(s)[j] = Got(s)[k] => j = k
    /\ \A i \in Items : senders[s][i] <= 1
    /\ \A i \in Items : InGot(s, i) => senders[s][i] = 0

QInv ==
  QTypeOK /\ SizeCounts /\ QueueOrdered /\ LoopOrdered /\ HandedOrdered /\ HandedOnce

\* The steps of the queues; EventQueue uses PopUnchecked, MessageQueue Pop.
QStep ==
  \/ Enqueue
  \/ Flush
  \/ StopRunning
  \/ StopReturn
  \/ ReadHead
  \/ ReadEmpty
  \/ \E s \in Subs : SpawnSender(s)
  \/ PopUnchecked
  \/ Pop
  \/ \E s \in Subs : Take(s)
  \/ \E s \in Subs, i \in Items : Send(s, i) \/ SenderQuit(s, i)

(***************************************************************************)
(* Sequences.                                                              *)
(***************************************************************************)

\* Sending appends to what the subscriber was given.
LEMMA AppendConcat ==
  ASSUME NEW t \in Seq(Items), NEW c \in Seq(Items), NEW x \in Items
  PROVE  t \o Append(c, x) = Append(t \o c, x)
  OBVIOUS

\* Receiving from the channel does not change what the subscriber was given.
LEMMA MoveHead ==
  ASSUME NEW t \in Seq(Items), NEW c \in Seq(Items), c # <<>>
  PROVE  Append(t, Head(c)) \o Tail(c) = t \o c
  OBVIOUS

(***************************************************************************)
(* What the actions do to Got.                                             *)
(***************************************************************************)

\* Got is a sequence of items.
LEMMA GotType ==
  ASSUME QTypeOK, NEW s \in Subs
  PROVE  Got(s) \in Seq(Items)
  BY DEF QTypeOK, Got

\* A step of Send appends its item to one subscriber's Got.
LEMMA SendGot ==
  ASSUME QTypeOK, NEW s \in Subs, NEW i \in Items, Send(s, i), NEW r \in Subs
  PROVE  Got(r)' = IF r = s THEN Append(Got(r), i) ELSE Got(r)
  <1>1. CASE r = s
    <2>1. chan[s] \in Seq(Items) /\ taken[s] \in Seq(Items)
      BY DEF QTypeOK
    <2>2. chan'[s] = Append(chan[s], i) /\ taken'[s] = taken[s]
      BY DEF Send, QTypeOK
    <2>3. taken[s] \o Append(chan[s], i) = Append(taken[s] \o chan[s], i)
      BY <2>1, AppendConcat
    <2> QED  BY <1>1, <2>2, <2>3 DEF Got
  <1>2. CASE r # s
    BY <1>2 DEF Send, Got, QTypeOK
  <1> QED  BY <1>1, <1>2

\* Take leaves Got as it is.
LEMMA TakeGot ==
  ASSUME QTypeOK, NEW s \in Subs, Take(s), NEW r \in Subs
  PROVE  Got(r)' = Got(r)
  <1>1. CASE r = s
    <2>1. chan[s] \in Seq(Items) /\ taken[s] \in Seq(Items) /\ chan[s] # <<>>
      BY DEF QTypeOK, Take
    <2>2. chan'[s] = Tail(chan[s]) /\ taken'[s] = Append(taken[s], Head(chan[s]))
      BY DEF Take, QTypeOK
    <2>3. Append(taken[s], Head(chan[s])) \o Tail(chan[s]) = taken[s] \o chan[s]
      BY <2>1, MoveHead
    <2> QED  BY <1>1, <2>2, <2>3 DEF Got
  <1>2. CASE r # s
    BY <1>2 DEF Take, Got, QTypeOK
  <1> QED  BY <1>1, <1>2

(***************************************************************************)
(* Types.                                                                  *)
(***************************************************************************)

\* The queue starts in a state of the invariant.
LEMMA QInitInv == QInit => QInv
  <1> SUFFICES ASSUME QInit PROVE QInv
    OBVIOUS
  <1> USE ChanCapAssumption, BoundsAssumption
  <1>1. QTypeOK
    BY DEF QInit, QTypeOK, Items
  <1>2. \A s \in Subs : Got(s) = <<>>
    BY DEF QInit, Got
  <1>3. \A s \in Subs, i \in Items : ~Handed(s, i)
    BY <1>2 DEF Handed, InGot, QInit
  <1>4. SizeCounts /\ QueueOrdered /\ LoopOrdered
    BY DEF QInit, SizeCounts, QueueOrdered, LoopOrdered
  <1>5. HandedOrdered
    BY <1>3 DEF HandedOrdered
  <1>6. HandedOnce
    BY <1>2 DEF HandedOnce, InGot, QInit
  <1> QED  BY <1>1, <1>4, <1>5, <1>6 DEF QInv

\* Every step keeps the types and the agreement of size and queue.
LEMMA QTypeStep ==
  ASSUME QTypeOK, SizeCounts, LoopOrdered, QStep
  PROVE  QTypeOK' /\ SizeCounts'
  <1> USE ChanCapAssumption, BoundsAssumption DEF QTypeOK, Items, SizeCounts, Alive
  <1>1. CASE Enqueue          BY <1>1 DEF Enqueue
  <1>2. CASE Flush            BY <1>2 DEF Flush
  <1>3. CASE StopRunning      BY <1>3 DEF StopRunning
  <1>4. CASE StopReturn       BY <1>4 DEF StopReturn
  <1>5. CASE ReadHead         BY <1>5 DEF ReadHead
  <1>6. CASE ReadEmpty        BY <1>6 DEF ReadEmpty, qvars
  <1>7. ASSUME NEW s \in Subs, SpawnSender(s) PROVE QTypeOK' /\ SizeCounts'
    <2>1. toAdd \in Items
      BY <1>7 DEF SpawnSender, LoopOrdered
    <2>2. senders' \in [Subs -> [Items -> Nat]]
      BY <1>7, <2>1 DEF SpawnSender
    <2> QED  BY <1>7, <2>2 DEF SpawnSender
  <1>8. CASE PopUnchecked
    <2>1. CASE queue = <<>>   BY <1>8, <2>1 DEF PopUnchecked
    <2>2. CASE queue # <<>>
      <3>1. Tail(queue) \in Seq(Items) /\ Len(Tail(queue)) = Len(queue) - 1
        BY <2>2
      <3>2. queue' = Tail(queue) /\ size' = size - 1 /\ pc' = "read"
        BY <1>8, <2>2 DEF PopUnchecked
      <3>3. size' = Len(queue')
        BY <1>8, <3>1, <3>2 DEF PopUnchecked
      <3>4. size' \in Int /\ queue' \in Seq(Items) /\ toAdd' = 0
        BY <1>8, <3>1, <3>2 DEF PopUnchecked
      <3> QED  BY <1>8, <3>2, <3>3, <3>4 DEF PopUnchecked
    <2> QED  BY <2>1, <2>2
  <1>9. CASE Pop
    <2>1. CASE size < 1       BY <1>9, <2>1 DEF Pop
    <2>2. CASE ~(size < 1)
      <3>1. queue # <<>>
        BY <1>9, <2>2 DEF Pop
      <3>2. Tail(queue) \in Seq(Items) /\ Len(Tail(queue)) = Len(queue) - 1
        BY <3>1
      <3>3. queue' = Tail(queue) /\ size' = size - 1 /\ pc' = "read"
        BY <1>9, <2>2 DEF Pop
      <3>4. size' = Len(queue')
        BY <1>9, <3>2, <3>3 DEF Pop
      <3>5. size' \in Int /\ queue' \in Seq(Items) /\ toAdd' = 0
        BY <1>9, <3>2, <3>3 DEF Pop
      <3> QED  BY <1>9, <3>3, <3>4, <3>5 DEF Pop
    <2> QED  BY <2>1, <2>2
  <1>10. ASSUME NEW s \in Subs, Take(s) PROVE QTypeOK' /\ SizeCounts'
    <2>1. Head(chan[s]) \in Items /\ Tail(chan[s]) \in Seq(Items)
      BY <1>10 DEF Take
    <2>2. Len(Tail(chan[s])) <= ChanCap
      BY <1>10 DEF Take
    <2>3. chan' \in [Subs -> Seq(Items)] /\ taken' \in [Subs -> Seq(Items)]
      BY <1>10, <2>1 DEF Take
    <2>4. \A r \in Subs : Len(chan'[r]) <= ChanCap
      BY <1>10, <2>2 DEF Take
    <2> QED  BY <1>10, <2>3, <2>4 DEF Take
  <1>11. ASSUME NEW s \in Subs, NEW i \in Items, Send(s, i)
         PROVE QTypeOK' /\ SizeCounts'
    <2>0. senders[s][i] - 1 \in Nat
      BY <1>11 DEF Send
    <2>1. senders' \in [Subs -> [Items -> Nat]]
      BY <1>11, <2>0 DEF Send
    <2>2. /\ Append(chan[s], i) \in Seq(Items)
          /\ Len(Append(chan[s], i)) <= ChanCap
      BY <1>11 DEF Send
    <2>3. chan' \in [Subs -> Seq(Items)]
      BY <1>11, <2>2 DEF Send
    <2>4. \A r \in Subs : Len(chan'[r]) <= ChanCap
      BY <1>11, <2>2 DEF Send
    <2> QED  BY <1>11, <2>1, <2>3, <2>4 DEF Send
  <1>12. ASSUME NEW s \in Subs, NEW i \in Items, SenderQuit(s, i)
         PROVE QTypeOK' /\ SizeCounts'
    <2>1. senders' \in [Subs -> [Items -> Nat]]
      BY <1>12 DEF SenderQuit
    <2> QED  BY <1>12, <2>1 DEF SenderQuit
  <1> QED
    BY <1>1, <1>2, <1>3, <1>4, <1>5, <1>6, <1>7, <1>8, <1>9, <1>10, <1>11, <1>12
    DEF QStep

(***************************************************************************)
(* Order.                                                                  *)
(***************************************************************************)
Increasing(q, n) ==
  /\ \A j, k \in DOMAIN q : j < k => q[j] < q[k]
  /\ \A k \in DOMAIN q : q[k] <= n

\* Adding the next number to an increasing sequence.
LEMMA IncreasingAppend ==
  ASSUME NEW n \in Nat, NEW q \in Seq(Nat), Increasing(q, n)
  PROVE  Increasing(Append(q, n + 1), n + 1)
  <1> DEFINE r == Append(q, n + 1)
  <1>1. /\ DOMAIN q = 1 .. Len(q) /\ Len(q) \in Nat
        /\ DOMAIN r = 1 .. (Len(q) + 1)
        /\ \A k \in 1 .. Len(q) : r[k] = q[k] /\ q[k] \in Nat
        /\ r[Len(q) + 1] = n + 1
    OBVIOUS
  <1> HIDE DEF r
  <1>2. \A k \in DOMAIN r : r[k] <= n + 1
    BY <1>1 DEF Increasing
  <1>3. ASSUME NEW j \in DOMAIN r, NEW k \in DOMAIN r, j < k PROVE r[j] < r[k]
    <2>1. j \in 1 .. Len(q) /\ q[j] <= n
      BY <1>1, <1>3 DEF Increasing
    <2>2. CASE k = Len(q) + 1
      BY <1>1, <2>1, <2>2
    <2>3. CASE k # Len(q) + 1
      <3>1. k \in 1 .. Len(q)
        BY <1>1, <2>3
      <3> QED  BY <1>1, <1>3, <2>1, <3>1 DEF Increasing
    <2> QED  BY <2>2, <2>3
  <1> QED  BY <1>2, <1>3 DEF Increasing, r

\* Removing the head of an increasing sequence.
LEMMA IncreasingTail ==
  ASSUME NEW n \in Nat, NEW q \in Seq(Nat), q # <<>>, Increasing(q, n)
  PROVE  /\ Increasing(Tail(q), n)
         /\ \A k \in DOMAIN q : q[1] <= q[k]
         /\ \A k \in DOMAIN Tail(q) : q[1] < Tail(q)[k]
         /\ q[1] \in Nat /\ q[1] <= n
  <1> DEFINE r == Tail(q)
  <1>1. /\ DOMAIN q = 1 .. Len(q) /\ Len(q) \in Nat /\ Len(q) >= 1
        /\ DOMAIN r = 1 .. (Len(q) - 1)
        /\ \A k \in 1 .. (Len(q) - 1) : r[k] = q[k + 1]
        /\ \A k \in 1 .. Len(q) : q[k] \in Nat
    OBVIOUS
  <1> HIDE DEF r
  <1>2. \A k \in DOMAIN r : k + 1 \in DOMAIN q /\ r[k] = q[k + 1] /\ 1 < k + 1
    BY <1>1
  <1>3. Increasing(r, n)
    <2>1. \A k \in DOMAIN r : r[k] <= n
      BY <1>2 DEF Increasing
    <2>2. ASSUME NEW j \in DOMAIN r, NEW k \in DOMAIN r, j < k PROVE r[j] < r[k]
      <3>1. j + 1 < k + 1
        BY <1>1, <2>2
      <3> QED  BY <1>2, <3>1 DEF Increasing
    <2> QED  BY <2>1, <2>2 DEF Increasing
  <1>4. 1 \in DOMAIN q
    BY <1>1
  <1>5. \A k \in DOMAIN q : q[1] <= q[k]
    <2> SUFFICES ASSUME NEW k \in DOMAIN q PROVE q[1] <= q[k]
      OBVIOUS
    <2>1. CASE k = 1  BY <1>1, <2>1
    <2>2. CASE k # 1
      <3>1. 1 < k
        BY <1>1, <2>2
      <3>2. q[1] < q[k]
        BY <1>4, <3>1 DEF Increasing
      <3> QED  BY <1>1, <1>4, <3>2
    <2> QED  BY <2>1, <2>2
  <1>6. \A k \in DOMAIN r : q[1] < r[k]
    BY <1>2, <1>4 DEF Increasing
  <1>7. q[1] \in Nat /\ q[1] <= n
    BY <1>1, <1>4 DEF Increasing
  <1> QED  BY <1>3, <1>5, <1>6, <1>7 DEF r

\* The types the ordering arguments need.
LEMMA QNat ==
  ASSUME QTypeOK
  PROVE  /\ queue \in Seq(Nat) /\ added \in Nat
         /\ \A k \in DOMAIN queue : queue[k] \in Items
         /\ \A i \in Items : i \in Nat /\ i >= 1
         /\ MaxAdds \in Nat
  BY BoundsAssumption DEF QTypeOK, Items

\* The queue stays increasing and the loop's item stays below it.
LEMMA QOrderStep ==
  ASSUME QInv, QStep
  PROVE  QueueOrdered' /\ LoopOrdered'
  <1>0. /\ QTypeOK /\ SizeCounts /\ LoopOrdered
        /\ queue \in Seq(Nat) /\ added \in Nat /\ Increasing(queue, added)
    BY QNat DEF QInv, Increasing, QueueOrdered
  <1>1. CASE Enqueue
    <2>1. /\ queue' = Append(queue, added + 1)
          /\ added' = added + 1 /\ pc' = pc /\ toAdd' = toAdd
      BY <1>1 DEF Enqueue
    <2>2. Increasing(queue', added')
      BY <1>0, <2>1, IncreasingAppend
    <2>3. \A k \in DOMAIN queue' : \/ k \in DOMAIN queue /\ queue'[k] = queue[k]
                                   \/ queue'[k] = added + 1
      BY <1>0, <2>1
    <2>4. ASSUME pc = "spawn"
          PROVE  toAdd \in 1 .. (added + 1) /\ \A k \in DOMAIN queue' : toAdd <= queue'[k]
      BY <1>0, <2>3, <2>4 DEF LoopOrdered
    <2> QED  BY <2>1, <2>2, <2>4 DEF Increasing, QueueOrdered, LoopOrdered
  <1>2. CASE Flush
    <2>1. queue' = <<>> /\ UNCHANGED <<added, pc, toAdd>>
      BY <1>2 DEF Flush
    <2> QED  BY <1>0, <2>1 DEF QueueOrdered, LoopOrdered
  <1>3. CASE ReadHead
    <2>1. queue # <<>> /\ toAdd' = queue[1] /\ queue' = queue /\ added' = added
      BY <1>0, <1>3 DEF ReadHead, SizeCounts, Alive
    <2>2. \A k \in DOMAIN queue : queue[1] <= queue[k]
      BY <1>0, <2>1, IncreasingTail
    <2>3. queue[1] \in Nat /\ queue[1] <= added
      BY <1>0, <2>1, IncreasingTail
    <2>4. queue[1] >= 1
      BY <1>0, <2>1, QNat
    <2> QED  BY <1>0, <2>1, <2>2, <2>3, <2>4 DEF QueueOrdered, LoopOrdered, Increasing
  <1>4. CASE PopUnchecked \/ Pop
    <2>1. added' = added
      BY <1>4 DEF PopUnchecked, Pop
    <2>2. \/ queue' = Tail(queue) /\ queue # <<>> /\ pc' = "read"
          \/ queue' = queue /\ pc' # "spawn"
      BY <1>0, <1>4 DEF PopUnchecked, Pop, SizeCounts, Alive
    <2>3. Increasing(queue', added')
      BY <1>0, <2>1, <2>2, IncreasingTail
    <2> QED  BY <2>2, <2>3 DEF QueueOrdered, LoopOrdered, Increasing
  <1>5. CASE ~(Enqueue \/ Flush \/ ReadHead \/ PopUnchecked \/ Pop)
    <2>1. UNCHANGED <<queue, added, pc, toAdd>>
      BY <1>5 DEF QStep, StopRunning, StopReturn, ReadEmpty, qvars, SpawnSender,
                  Take, Send, SenderQuit
    <2> QED  BY <1>0, <2>1 DEF QueueOrdered, LoopOrdered, Increasing
  <1> QED  BY <1>1, <1>2, <1>3, <1>4, <1>5

(***************************************************************************)
(* What subscribers are handed.                                            *)
(***************************************************************************)

\* Steps that touch neither the goroutines nor the channels.
LEMMA HandedQuietStep ==
  ASSUME QInv, QStep, UNCHANGED <<senders, chan, taken>>
  PROVE  HandedOrdered' /\ HandedOnce'
  <1>0. /\ QTypeOK /\ SizeCounts /\ LoopOrdered /\ HandedOrdered /\ HandedOnce
        /\ queue \in Seq(Nat) /\ added \in Nat /\ Increasing(queue, added)
        /\ \A i \in Items : i \in Nat /\ i >= 1
    BY QNat DEF QInv, Increasing, QueueOrdered
  <1>1. \A s \in Subs : Got(s)' = Got(s)
    BY DEF Got
  <1>2. \A s \in Subs, i \in Items : Handed(s, i)' <=> Handed(s, i)
    BY <1>1 DEF Handed, InGot
  <1>3. HandedOnce'
    BY <1>0, <1>1 DEF HandedOnce, InGot
  <1>4. SUFFICES ASSUME NEW s \in Subs, NEW i \in Items, Handed(s, i)
                 PROVE  /\ i <= added'
                        /\ pc' = "spawn" => i <= toAdd' /\ (i = toAdd' => s \notin todo')
                        /\ pc' # "spawn" => \A k \in DOMAIN queue' : i < queue'[k]
    BY <1>2, <1>3 DEF HandedOrdered
  <1>5. /\ i <= added /\ i \in Nat
        /\ pc = "spawn" => i <= toAdd /\ (i = toAdd => s \notin todo)
        /\ pc # "spawn" => \A k \in DOMAIN queue : i < queue[k]
    BY <1>0, <1>4 DEF HandedOrdered
  <1>6. CASE Enqueue
    <2>1. /\ queue' = Append(queue, added + 1) /\ added' = added + 1
          /\ UNCHANGED <<pc, toAdd, todo>>
      BY <1>6 DEF Enqueue
    <2>2. \A k \in DOMAIN queue' : \/ k \in DOMAIN queue /\ queue'[k] = queue[k]
                                   \/ queue'[k] = added + 1
      BY <1>0, <2>1
    <2> QED  BY <1>0, <1>5, <2>1, <2>2
  <1>7. CASE Flush
    BY <1>5, <1>7 DEF Flush
  <1>8. CASE ReadHead
    <2>1. /\ queue # <<>> /\ toAdd' = queue[1] /\ queue' = queue /\ added' = added
          /\ pc = "read" /\ pc' = "spawn"
      BY <1>0, <1>8 DEF ReadHead, SizeCounts, Alive
    <2>2. i < queue[1] /\ queue[1] \in Nat
      BY <1>0, <1>5, <2>1
    <2> QED  BY <1>5, <2>1, <2>2
  <1>9. CASE PopUnchecked \/ Pop
    <2>1. pc = "spawn" /\ added' = added /\ pc' # "spawn"
      BY <1>9 DEF PopUnchecked, Pop
    <2>2. \/ queue' = Tail(queue) /\ queue # <<>>
          \/ queue' = <<>>
      BY <1>0, <1>9, <2>1 DEF PopUnchecked, Pop, SizeCounts, Alive
    <2>3. CASE queue' = Tail(queue) /\ queue # <<>>
      <3>1. queue[1] \in Nat /\ \A k \in DOMAIN queue' : queue[1] < queue'[k]
        BY <1>0, <2>3, IncreasingTail
      <3>2. toAdd <= queue[1] /\ toAdd \in Nat
        BY <1>0, <2>1, <2>3 DEF LoopOrdered
      <3>3. i <= queue[1]
        BY <1>5, <2>1, <3>1, <3>2
      <3>4. \A k \in DOMAIN queue' : queue'[k] \in Nat
        BY <1>0, <2>3
      <3> QED  BY <1>5, <2>1, <3>1, <3>3, <3>4
    <2>4. CASE queue' = <<>>
      BY <1>5, <2>1, <2>4
    <2> QED  BY <2>2, <2>3, <2>4
  <1>10. CASE ~(Enqueue \/ Flush \/ ReadHead \/ PopUnchecked \/ Pop)
    <2>1. UNCHANGED <<queue, added, pc, toAdd>> /\ todo' \subseteq todo
      BY <1>0, <1>10 DEF QStep, StopRunning, StopReturn, ReadEmpty, qvars, SpawnSender,
                   Take, Send, SenderQuit, QTypeOK
    <2> QED  BY <1>5, <2>1
  <1> QED  BY <1>6, <1>7, <1>8, <1>9, <1>10

\* The loop hands an item to a subscriber that was not handed it before.
LEMMA HandedSpawnStep ==
  ASSUME QInv, NEW s \in Subs, SpawnSender(s)
  PROVE  HandedOrdered' /\ HandedOnce'
  <1>0. /\ QTypeOK /\ LoopOrdered /\ HandedOrdered /\ HandedOnce /\ added \in Nat
        /\ \A i \in Items : i \in Nat
    BY QNat DEF QInv
  <1>1. /\ pc = "spawn" /\ s \in todo /\ todo' = todo \ {s}
        /\ UNCHANGED <<queue, added, pc, toAdd, chan, taken>>
    BY DEF SpawnSender
  <1>2. toAdd \in Items /\ toAdd <= added
    BY <1>0, <1>1 DEF LoopOrdered, QTypeOK
  <1>3. \A r \in Subs, i \in Items :
          senders'[r][i] = IF r = s /\ i = toAdd THEN senders[r][i] + 1 ELSE senders[r][i]
    BY <1>0, <1>2 DEF SpawnSender, QTypeOK
  <1>4. \A r \in Subs : Got(r)' = Got(r)
    BY <1>1 DEF Got
  <1>5. ~Handed(s, toAdd)
    BY <1>0, <1>1, <1>2 DEF HandedOrdered
  <1>6. senders[s][toAdd] = 0 /\ ~InGot(s, toAdd)
    BY <1>0, <1>2, <1>5 DEF Handed, QTypeOK
  <1>7. \A r \in Subs, i \in Items :
          Handed(r, i)' => Handed(r, i) \/ (r = s /\ i = toAdd)
    BY <1>3, <1>4 DEF Handed, InGot
  <1>8. HandedOrdered'
    BY <1>0, <1>1, <1>2, <1>7 DEF HandedOrdered
  <1>9. HandedOnce'
    <2>1. \A r \in Subs, i \in Items : InGot(r, i)' <=> InGot(r, i)
      BY <1>4 DEF InGot
    <2>2. \A r \in Subs, i \in Items : senders'[r][i] <= 1
      BY <1>0, <1>3, <1>6 DEF HandedOnce
    <2>3. \A r \in Subs, i \in Items : InGot(r, i)' => senders'[r][i] = 0
      BY <1>0, <1>3, <1>6, <2>1 DEF HandedOnce
    <2> QED  BY <1>0, <1>4, <2>2, <2>3 DEF HandedOnce
  <1> QED  BY <1>8, <1>9

\* A goroutine's send moves the item from the goroutine to the channel.
LEMMA HandedSendStep ==
  ASSUME QInv, NEW s \in Subs, NEW i \in Items, Send(s, i)
  PROVE  HandedOrdered' /\ HandedOnce'
  <1>0. QTypeOK /\ HandedOrdered /\ HandedOnce
    BY DEF QInv
  <1>1. senders[s][i] = 1 /\ ~InGot(s, i)
    BY <1>0 DEF Send, HandedOnce, QTypeOK
  <1>2. \A r \in Subs, x \in Items :
          senders'[r][x] = IF r = s /\ x = i THEN 0 ELSE senders[r][x]
    BY <1>0, <1>1 DEF Send, QTypeOK
  <1>3. \A r \in Subs : Got(r) \in Seq(Items)
    BY <1>0, GotType
  <1>4. \A r \in Subs : Got(r)' = IF r = s THEN Append(Got(r), i) ELSE Got(r)
    BY <1>0, SendGot
  <1>5. /\ \A k \in DOMAIN Got(s) : Got(s)[k] # i
        /\ Len(Got(s)) \in Nat /\ DOMAIN Got(s) = 1 .. Len(Got(s))
        /\ DOMAIN (Got(s)') = 1 .. (Len(Got(s)) + 1)
        /\ \A k \in DOMAIN Got(s) : Got(s)'[k] = Got(s)[k]
        /\ Got(s)'[Len(Got(s)) + 1] = i
    BY <1>1, <1>3, <1>4 DEF InGot
  <1>6. \A r \in Subs, x \in Items : InGot(r, x)' <=> InGot(r, x) \/ (r = s /\ x = i)
    BY <1>4, <1>5 DEF InGot
  <1>7. \A r \in Subs, x \in Items : Handed(r, x)' => Handed(r, x)
    BY <1>1, <1>2, <1>6 DEF Handed
  <1>8. HandedOrdered'
    BY <1>0, <1>7 DEF HandedOrdered, Send
  <1>9. \A r \in Subs : \A j, k \in DOMAIN (Got(r)') : Got(r)'[j] = Got(r)'[k] => j = k
    <2>1. \A r \in Subs : r # s => Got(r)' = Got(r)
      BY <1>4
    <2>2. \A j, k \in DOMAIN (Got(s)') : Got(s)'[j] = Got(s)'[k] => j = k
      BY <1>0, <1>5 DEF HandedOnce
    <2> QED  BY <1>0, <2>1, <2>2 DEF HandedOnce
  <1>10. \A r \in Subs, x \in Items :
           senders'[r][x] <= 1 /\ (InGot(r, x)' => senders'[r][x] = 0)
    BY <1>0, <1>2, <1>6 DEF HandedOnce
  <1> QED  BY <1>8, <1>9, <1>10 DEF HandedOnce

\* A goroutine that sees the quit channel closed drops its item.
LEMMA HandedQuitStep ==
  ASSUME QInv, NEW s \in Subs, NEW i \in Items, SenderQuit(s, i)
  PROVE  HandedOrdered' /\ HandedOnce'
  <1>0. QTypeOK /\ HandedOrdered /\ HandedOnce
    BY DEF QInv
  <1>1. senders[s][i] = 1
    BY <1>0 DEF SenderQuit, HandedOnce, QTypeOK
  <1>2. \A r \in Subs, x \in Items :
          senders'[r][x] = IF r = s /\ x = i THEN 0 ELSE senders[r][x]
    BY <1>0, <1>1 DEF SenderQuit, QTypeOK
  <1>3. \A r \in Subs : Got(r)' = Got(r)
    BY DEF SenderQuit, Got
  <1>4. \A r \in Subs, x \in Items :
          (InGot(r, x)' <=> InGot(r, x)) /\ (Handed(r, x)' => Handed(r, x))
    BY <1>2, <1>3 DEF InGot, Handed
  <1>5. HandedOrdered'
    BY <1>0, <1>4 DEF HandedOrdered, SenderQuit
  <1>6. \A r \in Subs, x \in Items :
          senders'[r][x] <= 1 /\ (InGot(r, x)' => senders'[r][x] = 0)
    BY <1>0, <1>2, <1>4 DEF HandedOnce
  <1> QED  BY <1>0, <1>3, <1>5, <1>6 DEF HandedOnce

\* Receiving changes nothing of what was handed out.
LEMMA HandedTakeStep ==
  ASSUME QInv, NEW s \in Subs, Take(s)
  PROVE  HandedOrdered' /\ HandedOnce'
  <1>0. QTypeOK /\ HandedOrdered /\ HandedOnce
    BY DEF QInv
  <1>1. UNCHANGED <<queue, added, pc, toAdd, todo, senders>>
    BY DEF Take
  <1>2. \A r \in Subs : Got(r)' = Got(r)
    BY <1>0, TakeGot
  <1>3. \A r \in Subs, x \in Items :
          (InGot(r, x)' <=> InGot(r, x)) /\ (Handed(r, x)' <=> Handed(r, x))
    BY <1>1, <1>2 DEF InGot, Handed
  <1> QED  BY <1>0, <1>1, <1>2, <1>3 DEF HandedOrdered, HandedOnce

(***************************************************************************)
(* The invariant, and what it gives.                                       *)
(***************************************************************************)

\* Every step of a queue, its loop, its senders and its users keeps QInv.
LEMMA QInvStep == QInv /\ QStep => QInv'
  <1> SUFFICES ASSUME QInv, QStep PROVE QInv'
    OBVIOUS
  <1>1. QTypeOK' /\ SizeCounts'
    BY QTypeStep DEF QInv
  <1>2. QueueOrdered' /\ LoopOrdered'
    BY QOrderStep
  <1>3. CASE Enqueue \/ Flush \/ StopRunning \/ StopReturn \/ ReadHead \/ ReadEmpty
             \/ PopUnchecked \/ Pop
    <2>1. UNCHANGED <<senders, chan, taken>>
      BY <1>3 DEF Enqueue, Flush, StopRunning, StopReturn, ReadHead, ReadEmpty,
                  PopUnchecked, Pop, qvars
    <2> QED  BY <1>1, <1>2, <2>1, HandedQuietStep DEF QInv
  <1>4. CASE \E s \in Subs : SpawnSender(s)
    BY <1>1, <1>2, <1>4, HandedSpawnStep DEF QInv
  <1>5. CASE \E s \in Subs : Take(s)
    BY <1>1, <1>2, <1>5, HandedTakeStep DEF QInv
  <1>6. CASE \E s \in Subs, i \in Items : Send(s, i) \/ SenderQuit(s, i)
    BY <1>1, <1>2, <1>6, HandedSendStep, HandedQuitStep DEF QInv
  <1> QED  BY <1>3, <1>4, <1>5, <1>6 DEF QStep

\* A step that leaves the queue's variables alone keeps QInv.
LEMMA QInvStutter == QInv /\ UNCHANGED qvars => QInv'
  <1> SUFFICES ASSUME QInv, UNCHANGED qvars PROVE QInv'
    OBVIOUS
  <1>1. QTypeOK'
    BY DEF QInv, qvars, QTypeOK
  <1>2. SizeCounts' /\ QueueOrdered' /\ LoopOrdered'
    BY DEF QInv, qvars, SizeCounts, QueueOrdered, LoopOrdered, Alive
  <1>3. \A s \in Subs : Got(s)' = Got(s)
    BY DEF qvars, Got
  <1>4. \A s \in Subs, i \in Items :
          (InGot(s, i)' <=> InGot(s, i)) /\ (Handed(s, i)' <=> Handed(s, i))
    BY <1>3 DEF InGot, Handed, qvars
  <1>5. HandedOrdered'
    BY <1>4 DEF QInv, HandedOrdered, qvars
  <1>6. HandedOnce'
    BY <1>3, <1>4 DEF QInv, HandedOnce, qvars
  <1> QED  BY <1>1, <1>2, <1>5, <1>6 DEF QInv

\* The ordering is what makes a subscriber see an item at most once.
LEMMA QInvAtMostOnce == QInv => AtMostOnce
  <1> SUFFICES ASSUME QInv, NEW s \in Subs, NEW i \in Items
               PROVE  /\ Handed(s, i) => ~Waiting(s, i)
                      /\ senders[s][i] \in Nat
    BY DEF QInv, AtMostOnce, HandedOnce, Handed
  <1>1. QTypeOK /\ LoopOrdered /\ HandedOrdered
        /\ i \in Nat /\ \A k \in DOMAIN queue : queue[k] \in Nat
    BY QNat DEF QInv
  <1>2. ASSUME Handed(s, i), Waiting(s, i) PROVE FALSE
    <2>1. CASE pc = "spawn"
      <3>1. i <= toAdd /\ (i = toAdd => s \notin todo)
        BY <1>1, <1>2, <2>1 DEF HandedOrdered
      <3>2. toAdd \in Nat /\ \A k \in DOMAIN queue : toAdd <= queue[k]
        BY <1>1, <2>1 DEF LoopOrdered
      <3> QED  BY <1>1, <1>2, <2>1, <3>1, <3>2 DEF Waiting
    <2>2. CASE pc # "spawn"
      <3>1. \A k \in DOMAIN queue : i < queue[k]
        BY <1>1, <1>2, <2>2 DEF HandedOrdered
      <3> QED  BY <1>1, <1>2, <2>2, <3>1 DEF Waiting
    <2> QED  BY <2>1, <2>2
  <1> QED  BY <1>1, <1>2 DEF QTypeOK

(***************************************************************************)
(* The promise made to subscribers.  An item is pending for a subscriber   *)
(* while the loop or a goroutine still has to hand it over.  Two more      *)
(* facts are needed: as long as nobody flushed, the loop works on the head *)
(* of the queue (so its second critical section removes the item it handed *)
(* out), and the quit channel is closed only by Stop.                      *)
(***************************************************************************)
Pending(s) == {i \in Items : Waiting(s, i) \/ senders[s][i] > 0}

LoopHead == pc = "spawn" /\ flushes = 0 => queue # <<>> /\ queue[1] = toAdd

StopAllowed == Quit => MayStop

PInv == QInv /\ LoopHead /\ StopAllowed

\* PInv holds initially.
LEMMA PInitInv == QInit => PInv
  BY QInitInv DEF PInv, LoopHead, StopAllowed, QInit, Quit

\* PInv is kept by every step.
LEMMA PInvStep ==
  ASSUME PInv, QStep
  PROVE  PInv'
  <1>1. QInv'
    BY QInvStep DEF PInv
  <1>2. QTypeOK /\ SizeCounts /\ LoopHead /\ StopAllowed
    BY DEF PInv, QInv
  <1>3. StopAllowed'
    BY <1>2 DEF StopAllowed, Quit, QStep, Enqueue, Flush, StopRunning, StopReturn, ReadHead,
         ReadEmpty, qvars, SpawnSender, PopUnchecked, Pop, Take, Send, SenderQuit
  <1>4. LoopHead'
    <2>1. CASE Enqueue
      <3>1. /\ queue' = Append(queue, added + 1) /\ UNCHANGED <<pc, flushes, toAdd>>
            /\ queue \in Seq(Items) /\ added + 1 \in Int
        BY <1>2, <2>1, BoundsAssumption DEF Enqueue, QTypeOK
      <3>2. queue # <<>> => queue' # <<>> /\ queue'[1] = queue[1]
        BY <3>1
      <3> QED  BY <1>2, <3>1, <3>2 DEF LoopHead
    <2>2. CASE Flush
      BY <1>2, <2>2, BoundsAssumption DEF Flush, LoopHead, QTypeOK
    <2>3. CASE ReadHead
      BY <1>2, <2>3 DEF ReadHead, LoopHead, SizeCounts, Alive, QTypeOK
    <2>4. CASE PopUnchecked \/ Pop
      BY <2>4 DEF PopUnchecked, Pop, LoopHead
    <2>5. CASE ~(Enqueue \/ Flush \/ ReadHead \/ PopUnchecked \/ Pop)
      <3>1. UNCHANGED <<queue, pc, toAdd, flushes>>
        BY <2>5 DEF QStep, StopRunning, StopReturn, ReadEmpty, qvars, SpawnSender,
                    Take, Send, SenderQuit
      <3> QED  BY <1>2, <3>1 DEF LoopHead
    <2> QED  BY <2>1, <2>2, <2>3, <2>4, <2>5
  <1> QED  BY <1>1, <1>3, <1>4 DEF PInv

\* A step that leaves the queue's variables alone keeps PInv.
LEMMA PInvStutter == PInv /\ UNCHANGED qvars => PInv'
  <1> SUFFICES ASSUME PInv, UNCHANGED qvars PROVE PInv'
    OBVIOUS
  <1>1. QInv'
    BY QInvStutter DEF PInv
  <1> QED  BY <1>1 DEF PInv, LoopHead, StopAllowed, Quit, qvars

\* Between two critical sections the loop passes an item on: nothing that is
\* pending is lost and nothing becomes pending.
LEMMA PendingQuiet ==
  ASSUME PInv,
         ReadHead \/ (\E s \in Subs : SpawnSender(s) \/ Take(s))
           \/ StopRunning \/ StopReturn \/ UNCHANGED qvars
  PROVE  \A s \in Subs : Pending(s)' = Pending(s) /\ Got(s)' = Got(s)
  <1> SUFFICES ASSUME NEW r \in Subs
               PROVE  /\ \A i \in Items : (Waiting(r, i) \/ senders[r][i] > 0)'
                                            <=> (Waiting(r, i) \/ senders[r][i] > 0)
                      /\ Got(r)' = Got(r)
    BY DEF Pending
  <1>0. QTypeOK /\ SizeCounts /\ LoopOrdered /\ HandedOnce /\ DOMAIN queue = 1 .. Len(queue)
    BY DEF PInv, QInv, QTypeOK
  <1>1. CASE ReadHead
    <2>1. /\ pc = "read" /\ pc' = "spawn" /\ toAdd' = queue[1] /\ todo' = Subs
          /\ 1 \in DOMAIN queue /\ UNCHANGED <<queue, senders, chan, taken>>
      BY <1>0, <1>1 DEF ReadHead, SizeCounts, Alive, QTypeOK
    <2> QED  BY <2>1 DEF Waiting, Got
  <1>2. CASE \E s \in Subs : SpawnSender(s)
    <2> PICK s \in Subs : SpawnSender(s)
      BY <1>2
    <2>1. /\ pc = "spawn" /\ s \in todo /\ todo' = todo \ {s} /\ toAdd \in Items
          /\ UNCHANGED <<queue, pc, toAdd, chan, taken>>
      BY <1>0 DEF SpawnSender, LoopOrdered, QTypeOK
    <2>2. \A i \in Items :
            senders'[r][i] = IF r = s /\ i = toAdd THEN senders[r][i] + 1 ELSE senders[r][i]
      BY <1>0, <2>1 DEF SpawnSender, QTypeOK
    <2>3. \A i \in Items : senders[r][i] \in Nat
      BY <1>0 DEF QTypeOK
    <2>4. ASSUME NEW i \in Items
          PROVE  (Waiting(r, i) \/ senders[r][i] > 0)' <=> (Waiting(r, i) \/ senders[r][i] > 0)
      <3>1. CASE r = s /\ i = toAdd
        BY <2>1, <2>2, <2>3, <3>1 DEF Waiting
      <3>2. CASE ~(r = s /\ i = toAdd)
        BY <2>1, <2>2, <3>2 DEF Waiting
      <3> QED  BY <3>1, <3>2
    <2> QED  BY <2>1, <2>4 DEF Got
  <1>3. CASE \E s \in Subs : Take(s)
    <2>1. Got(r)' = Got(r)
      BY <1>0, <1>3, TakeGot
    <2> QED  BY <1>3, <2>1 DEF Take, Waiting
  <1>4. CASE StopRunning \/ StopReturn \/ UNCHANGED qvars
    BY <1>4 DEF StopRunning, StopReturn, qvars, Waiting, Got
  <1> QED  BY <1>1, <1>2, <1>3, <1>4

\* Add makes its item pending for every subscriber, the one the loop is
\* visiting included.
LEMMA PendingEnqueue ==
  ASSUME PInv, Enqueue
  PROVE  \A s \in Subs : Pending(s)' = Pending(s) \cup {added + 1} /\ Got(s)' = Got(s)
  <1>0. /\ QTypeOK /\ LoopOrdered /\ queue \in Seq(Nat) /\ added \in Nat
        /\ added + 1 \in Items
    BY QNat, BoundsAssumption DEF PInv, QInv, Enqueue, Items
  <1>1. /\ queue' = Append(queue, added + 1)
        /\ UNCHANGED <<pc, toAdd, todo, senders, chan, taken>>
    BY DEF Enqueue
  <1>2. \A i \in Items : (\E k \in DOMAIN queue' : queue'[k] = i)
                           <=> (\E k \in DOMAIN queue : queue[k] = i) \/ i = added + 1
    <2>1. /\ DOMAIN queue = 1 .. Len(queue) /\ Len(queue) \in Nat
          /\ DOMAIN queue' = 1 .. (Len(queue) + 1)
          /\ \A k \in 1 .. Len(queue) : queue'[k] = queue[k]
          /\ queue'[Len(queue) + 1] = added + 1
      BY <1>0, <1>1
    <2> QED  BY <2>1
  <1>3. pc = "spawn" => toAdd # added + 1
    BY <1>0 DEF LoopOrdered
  <1>4. \A s \in Subs, i \in Items : Waiting(s, i)' <=> Waiting(s, i) \/ i = added + 1
    <2> SUFFICES ASSUME NEW s \in Subs, NEW i \in Items
                 PROVE  Waiting(s, i)' <=> Waiting(s, i) \/ i = added + 1
      OBVIOUS
    <2>1. Waiting(s, i)' <=> \/ pc = "spawn" /\ i = toAdd /\ s \in todo
                             \/ /\ \E k \in DOMAIN queue' : queue'[k] = i
                                /\ ~(pc = "spawn" /\ i = toAdd)
      BY <1>1 DEF Waiting
    <2> QED  BY <1>2, <1>3, <2>1 DEF Waiting
  <1>5. \A s \in Subs : Pending(s)' = Pending(s) \cup {added + 1}
    <2> SUFFICES ASSUME NEW s \in Subs
                 PROVE  \A i \in Items : (Waiting(s, i) \/ senders[s][i] > 0)'
                           <=> (Waiting(s, i) \/ senders[s][i] > 0) \/ i = added + 1
      BY <1>0 DEF Pending
    <2> QED  BY <1>1, <1>4
  <1> QED  BY <1>1, <1>5 DEF Got

\* Flush loses what is in the queue, and gives nobody anything.
LEMMA PendingFlush ==
  ASSUME PInv, Flush
  PROVE  \A s \in Subs : Pending(s)' \subseteq Pending(s) /\ Got(s)' = Got(s)
  BY DEF Flush, Pending, Waiting, Got

\* A goroutine that quits loses its item, and gives nobody anything.
LEMMA PendingQuit ==
  ASSUME PInv, NEW s \in Subs, NEW i \in Items, SenderQuit(s, i)
  PROVE  \A r \in Subs : Pending(r)' \subseteq Pending(r) /\ Got(r)' = Got(r)
  <1>1. \A r \in Subs, x \in Items : senders'[r][x] > 0 => senders[r][x] > 0
    BY DEF SenderQuit, PInv, QInv, QTypeOK
  <1>2. \A r \in Subs, x \in Items : Waiting(r, x)' <=> Waiting(r, x)
    BY DEF SenderQuit, Waiting
  <1> QED  BY <1>1, <1>2 DEF SenderQuit, Pending, Got

\* A goroutine that sends moves its item from the subscriber's pending items
\* to its channel; the loop does not have it to hand out again.
LEMMA PendingSend ==
  ASSUME PInv, NEW s \in Subs, NEW i \in Items, Send(s, i)
  PROVE  /\ i \in Pending(s)
         /\ \A r \in Subs : Pending(r)' = IF r = s THEN Pending(r) \ {i} ELSE Pending(r)
         /\ \A r \in Subs : Got(r)' = IF r = s THEN Append(Got(r), i) ELSE Got(r)
  <1>0. QTypeOK /\ AtMostOnce
    BY QInvAtMostOnce DEF PInv, QInv
  <1>1. senders[s][i] = 1 /\ ~Waiting(s, i)
    BY <1>0 DEF Send, AtMostOnce, QTypeOK
  <1>2. \A r \in Subs, x \in Items :
          senders'[r][x] = IF r = s /\ x = i THEN 0 ELSE senders[r][x]
    BY <1>0, <1>1 DEF Send, QTypeOK
  <1>3. \A r \in Subs, x \in Items : Waiting(r, x)' <=> Waiting(r, x)
    BY DEF Send, Waiting
  <1>4. \A r \in Subs : Pending(r)' = IF r = s THEN Pending(r) \ {i} ELSE Pending(r)
    <2> SUFFICES ASSUME NEW r \in Subs, NEW x \in Items
                 PROVE  (Waiting(r, x) \/ senders[r][x] > 0)'
                          <=> (Waiting(r, x) \/ senders[r][x] > 0) /\ ~(r = s /\ x = i)
      BY DEF Pending
    <2> QED  BY <1>1, <1>2, <1>3
  <1>5. \A r \in Subs : Got(r)' = IF r = s THEN Append(Got(r), i) ELSE Got(r)
    BY <1>0, SendGot
  <1> QED  BY <1>1, <1>4, <1>5 DEF Pending

\* The second critical section removes what was handed out; it loses an item
\* nobody was handed only if Flush ran since the first one.
LEMMA PendingPop ==
  ASSUME PInv, PopUnchecked \/ Pop
  PROVE  /\ \A s \in Subs : Pending(s)' \subseteq Pending(s) /\ Got(s)' = Got(s)
         /\ flushes = 0 => \A s \in Subs : Pending(s)' = Pending(s)
  <1>0. /\ QTypeOK /\ SizeCounts /\ LoopOrdered /\ queue \in Seq(Nat) /\ added \in Nat
        /\ Increasing(queue, added) /\ LoopHead
    BY QNat DEF PInv, QInv, Increasing, QueueOrdered
  <1>1. /\ pc = "spawn" /\ todo = {} /\ pc' # "spawn"
        /\ UNCHANGED <<todo, senders, chan, taken>>
    BY DEF PopUnchecked, Pop
  <1>2. \/ queue' = Tail(queue) /\ queue # <<>>
        \/ queue' = queue /\ queue = <<>>
    BY <1>0, <1>1 DEF PopUnchecked, Pop, SizeCounts, Alive
  <1>3. \A s \in Subs, i \in Items :
          /\ Waiting(s, i) <=> (\E k \in DOMAIN queue : queue[k] = i) /\ i # toAdd
          /\ Waiting(s, i)' <=> (\E k \in DOMAIN queue' : queue'[k] = i)
    BY <1>1 DEF Waiting
  <1>4. CASE queue' = Tail(queue) /\ queue # <<>>
    <2>1. /\ DOMAIN queue' = 1 .. (Len(queue) - 1)
          /\ DOMAIN queue = 1 .. Len(queue) /\ Len(queue) \in Nat \ {0}
          /\ \A k \in 1 .. (Len(queue) - 1) : queue'[k] = queue[k + 1]
      BY <1>0, <1>4
    <2>2. \A k \in DOMAIN queue' : queue[1] < queue'[k] /\ queue'[k] \in Nat
      BY <1>0, <1>4, <2>1, IncreasingTail
    <2>3. queue[1] \in Nat /\ toAdd \in Nat /\ toAdd <= queue[1]
      BY <1>0, <1>1, <2>1 DEF LoopOrdered
    <2>4. \A i : (\E k \in DOMAIN queue' : queue'[k] = i) =>
                   (\E k \in DOMAIN queue : queue[k] = i) /\ i # toAdd
      <3>1. \A k \in DOMAIN queue' : queue'[k] # toAdd
        BY <2>2, <2>3
      <3> QED  BY <2>1, <3>1
    <2>5. \A s \in Subs : Pending(s)' \subseteq Pending(s)
      BY <1>1, <1>3, <2>4 DEF Pending
    <2>6. ASSUME flushes = 0, NEW s \in Subs PROVE Pending(s)' = Pending(s)
      <3>1. toAdd = queue[1]
        BY <1>0, <1>1, <2>6 DEF LoopHead
      <3>2. \A i : (\E k \in DOMAIN queue : queue[k] = i) /\ i # toAdd
                     => \E k \in DOMAIN queue' : queue'[k] = i
        <4> SUFFICES ASSUME NEW k \in DOMAIN queue, queue[k] # queue[1]
                     PROVE  \E j \in DOMAIN queue' : queue'[j] = queue[k]
          BY <3>1
        <4>1. k - 1 \in DOMAIN queue' /\ queue'[k - 1] = queue[k]
          BY <2>1
        <4> QED  BY <4>1
      <3> QED  BY <1>1, <1>3, <2>4, <3>2 DEF Pending
    <2> QED  BY <1>1, <2>5, <2>6 DEF Got
  <1>5. CASE queue' = queue /\ queue = <<>>
    <2>1. \A s \in Subs, i \in Items : ~Waiting(s, i) /\ ~Waiting(s, i)'
      BY <1>3, <1>5
    <2> QED  BY <1>1, <2>1 DEF Pending, Got
  <1> QED  BY <1>2, <1>4, <1>5

\* Every step of a queue is a step of the promise or leaves it as it is.
LEMMA PromiseStep ==
  ASSUME PInv, QStep \/ UNCHANGED qvars
  PROVE  [Promise!MNext]_Promise!mvars
  <1> DEFINE pend == [s \in Subs |-> {i \in Items : Waiting(s, i) \/ senders[s][i] > 0}]
             gots == [s \in Subs |-> Got(s)]
  <1>0. /\ pend = [s \in Subs |-> Pending(s)] /\ pend' = [s \in Subs |-> Pending(s)']
        /\ gots' = [s \in Subs |-> Got(s)'] /\ gots = [s \in Subs |-> Got(s)]
    BY DEF Pending
  <1>1. ASSUME added' = added, pend' = pend, gots' = gots
        PROVE  UNCHANGED Promise!mvars
    BY <1>1 DEF Promise!mvars
  <1>2. ASSUME MaxFlushes > 0 \/ MayStop, added' = added, gots' = gots,
               \A s \in Subs : Pending(s)' \subseteq Pending(s)
        PROVE  Promise!MNext
    <2>1. \A s \in Subs : pend'[s] \subseteq pend[s]
      BY <1>0, <1>2
    <2>2. DOMAIN pend' = Subs
      BY <1>0
    <2> QED  BY <1>2, <2>1, <2>2 DEF Promise!MNext, Promise!Discard
  <1> HIDE DEF pend, gots
  <1>3. CASE ReadHead \/ (\E s \in Subs : SpawnSender(s) \/ Take(s))
               \/ StopRunning \/ StopReturn \/ ReadEmpty \/ UNCHANGED qvars
    <2>1. \A s \in Subs : Pending(s)' = Pending(s) /\ Got(s)' = Got(s)
      BY <1>3, PendingQuiet DEF ReadEmpty
    <2>2. added' = added
      BY <1>3 DEF ReadHead, SpawnSender, Take, StopRunning, StopReturn, ReadEmpty, qvars
    <2>3. pend' = pend /\ gots' = gots
      BY <1>0, <2>1
    <2> QED  BY <1>1, <2>2, <2>3
  <1>4. CASE Enqueue
    <2>1. /\ added' = added + 1
          /\ \A s \in Subs : Pending(s)' = Pending(s) \cup {added + 1} /\ Got(s)' = Got(s)
      BY <1>4, PendingEnqueue DEF Enqueue
    <2>2. pend' = [s \in Subs |-> pend[s] \cup {added + 1}]
      BY <1>0, <2>1
    <2>3. gots' = gots
      BY <1>0, <2>1
    <2> QED  BY <2>1, <2>2, <2>3 DEF Promise!MNext, Promise!Publish, pend, gots
  <1>5. CASE Flush
    <2>1. \A s \in Subs : Pending(s)' \subseteq Pending(s) /\ Got(s)' = Got(s)
      BY <1>5, PendingFlush
    <2>2. MaxFlushes > 0 /\ added' = added
      BY <1>5, BoundsAssumption DEF Flush, PInv, QInv, QTypeOK
    <2>3. gots' = gots
      BY <1>0, <2>1
    <2> QED  BY <1>2, <2>1, <2>2, <2>3
  <1>6. CASE PopUnchecked \/ Pop
    <2>1. /\ \A s \in Subs : Pending(s)' \subseteq Pending(s) /\ Got(s)' = Got(s)
          /\ flushes = 0 => \A s \in Subs : Pending(s)' = Pending(s)
      BY <1>6, PendingPop
    <2>2. added' = added /\ gots' = gots
      BY <1>0, <1>6, <2>1 DEF PopUnchecked, Pop
    <2>3. CASE flushes = 0
      <3>1. pend' = pend
        BY <1>0, <2>1, <2>3
      <3> QED  BY <1>1, <2>2, <3>1
    <2>4. CASE flushes # 0
      <3>1. MaxFlushes > 0
        BY <2>4, BoundsAssumption DEF PInv, QInv, QTypeOK
      <3> QED  BY <1>2, <2>1, <2>2, <3>1
    <2> QED  BY <2>3, <2>4
  <1>7. CASE \E s \in Subs, i \in Items : Send(s, i)
    <2> PICK s \in Subs, i \in Items : Send(s, i)
      BY <1>7
    <2>1. /\ i \in Pending(s)
          /\ \A r \in Subs : Pending(r)' = IF r = s THEN Pending(r) \ {i} ELSE Pending(r)
          /\ \A r \in Subs : Got(r)' = IF r = s THEN Append(Got(r), i) ELSE Got(r)
      BY PendingSend
    <2>2. added' = added
      BY DEF Send
    <2>3. i \in pend[s]
      BY <1>0, <2>1
    <2>4. pend' = [pend EXCEPT ![s] = pend[s] \ {i}]
      BY <1>0, <2>1
    <2>5. gots' = [gots EXCEPT ![s] = Append(gots[s], i)]
      BY <1>0, <2>1
    <2>6. Promise!Deliver(s)
      BY <2>2, <2>3, <2>4, <2>5 DEF Promise!Deliver, pend, gots
    <2> QED  BY <2>6 DEF Promise!MNext
  <1>8. CASE \E s \in Subs, i \in Items : SenderQuit(s, i)
    <2>1. \A s \in Subs : Pending(s)' \subseteq Pending(s) /\ Got(s)' = Got(s)
      BY <1>8, PendingQuit
    <2>2. MayStop /\ added' = added
      BY <1>8 DEF SenderQuit, PInv, StopAllowed
    <2>3. gots' = gots
      BY <1>0, <2>1
    <2> QED  BY <1>2, <2>1, <2>2, <2>3
  <1> QED  BY <1>3, <1>4, <1>5, <1>6, <1>7, <1>8 DEF QStep

\* Nothing is pending or given when the queue is created.
LEMMA PromiseInit == QInit => Promise!MInit
  <1> SUFFICES ASSUME QInit PROVE Promise!MInit
    OBVIOUS
  <1>1. \A s \in Subs : {i \in Items : Waiting(s, i) \/ senders[s][i] > 0} = {}
    BY DEF QInit, Waiting
  <1>2. \A s \in Subs : Got(s) = <<>>
    BY DEF QInit, Got
  <1> QED  BY <1>1, <1>2 DEF Promise!MInit, QInit

(***************************************************************************)
(* types.EventQueue.                                                       *)
(***************************************************************************)

\* A step of the event queue is a step of the shared part.
LEMMA EventQueueStep == Event!Next => QStep
  BY DEF Event!Next, Event!Add, Event!dispatchloop, QStep,
         Event!Enqueue, Event!Flush, Event!StopRunning, Event!StopReturn,
         Event!ReadHead, Event!ReadEmpty, Event!SpawnSender, Event!PopUnchecked,
         Event!Take, Event!Send, Event!SenderQuit, Event!Alive, Event!Quit,
         Event!qvars, Event!Items,
         Enqueue, Flush, StopRunning, StopReturn, ReadHead, ReadEmpty, SpawnSender,
         PopUnchecked, Take, Send, SenderQuit, Alive, Quit, qvars, Items

\* PInv is an invariant of the event queue.
LEMMA EventQueueInv == Event!Spec => []PInv
  <1>1. Event!QInit => PInv
    BY PInitInv DEF Event!QInit, QInit, Event!Items, Items
  <1>2. PInv /\ [Event!Next]_Event!qvars => PInv'
    BY EventQueueStep, PInvStep, PInvStutter DEF Event!qvars, qvars
  <1> QED  BY <1>1, <1>2, PTL DEF Event!Spec

\* Type correctness of the event queue; in particular no goroutine overfills a
\* subscriber's channel.
THEOREM EventQueueTypes == Event!Spec => []QTypeOK
  <1>1. PInv => QTypeOK
    BY DEF PInv, QInv
  <1> QED  BY <1>1, EventQueueInv, PTL

\* However Add, Flush, Stop, the dispatch loop, its goroutines and the
\* subscribers interleave, no subscriber is handed an event twice.
THEOREM EventQueueAtMostOnce == Event!Spec => []AtMostOnce
  <1>1. PInv => AtMostOnce
    BY QInvAtMostOnce DEF PInv
  <1> QED  BY <1>1, EventQueueInv, PTL

\* The event queue implements the promise made to its subscribers: an event is
\* pending for each of them from the moment it is added, and leaves only into
\* the subscriber's channel, or, in a queue that is flushed or stopped, for good.
THEOREM EventQueuePromise == Event!Spec => KeepsPromise
  <1>1. Event!QInit => Promise!MInit
    BY PromiseInit DEF Event!QInit, QInit, Event!Items, Items
  <1>2. PInv /\ [Event!Next]_Event!qvars => [Promise!MNext]_Promise!mvars
    BY EventQueueStep, PromiseStep DEF Event!qvars, qvars
  <1> QED  BY <1>1, <1>2, EventQueueInv, PTL DEF Event!Spec, KeepsPromise, Promise!MSpec

(***************************************************************************)
(* types.MessageQueue.                                                     *)
(***************************************************************************)

\* The loop of MessageQueue, which uses Pop, cannot panic.
MQInv == PInv /\ Alive

\* A step of the message queue is a step of the shared part that is not
\* PopUnchecked, or leaves the queue alone.
LEMMA MessageQueueStep ==
  ASSUME [Next]_vars
  PROVE  (QStep /\ (Alive => Alive')) \/ UNCHANGED qvars
  <1>1. CASE Next /\ ~(UNCHANGED qvars)
    <2>1. \/ Enqueue \/ Flush \/ StopRunning \/ StopReturn \/ ReadHead \/ ReadEmpty
          \/ (\E s \in Subs : SpawnSender(s)) \/ Pop
          \/ (\E s \in Subs : Take(s))
          \/ (\E s \in Subs, i \in Items : Send(s, i) \/ SenderQuit(s, i))
      BY <1>1 DEF Next, Add, Disable, Enable, dispatchloop
    <2>2. Alive => Alive'
      BY <2>1 DEF Alive, Enqueue, Flush, StopRunning, StopReturn, ReadHead,
                  ReadEmpty, qvars, SpawnSender, Pop, Take, Send, SenderQuit
    <2> QED  BY <2>1, <2>2 DEF QStep
  <1>2. CASE UNCHANGED vars
    BY <1>2 DEF vars, qvars
  <1> QED  BY <1>1, <1>2

\* MQInv is an invariant of the message queue.
LEMMA MessageQueueInv == Spec => []MQInv
  <1>1. Init => MQInv
    BY PInitInv DEF Init, MQInv, QInit, Alive
  <1>2. MQInv /\ [Next]_vars => MQInv'
    <2> SUFFICES ASSUME MQInv, [Next]_vars PROVE MQInv'
      OBVIOUS
    <2>1. CASE UNCHANGED qvars
      <3>1. PInv'
        BY <2>1, PInvStutter DEF MQInv
      <3> QED  BY <2>1, <3>1 DEF MQInv, qvars, Alive
    <2>2. CASE QStep /\ (Alive => Alive')
      BY <2>2, PInvStep DEF MQInv
    <2> QED  BY <2>1, <2>2, MessageQueueStep
  <1> QED  BY <1>1, <1>2, PTL DEF Spec

\* Whatever Flush does between the loop's two critical sections, the counter
\* and the slice agree and neither messages[0] nor Pop fails.
THEOREM MessageQueueSizeMatches == Spec => []SizeMatches
  <1>1. MQInv => SizeMatches
    BY DEF MQInv, PInv, QInv, SizeCounts, SizeMatches
  <1> QED  BY <1>1, MessageQueueInv, PTL

\* No subscriber is handed a message twice.
THEOREM MessageQueueAtMostOnce == Spec => []AtMostOnce
  <1>1. MQInv => AtMostOnce
    BY QInvAtMostOnce DEF MQInv, PInv
  <1> QED  BY <1>1, MessageQueueInv, PTL

\* The message queue implements the same promise: Disable and Enable only
\* decide what is added, and Pop's test of the size loses nothing.
THEOREM MessageQueuePromise == Spec => KeepsPromise
  <1>1. Init => Promise!MInit
    BY PromiseInit DEF Init
  <1>2. MQInv /\ [Next]_vars => [Promise!MNext]_Promise!mvars
    BY MessageQueueStep, PromiseStep DEF MQInv
  <1> QED  BY <1>1, <1>2, MessageQueueInv, PTL DEF Spec, KeepsPromise, Promise!MSpec

=============================================================================
