---------------------------- MODULE DispatchQueue ----------------------------
(***************************************************************************)
(* The part that the three queues of netrix/types share: a slice and its   *)
(* size guarded by a mutex, a dispatchloop goroutine that reads the head   *)
(* under the lock, releases the lock, starts one goroutine per subscriber  *)
(* that sends the head on the subscriber's bounded channel, and takes the  *)
(* lock again to remove the head.  Add and Flush are called by other       *)
(* goroutines (the API server, RootContext.Reset) and may run between the  *)
(* two critical sections of the loop.                                      *)
(*                                                                         *)
(* Items are numbered by the order in which Add enqueues them.  Subscribe  *)
(* is called by the constructors only, before Start, so the subscribers    *)
(* are a constant.                                                         *)
(***************************************************************************)
EXTENDS Integers, Sequences, FiniteSets

CONSTANTS Subs,       \* labels of the subscribers
          ChanCap,    \* capacity of a subscriber's channel (10 in the code)
          MaxAdds,    \* bound: number of items enqueued
          MaxFlushes, \* bound: number of calls of Flush
          MayStop     \* is Stop called?

ASSUME SubsAssumption    == IsFiniteSet(Subs)
ASSUME ChanCapAssumption == ChanCap \in Nat \ {0}
ASSUME BoundsAssumption  == /\ MaxAdds \in Nat
                            /\ MaxFlushes \in Nat
                            /\ MayStop \in BOOLEAN

Items == 1 .. MaxAdds

VARIABLES
  queue,    \* q.events / q.messages / q.logs
  size,     \* q.size
  pc,       \* dispatchloop: "read", "spawn" (between the critical sections), "panic"
  toAdd,    \* dispatchloop's local toAdd (0: none)
  todo,     \* subscribers its range loop has still to visit
  senders,  \* senders[s][i]: goroutines in the select that offers item i to s
  chan,     \* the subscribers' channels
  taken,    \* what each subscriber has received from its channel, in order
  stop,     \* Stop: "no", "waiting" (in dispatchWG.Wait, quit closed), "done"
  added,    \* number of items enqueued so far
  flushes   \* number of calls of Flush so far

qvars == <<queue, size, pc, toAdd, todo, senders, chan, taken, stop, added, flushes>>

Quit == stop # "no"              \* QuitCh() is closed

QInit ==
  /\ queue = <<>>
  /\ size = 0
  /\ pc = "read"
  /\ toAdd = 0
  /\ todo = {}
  /\ senders = [s \in Subs |-> [i \in Items |-> 0]]
  /\ chan = [s \in Subs |-> <<>>]
  /\ taken = [s \in Subs |-> <<>>]
  /\ stop = "no"
  /\ added = 0
  /\ flushes = 0

Alive == pc # "panic"            \* a panic in any goroutine ends the process

(***************************************************************************)
(* Calls made by other goroutines.                                         *)
(***************************************************************************)
Enqueue ==
  /\ Alive
  /\ added < MaxAdds
  /\ added' = added + 1
  /\ queue' = Append(queue, added + 1)
  /\ size' = size + 1
  /\ UNCHANGED <<pc, toAdd, todo, senders, chan, taken, stop, flushes>>

Flush ==
  /\ Alive
  /\ flushes < MaxFlushes
  /\ flushes' = flushes + 1
  /\ queue' = <<>>
  /\ size' = 0
  /\ UNCHANGED <<pc, toAdd, todo, senders, chan, taken, stop, added>>

\* Stop: StopRunning closes the quit channel, then Wait blocks.
StopRunning ==
  /\ Alive
  /\ MayStop
  /\ stop = "no"
  /\ stop' = "waiting"
  /\ UNCHANGED <<queue, size, pc, toAdd, todo, senders, chan, taken, added, flushes>>

StopReturn ==
  /\ Alive
  /\ stop = "waiting"
  /\ \A s \in Subs, i \in Items : senders[s][i] = 0
  /\ stop' = "done"
  /\ UNCHANGED <<queue, size, pc, toAdd, todo, senders, chan, taken, added, flushes>>

(***************************************************************************)
(* dispatchloop.  It has no exit: it goes on after Stop.                   *)
(***************************************************************************)
\* First critical section, with the test of size that follows it.
ReadHead ==
  /\ pc = "read"
  /\ size > 0
  /\ toAdd' = Head(queue)
  /\ todo' = Subs
  /\ pc' = "spawn"
  /\ UNCHANGED <<queue, size, senders, chan, taken, stop, added, flushes>>

\* The loop finds the queue empty and tries again.
ReadEmpty ==
  /\ pc = "read"
  /\ size <= 0
  /\ UNCHANGED qvars

\* One turn of the loop over the subscribers: dispatchWG.Add(1); go func.
SpawnSender(s) ==
  /\ pc = "spawn"
  /\ s \in todo
  /\ todo' = todo \ {s}
  /\ senders' = [senders EXCEPT ![s][toAdd] = @ + 1]
  /\ UNCHANGED <<queue, size, pc, toAdd, chan, taken, stop, added, flushes>>

\* Mutant of PopUnchecked: the size is decremented, the head stays.
PopKeepsHead ==
  /\ pc = "spawn"
  /\ todo = {}
  /\ size' = size - 1
  /\ pc' = "read"
  /\ toAdd' = 0
  /\ UNCHANGED <<queue, todo, senders, chan, taken, stop, added, flushes>>

\* Second critical section of EventQueue and ReplicaLogQueue.  Nothing is
\* tested again: slicing an empty slice panics.
PopUnchecked ==
  /\ pc = "spawn"
  /\ todo = {}
  /\ size' = size - 1
  /\ IF queue = <<>>
       THEN pc' = "panic" /\ UNCHANGED queue
       ELSE pc' = "read" /\ queue' = Tail(queue)
  /\ toAdd' = 0
  /\ UNCHANGED <<todo, senders, chan, taken, stop, added, flushes>>

\* Second critical section of MessageQueue, which calls Pop.
Pop ==
  /\ pc = "spawn"
  /\ todo = {}
  /\ IF size < 1
       THEN UNCHANGED <<queue, size>>
       ELSE queue' = Tail(queue) /\ size' = size - 1
  /\ pc' = "read"
  /\ toAdd' = 0
  /\ UNCHANGED <<todo, senders, chan, taken, stop, added, flushes>>

(***************************************************************************)
(* The goroutine started for a subscriber, and the subscriber.             *)
(***************************************************************************)
\* Mutants of Send: a select with a default case drops the item when the
\* channel is full; the goroutine goes on offering the item it has sent.
SendOrDrop(s, i) ==
  /\ Alive
  /\ senders[s][i] > 0
  /\ senders' = [senders EXCEPT ![s][i] = @ - 1]
  /\ chan' = IF Len(chan[s]) < ChanCap THEN [chan EXCEPT ![s] = Append(@, i)] ELSE chan
  /\ UNCHANGED <<queue, size, pc, toAdd, todo, taken, stop, added, flushes>>

SendAgain(s, i) ==
  /\ Alive
  /\ senders[s][i] > 0
  /\ Len(chan[s]) < ChanCap
  /\ chan' = [chan EXCEPT ![s] = Append(@, i)]
  /\ UNCHANGED <<queue, size, pc, toAdd, todo, senders, taken, stop, added, flushes>>

\* case subs <- toAdd.Clone()
Send(s, i) ==
  /\ Alive
  /\ senders[s][i] > 0
  /\ Len(chan[s]) < ChanCap
  /\ senders' = [senders EXCEPT ![s][i] = @ - 1]
  /\ chan' = [chan EXCEPT ![s] = Append(@, i)]
  /\ UNCHANGED <<queue, size, pc, toAdd, todo, taken, stop, added, flushes>>

\* Mutant of SenderQuit: a send without the case for the quit channel.
SenderNeverQuits(s, i) == FALSE /\ UNCHANGED qvars

\* case <-q.QuitCh()
SenderQuit(s, i) ==
  /\ Alive
  /\ Quit
  /\ senders[s][i] > 0
  /\ senders' = [senders EXCEPT ![s][i] = @ - 1]
  /\ UNCHANGED <<queue, size, pc, toAdd, todo, chan, taken, stop, added, flushes>>

\* The subscriber receives from the channel that Subscribe returned.
Take(s) ==
  /\ Alive
  /\ chan[s] # <<>>
  /\ chan' = [chan EXCEPT ![s] = Tail(@)]
  /\ taken' = [taken EXCEPT ![s] = Append(@, Head(chan[s]))]
  /\ UNCHANGED <<queue, size, pc, toAdd, todo, senders, stop, added, flushes>>

(***************************************************************************)
(* Where an item is, seen from a subscriber.                               *)
(***************************************************************************)
\* Everything put in the subscriber's channel, in order.
Got(s) == taken[s] \o chan[s]

\* The loop has still to hand item i to subscriber s: it is about to, or the
\* item is in the queue and not the one being handed out.
Waiting(s, i) ==
  \/ pc = "spawn" /\ i = toAdd /\ s \in todo
  \/ /\ \E k \in DOMAIN queue : queue[k] = i
     /\ ~(pc = "spawn" /\ i = toAdd)

InGot(s, i) == \E k \in DOMAIN Got(s) : Got(s)[k] = i

QTypeOK ==
  /\ queue \in Seq(Items)
  /\ size \in Int
  /\ pc \in {"read", "spawn", "panic"}
  /\ toAdd \in Items \cup {0}
  /\ todo \in SUBSET Subs
  /\ senders \in [Subs -> [Items -> Nat]]
  /\ chan \in [Subs -> Seq(Items)]
  /\ taken \in [Subs -> Seq(Items)]
  /\ \A s \in Subs : Len(chan[s]) <= ChanCap
  /\ stop \in {"no", "waiting", "done"}
  /\ added \in 0 .. MaxAdds
  /\ flushes \in 0 .. MaxFlushes

\* A subscriber is handed an item at most once: an item is in its channel (or
\* already received) at most once, and if it is there no goroutine still
\* offers it and the loop will not offer it again.
AtMostOnce ==
  \A s \in Subs :
    /\ \A j, k \in DOMAIN Got(s) : Got(s)[j] = Got(s)[k] => j = k
    /\ \A i \in Items :
         /\ senders[s][i] <= 1
         /\ InGot(s, i) => senders[s][i] = 0 /\ ~Waiting(s, i)
         /\ senders[s][i] = 1 => ~Waiting(s, i)

\* The refinement mapping to the promise made to subscribers.
Promise ==
  INSTANCE Multicast WITH
    MayDiscard <- MaxFlushes > 0 \/ MayStop,
    published  <- added,
    pending    <- [s \in Subs |->
                     {i \in Items : Waiting(s, i) \/ senders[s][i] > 0}],
    got        <- [s \in Subs |-> Got(s)]

\* The queue keeps the promise made to its subscribers: whatever Flush and
\* Stop do concurrently, items are lost only when one of them was called, and
\* none is duplicated or invented.
KeepsPromise == Promise!MSpec

\* The queue's goroutines are scheduled, and a goroutine blocked on a
\* channel gets its turn (the runtime serves waiting senders in order).
LoopFairness ==
  /\ WF_qvars(ReadHead)
  /\ \A s \in Subs : WF_qvars(SpawnSender(s))
  /\ \A s \in Subs, i \in Items : WF_qvars(Send(s, i) \/ SenderQuit(s, i))
  /\ WF_qvars(StopReturn)

\* Every subscriber keeps receiving, as pollEvents and pollMessages do while
\* the execution is not blocked.
SubscriberFairness == \A s \in Subs : WF_qvars(Take(s))

\* An item that was enqueued is received by every subscriber that keeps
\* receiving, unless the queue is flushed or stopped (or the process dies of
\* a panic).
EventuallyTaken ==
  SubscriberFairness =>
    \A s \in Subs, i \in Items :
      added >= i ~> \/ \E k \in DOMAIN taken[s] : taken[s][k] = i
                    \/ flushes > 0 \/ Quit \/ ~Alive

\* Stop returns: once the quit channel is closed, dispatchWG.Wait is not
\* held up by senders on a full channel that nobody reads any more.
StopReturns == (stop = "waiting") ~> (stop = "done" \/ ~Alive)

=============================================================================
