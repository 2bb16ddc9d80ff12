------------------------------ MODULE Multicast ------------------------------
(***************************************************************************)
(* What the subscribers of a netrix queue (types.EventQueue,               *)
(* types.MessageQueue, types.ReplicaLogQueue) may rely on.                 *)
(*                                                                         *)
(* An item that is published becomes pending for every subscriber.  A      *)
(* pending item is put in a subscriber's channel at most once, in any      *)
(* order.  Items that are pending may be discarded, but only in a queue    *)
(* that is flushed or stopped (MayDiscard).                                 *)
(***************************************************************************)
EXTENDS Naturals, Sequences

CONSTANTS Subs,         \* the labels given to Subscribe
          MayDiscard    \* is the queue ever flushed or stopped?

VARIABLES published,    \* number of items published; the items are 1..published
          pending,      \* [Subs -> set of items on their way to the subscriber]
          got           \* [Subs -> sequence of items put in its channel]

mvars == <<published, pending, got>>

MInit ==
  /\ published = 0
  /\ pending = [s \in Subs |-> {}]
  /\ got = [s \in Subs |-> <<>>]

Publish ==
  /\ published' = published + 1
  /\ pending' = [s \in Subs |-> pending[s] \cup {published + 1}]
  /\ UNCHANGED got

Deliver(s) ==
  \E i \in pending[s] :
    /\ pending' = [pending EXCEPT ![s] = @ \ {i}]
    /\ got' = [got EXCEPT ![s] = Append(@, i)]
    /\ UNCHANGED published

Discard ==
  /\ MayDiscard
  /\ \A s \in Subs : pending'[s] \subseteq pending[s]
  /\ DOMAIN pending' = Subs
  /\ UNCHANGED <<published, got>>

MNext == Publish \/ Discard \/ \E s \in Subs : Deliver(s)

MSpec == MInit /\ [][MNext]_mvars

=============================================================================
