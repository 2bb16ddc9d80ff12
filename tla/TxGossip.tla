------------------------------ MODULE TxGossip ------------------------------
(***************************************************************************)
(* How the transactions of a Tendermint mempool reach its peers: the       *)
(* concurrent list that holds them (CList), the mempool reactor, which     *)
(* starts and ends one broadcastTxRoutine for each peer, and these         *)
(* routines, which walk the list without a lock while the mempool appends  *)
(* and removes elements.                                                   *)
(*                                                                         *)
(* Elements are numbered in the order in which they are appended.  A       *)
(* channel that a routine waits on is known by whether it is closed: the   *)
(* list and every element make a new channel when they have to wait again, *)
(* and the routines that hold the old one find it closed.                  *)
(***************************************************************************)
EXTENDS Integers, FiniteSets, FiniteSetsExt

CONSTANTS
  Peers, Nil,
  MaxElements, \* bound: transactions added to the mempool
  MaxUps       \* bound: peer updates with PeerStatusUp; ids do not wrap below it

ASSUME TxGossipAssumption ==
  /\ Nil \notin Nat /\ MaxElements \in Nat /\ MaxUps \in Nat
  /\ IsFiniteSet(Peers)

VARIABLES
  list,     \* CList: head, tail, len, and whether waitCh is open
  elem,     \* CElement: prev, next, removed, and whether nextWaitCh is open
  added,    \* elements appended so far
  unlinked, \* the element that Remove, which holds the lock, has to mark yet
  senders,  \* mempoolTx.senders: the ids of the peers that sent it
  from,     \* history: the peers that sent it
  up,       \* the peers that the last PeerUpdate reported as up
  ids,      \* mempoolIDs.peerMap; UnknownPeerID stands for no entry
  nextID,   \* mempoolIDs.nextID
  ups,      \* updates with PeerStatusUp so far
  routine,  \* the broadcastTxRoutine of each peer in peerRoutines
  sent,     \* history: what this routine sent of what is in the list
  panic     \* a channel was closed twice, or Remove found a false head or tail

listVars == <<list, elem, added, unlinked, senders, from>>
peerVars == <<up, ids, nextID, ups>>
vars == <<listVars, peerVars, routine, sent, panic>>

Elements == 1..MaxElements
UnknownPeerID == 0
IDs == 0..MaxUps
NoRoutine == [at |-> "none", el |-> Nil, id |-> UnknownPeerID, ready |-> FALSE, closed |-> FALSE]

TypeOK ==
  /\ list \in [head : Elements \cup {Nil}, tail : Elements \cup {Nil}, len : Int, open : BOOLEAN]
  /\ elem \in [Elements -> [prev : Elements \cup {Nil}, next : Elements \cup {Nil},
                            removed : BOOLEAN, open : BOOLEAN]]
  /\ added \in 0..MaxElements /\ unlinked \in Elements \cup {Nil}
  /\ senders \in [Elements -> SUBSET IDs] /\ from \in [Elements -> SUBSET Peers]
  /\ up \subseteq Peers /\ ids \in [Peers -> IDs] /\ nextID \in 1..MaxUps + 1
  /\ routine \in [Peers -> [at : {"none", "start", "front", "waitFront", "send", "sent", "wait"},
                            el : Elements \cup {Nil}, id : IDs, ready : BOOLEAN, closed : BOOLEAN]]
  /\ sent \in [Peers -> SUBSET Elements] /\ panic \in BOOLEAN

(* The elements that were appended and not removed. *)
Linked == {e \in 1..added : ~elem[e].removed} \ {unlinked}

Init ==
  /\ list = [head |-> Nil, tail |-> Nil, len |-> 0, open |-> TRUE]
  /\ elem = [e \in Elements |-> [prev |-> Nil, next |-> Nil, removed |-> FALSE, open |-> TRUE]]
  /\ added = 0 /\ unlinked = Nil
  /\ senders = [e \in Elements |-> {}] /\ from = [e \in Elements |-> {}]
  /\ up = {} /\ ids = [p \in Peers |-> UnknownPeerID] /\ nextID = 1 /\ ups = 0
  /\ routine = [p \in Peers |-> NoRoutine] /\ sent = [p \in Peers |-> {}]
  /\ panic = FALSE

-----------------------------------------------------------------------------
(* CElement.SetNext, on the elements el: the successor n of e changes, and *)
(* its channel is renewed or closed.                                       *)
SetNext(el, e, n) ==
  [el EXCEPT ![e].next = n,
             ![e].open = IF el[e].next # Nil /\ n = Nil THEN TRUE
                         ELSE IF el[e].next = Nil /\ n # Nil THEN FALSE
                         ELSE @]

\* Mutant of Closing: whoever waits on the channel is not woken.
NotClosing(where, e) == routine

(* The routines after the channel of e, or of the list, has been closed. *)
Closing(where, e) ==
  [p \in Peers |-> IF routine[p].at = where /\ routine[p].el = e
                   THEN [routine[p] EXCEPT !.ready = TRUE] ELSE routine[p]]

(* CheckTx adds a transaction that peer p, or with p = Nil the RPC, sent:  *)
(* PushBack.                                                               *)
PushBack(p) ==
  LET e == added + 1
      t == list.tail
      id == IF p = Nil THEN UnknownPeerID ELSE ids[p]
  IN  /\ unlinked = Nil /\ added < MaxElements
      /\ added' = e
      /\ senders' = [senders EXCEPT ![e] = {id}]
      /\ from' = [from EXCEPT ![e] = {p} \ {Nil}]
      /\ list' = [head |-> IF t = Nil THEN e ELSE list.head, tail |-> e, len |-> list.len + 1,
                  open |-> list.open /\ list.len # 0]
      /\ elem' = IF t = Nil THEN elem ELSE SetNext([elem EXCEPT ![e].prev = t], t, e)
      /\ routine' = IF t = Nil THEN Closing("waitFront", Nil) ELSE Closing("wait", t)
      /\ panic' = (panic \/ (list.len = 0 /\ ~list.open))
      /\ UNCHANGED <<unlinked, peerVars, sent>>

(* CheckTx with a transaction that is already in the mempool. *)
AddSender(p, e) ==
  /\ e <= added /\ ~elem[e].removed /\ p \notin from[e]
  /\ senders' = [senders EXCEPT ![e] = @ \cup {ids[p]}]
  /\ from' = [from EXCEPT ![e] = @ \cup {p}]
  /\ UNCHANGED <<list, elem, added, unlinked, peerVars, routine, sent, panic>>

\* Mutant of Unlink: the tail stays.
UnlinkNotTail(e) ==
  LET b == elem[e].prev
      a == elem[e].next
  IN  /\ unlinked = Nil /\ e <= added /\ ~elem[e].removed
      /\ unlinked' = e
      /\ list' = [head |-> IF b = Nil THEN a ELSE list.head, tail |-> list.tail,
                  len |-> list.len - 1, open |-> list.open \/ list.len = 1]
      /\ LET forward == IF b = Nil THEN elem ELSE SetNext(elem, b, a)
         IN  elem' = IF a = Nil THEN forward ELSE [forward EXCEPT ![a].prev = b]
      /\ UNCHANGED <<added, senders, from, peerVars, routine, sent, panic>>

(* removeTx: Remove up to the point where e is out of the list; a routine  *)
(* that reads its elements does not take the lock of the list.             *)
Unlink(e) ==
  LET b == elem[e].prev
      a == elem[e].next
  IN  /\ unlinked = Nil /\ e <= added /\ ~elem[e].removed
      /\ unlinked' = e
      /\ panic' = (panic \/ (b = Nil /\ list.head # e) \/ (a = Nil /\ list.tail # e))
      /\ list' = [head |-> IF b = Nil THEN a ELSE list.head,
                  tail |-> IF a = Nil THEN b ELSE list.tail,
                  len |-> list.len - 1, open |-> list.open \/ list.len = 1]
      /\ LET forward == IF b = Nil THEN elem ELSE SetNext(elem, b, a)
         IN  elem' = IF a = Nil THEN forward ELSE [forward EXCEPT ![a].prev = b]
      /\ UNCHANGED <<added, senders, from, peerVars, routine, sent>>

(* SetRemoved, the end of Remove, and DetachPrev. *)
SetRemoved ==
  /\ unlinked # Nil
  /\ LET e == unlinked
         tail == elem[e].next = Nil
     IN  /\ elem' = [elem EXCEPT ![e].removed = TRUE, ![e].prev = Nil,
                                 ![e].open = @ /\ ~tail]
         /\ routine' = IF tail THEN Closing("wait", e) ELSE routine
         /\ panic' = (panic \/ (tail /\ ~elem[e].open))
  /\ unlinked' = Nil
  /\ sent' = [p \in Peers |-> sent[p] \ {unlinked}]
  /\ UNCHANGED <<list, added, senders, from, peerVars>>

-----------------------------------------------------------------------------
(* mempoolIDs and processPeerUpdate *)

ActiveIDs == {ids[p] : p \in Peers} \cup {UnknownPeerID}

nextPeerID == Min((nextID..MaxUps) \ ActiveIDs)

ReserveForPeer(p) ==
  /\ ids' = [ids EXCEPT ![p] = nextPeerID]
  /\ nextID' = nextPeerID + 1

(* A peer that comes back before its former routine has ended gets no new  *)
(* one.                                                                    *)
PeerUp(p) ==
  /\ p \notin up /\ ups < MaxUps
  /\ up' = up \cup {p} /\ ups' = ups + 1
  /\ IF routine[p].at # "none" THEN UNCHANGED <<ids, nextID, routine, sent>>
     ELSE /\ ReserveForPeer(p)
          /\ routine' = [routine EXCEPT ![p] = [NoRoutine EXCEPT !.at = "start"]]
          /\ sent' = [sent EXCEPT ![p] = {}]
  /\ UNCHANGED <<listVars, panic>>

PeerDown(p) ==
  /\ p \in up
  /\ up' = up \ {p}
  /\ ids' = [ids EXCEPT ![p] = UnknownPeerID]
  /\ routine' = [routine EXCEPT ![p].closed = routine[p].at # "none"]
  /\ UNCHANGED <<listVars, nextID, ups, sent, panic>>

-----------------------------------------------------------------------------
(* broadcastTxRoutine.  A peer that lags behind the height of a            *)
(* transaction only delays Send.                                           *)

Step(p, at, r) ==
  /\ routine[p].at = at
  /\ routine' = [routine EXCEPT ![p] = r]
  /\ UNCHANGED <<listVars, peerVars, panic>>

Start(p) ==
  Step(p, "start", [routine[p] EXCEPT !.at = "front", !.id = ids[p]]) /\ UNCHANGED sent

(* TxsWaitChan and TxsFront take the lock of the list. *)
TxsWaitChan(p) ==
  /\ unlinked = Nil
  /\ Step(p, "front", [routine[p] EXCEPT !.at = "waitFront", !.ready = ~list.open])
  /\ UNCHANGED sent

TxsFront(p) ==
  /\ routine[p].ready /\ unlinked = Nil
  /\ Step(p, "waitFront", [routine[p] EXCEPT !.at = IF list.head = Nil THEN "front" ELSE "send",
                                             !.el = list.head])
  /\ UNCHANGED sent

Send(p) ==
  /\ Step(p, "send", [routine[p] EXCEPT !.at = "sent"])
  /\ sent' = IF routine[p].id \in senders[routine[p].el] THEN sent
             ELSE [sent EXCEPT ![p] = @ \cup ({routine[p].el} \cap Linked)]

NextWaitChan(p) ==
  Step(p, "sent", [routine[p] EXCEPT !.at = "wait", !.ready = ~elem[routine[p].el].open])
    /\ UNCHANGED sent

NextElement(p) ==
  LET n == elem[routine[p].el].next
  IN  /\ routine[p].ready
      /\ Step(p, "wait", [routine[p] EXCEPT !.at = IF n = Nil THEN "front" ELSE "send", !.el = n])
      /\ UNCHANGED sent

(* The closer is seen where the routine waits. *)
Exit(p) ==
  /\ routine[p].closed /\ routine[p].at \in {"waitFront", "wait"}
  /\ Step(p, routine[p].at, NoRoutine)
  /\ UNCHANGED sent

Broadcast(p) ==
  \/ Start(p) \/ TxsWaitChan(p) \/ TxsFront(p) \/ Send(p) \/ NextWaitChan(p) \/ NextElement(p)

Next ==
  \/ \E p \in Peers \cup {Nil} : PushBack(p)
  \/ \E e \in Elements : Unlink(e)
  \/ SetRemoved
  \/ \E p \in Peers :
       \/ \E e \in Elements : AddSender(p, e)
       \/ PeerUp(p) \/ PeerDown(p) \/ Broadcast(p) \/ Exit(p)

(* The routines run, and a removal that has begun ends. *)
Spec ==
  /\ Init /\ [][Next]_vars
  /\ WF_vars(SetRemoved)
  /\ \A p \in Peers : WF_vars(Broadcast(p))

-----------------------------------------------------------------------------
Least(S) == IF S = {} THEN Nil ELSE Min(S)
Greatest(S) == IF S = {} THEN Nil ELSE Max(S)

(* Neither Remove nor a channel panics, and                                *)
(* the list holds exactly the elements that were appended and not removed, *)
(* in their order and in both directions, and its channel and those of its *)
(* elements are open exactly where there is nothing to go on to.           *)
ListIntact ==
  /\ TypeOK /\ ~panic
  /\ list.head = Least(Linked) /\ list.tail = Greatest(Linked) /\ list.len = Cardinality(Linked)
  /\ list.open = (Linked = {})
  /\ \A e \in Linked :
       /\ elem[e].next = Least({f \in Linked : f > e})
       /\ elem[e].prev = Greatest({f \in Linked : f < e})
       /\ elem[e].open = (elem[e].next = Nil)

(* "start a broadcast routine ensuring all txs are forwarded to the peer"  *)
(* (processPeerUpdate): a transaction that stays in the mempool is sent to *)
(* every peer whose routine goes on, unless this very peer sent it,        *)
(* whatever is removed around the element at which the routine waits.      *)
Forwarded ==
  \A p \in Peers, e \in Elements :
    e \in Linked /\ routine[p].at # "none"
      ~> e \notin Linked \/ e \in sent[p] \/ p \in from[e] \/ routine[p].closed \/ routine[p].at = "none"
=============================================================================
