------------------------------- MODULE EventDAG -------------------------------
(***************************************************************************)
(* The happens-before graph of a testcase: types.EventDAG with its vector  *)
(* clocks (types/dag.go, types/vector_clocks.go), fed by Context.setEvent  *)
(* (testlib/context.go).                                                   *)
(*                                                                         *)
(* An event is a record of the replica it happened at, its type and, for   *)
(* messages and timeouts, the message or timeout it is about.  Events      *)
(* reach setEvent in the order of the subscriber's channel, which can be   *)
(* any order (see EventQueue): a receive may come before its send.  IDs    *)
(* come from a counter that starts at 0; only their being distinct         *)
(* matters, so they are drawn here when the event is added.                *)
(***************************************************************************)
EXTENDS Integers, FiniteSets

CONSTANTS Replicas,    \* the replicas of the ReplicaStore (all registered)
          Keys,        \* messages and timeouts
          MaxEvents    \* bound: number of events

ASSUME ReplicasAssumption == IsFiniteSet(Replicas)
ASSUME MaxEventsAssumption == MaxEvents \in Nat

EventIDs == 0 .. (MaxEvents - 1)
None == -1             \* "not in the map"; 0 is both an ID and the zero value

Types  == {"send", "receive", "timeoutStart", "timeoutEnd", "generic"}
Events == [replica : Replicas, type : Types, key : Keys]
Clocks == [Replicas -> Nat]

VARIABLES
  gen,           \* the counter: the nodes are 0 .. gen - 1
  event,         \* node -> its Event
  parents,       \* node -> Parents
  children,      \* node -> Children
  prev, next,    \* node -> neighbour at the same replica, 0 if not set
  clock,         \* node -> ClockValue
  strands,       \* replica -> first node, or None
  latest,        \* replica -> last node, or None
  latestClocks,  \* replica -> clock of its last node
  sends,         \* Context.sends: message -> last send event, or None
  past           \* history variable: node -> nodes it can be reached from

vars == <<gen, event, parents, children, prev, next, clock, strands, latest,
          latestClocks, sends, past>>

nodes == 0 .. (gen - 1)

ZeroClock == [r \in Replicas |-> 0]

\* ClockValue.Lt
Lt(c, d) == (\A r \in Replicas : c[r] <= d[r]) /\ (\E r \in Replicas : c[r] < d[r])

\* NewEventDag and newContext.  The functions on EventIDs are only read on nodes.
Init ==
  /\ gen = 0
  /\ event = [i \in {} |-> {}]
  /\ parents = [i \in EventIDs |-> {}]
  /\ children = [i \in EventIDs |-> {}]
  /\ prev = [i \in EventIDs |-> 0]
  /\ next = [i \in EventIDs |-> 0]
  /\ clock = [i \in EventIDs |-> ZeroClock]
  /\ strands = [r \in Replicas |-> None]
  /\ latest = [r \in Replicas |-> None]
  /\ latestClocks = [r \in Replicas |-> ZeroClock]
  /\ sends = [k \in Keys |-> None]
  /\ past = [i \in EventIDs |-> {}]

(***************************************************************************)
(* EventDAG.nextClock: component by component the largest of the parents'  *)
(* (0 without parents), and at the event's own replica at least one more   *)
(* than the replica's latest clock.                                        *)
(***************************************************************************)
MaxOf(S) == CHOOSE x \in S : \A y \in S : y <= x

maxParent(P, r) == MaxOf({0} \cup {clock[p][r] : p \in P})

\* Mutant of nextClock: the event's own replica does not tick.
nextClockNoTick(e, P) == [r \in Replicas |-> maxParent(P, r)]

nextClock(e, P) ==
  [r \in Replicas |->
     IF r = e.replica /\ maxParent(P, r) < latestClocks[e.replica][r] + 1
       THEN latestClocks[e.replica][r] + 1
       ELSE maxParent(P, r)]

\* Mutant of SetNext: the link is never set.
SetNextSkipped(lN) == next

\* EventNode.SetNext on the replica's latest node, if there is one.
SetNext(lN) == IF lN = None THEN next ELSE [next EXCEPT ![lN] = gen]

\* EventNode.AddParents: the new node becomes a child of its parents.
AddChild(P) ==
  [i \in EventIDs |-> IF i \in P THEN children[i] \cup {gen} ELSE children[i]]

\* EventDAG.AddNode, with the event the counter's next ID is given to.
AddNode(e, ps) ==
  LET lN == latest[e.replica]
      P  == ps \cup (IF lN = None THEN {} ELSE {lN})
  IN /\ event' = [i \in 0 .. gen |-> IF i = gen THEN e ELSE event[i]]
     /\ next' = SetNext(lN)
     /\ prev' = IF lN = None THEN prev ELSE [prev EXCEPT ![gen] = lN]
     /\ latest' = [latest EXCEPT ![e.replica] = gen]
     /\ parents' = [parents EXCEPT ![gen] = P]
     /\ children' = AddChild(P)
     /\ clock' = [clock EXCEPT ![gen] = nextClock(e, P)]
     /\ latestClocks' = [latestClocks EXCEPT ![e.replica] = nextClock(e, P)]
     /\ strands' = IF strands[e.replica] = None
                     THEN [strands EXCEPT ![e.replica] = gen] ELSE strands
     /\ past' = [past EXCEPT ![gen] = P \cup UNION {past[p] : p \in P}]
     /\ gen' = gen + 1

\* Mutant of setEvent: a later send of the same message does not replace the
\* recorded one.
setEventFirstSend(e) ==
  /\ gen < MaxEvents
  /\ AddNode(e, IF e.type = "receive" /\ sends[e.key] # None
                  THEN {sends[e.key]} ELSE {})
  /\ sends' = IF e.type = "send" /\ sends[e.key] = None
                THEN [sends EXCEPT ![e.key] = gen] ELSE sends

\* Context.setEvent: a receive gets its send as a parent, if it was seen.
setEvent(e) ==
  /\ gen < MaxEvents
  /\ AddNode(e, IF e.type = "receive" /\ sends[e.key] # None
                  THEN {sends[e.key]} ELSE {})
  /\ sends' = IF e.type = "send" THEN [sends EXCEPT ![e.key] = gen] ELSE sends

Next == \E e \in Events : setEvent(e)

Spec == Init /\ [][Next]_vars

(***************************************************************************)
(* Lookups.  The code returns the first match in the random order of a Go  *)
(* map; the set holds everything it may return.                            *)
(***************************************************************************)
GetSendNode(e) ==
  {p \in parents[e] : /\ event[e].type = "receive"
                      /\ event[p].type = "send"
                      /\ event[p].key = event[e].key}

GetTimeoutStart(e) ==
  {p \in parents[e] : /\ event[e].type = "timeoutEnd"
                      /\ event[p].type = "timeoutStart"
                      /\ event[p].replica = event[e].replica
                      /\ event[p].key = event[e].key}

TypeOK ==
  /\ gen \in 0 .. MaxEvents
  /\ event \in [nodes -> Events]
  /\ parents \in [EventIDs -> SUBSET EventIDs]
  /\ children \in [EventIDs -> SUBSET EventIDs]
  /\ prev \in [EventIDs -> EventIDs \cup {0}]
  /\ next \in [EventIDs -> EventIDs \cup {0}]
  /\ clock \in [EventIDs -> Clocks]
  /\ strands \in [Replicas -> nodes \cup {None}]
  /\ latest \in [Replicas -> nodes \cup {None}]
  /\ latestClocks \in [Replicas -> Clocks]
  /\ sends \in [Keys -> nodes \cup {None}]
  /\ past \in [EventIDs -> SUBSET EventIDs]

\* The vector clocks characterise the graph: one node's clock is below
\* another's exactly when there is a path between them.
ClocksAreHappensBefore ==
  \A e, f \in nodes : Lt(clock[e], clock[f]) <=> e \in past[f]

\* Links are symmetric and point back, so the graph has no cycle.
LinksAgree ==
  \A e, p \in nodes : /\ p \in parents[e] <=> e \in children[p]
                      /\ p \in parents[e] => p < e

\* Children is the inverse of Parents, a parent was added before its child, and
\* the strand of a replica is one chain of its events in the order in which they
\* were added, from strands to latest, linked both ways.
StrandsAreChains ==
  /\ LinksAgree
  /\ \A r \in Replicas :
       LET own == {e \in nodes : event[e].replica = r}
       IN  \A e \in own :
             /\ strands[r] \in own /\ strands[r] <= e
             /\ latest[r] \in own /\ e <= latest[r]
             /\ e # strands[r] => /\ prev[e] \in own /\ prev[e] < e /\ next[prev[e]] = e
                                  /\ prev[e] \in parents[e]
                                  /\ \A f \in own : ~(prev[e] < f /\ f < e)

\* A receive knows the send of its message if that was added before it, and
\* then the send is before it in the clock order; a lookup never answers
\* with an event that is not in the past of the one it is asked about.
LookupsFindThePast ==
  \A e \in nodes :
    /\ \A p \in GetSendNode(e) \cup GetTimeoutStart(e) : Lt(clock[p], clock[e])
    /\ event[e].type = "receive" =>
         \A s \in nodes :
           (s < e /\ event[s].type = "send" /\ event[s].key = event[e].key)
             => \E p \in GetSendNode(e) : s <= p

=============================================================================
