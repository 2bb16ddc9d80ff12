---------------------------- MODULE EventDAGProofs ----------------------------
(***************************************************************************)
(* The vector clocks of the event graph are exactly its happens-before     *)
(* order, its strands are chains and its lookups find the past, for any    *)
(* number of replicas, messages and events.                                *)
(***************************************************************************)
EXTENDS EventDAG, TLAPS

(***************************************************************************)
(* The inductive invariant.  The heart of it is ClockTellsPast: whether e  *)
(* is f or before f can be read off the component of e's own replica.      *)
(***************************************************************************)
own(e) == event[e].replica

PastIsEarlier == \A f \in nodes : \A e \in past[f] : e \in nodes /\ e < f

ClockTellsPast ==
  \A e, f \in nodes : (e = f \/ e \in past[f]) <=> clock[e][own(e)] <= clock[f][own(e)]

ClocksGrow ==
  \A f \in nodes : \A e \in past[f] : \A r \in Replicas : clock[e][r] <= clock[f][r]

LatestIsLast ==
  \A r \in Replicas :
    /\ latest[r] = None => latestClocks[r] = ZeroClock /\ \A e \in nodes : own(e) # r
    /\ latest[r] # None =>
         /\ latestClocks[r] = clock[latest[r]]
         /\ \A e \in nodes : own(e) = r => e = latest[r] \/ e \in past[latest[r]]

NobodyKnowsMore ==
  \A f \in nodes, r \in Replicas : clock[f][r] <= latestClocks[r][r]

OwnIsPositive == \A e \in nodes : clock[e][own(e)] >= 1

DAGInv ==
  /\ TypeOK
  /\ PastIsEarlier
  /\ ClockTellsPast
  /\ ClocksGrow
  /\ LatestIsLast
  /\ NobodyKnowsMore
  /\ OwnIsPositive

(***************************************************************************)
(* The maximum of at most two clock values and 0.                          *)
(***************************************************************************)

\* A set of three numbers has a maximum.
LEMMA ThreeHaveMax ==
  ASSUME NEW a \in Nat, NEW b \in Nat, NEW S, S \subseteq {0, a, b}, 0 \in S
  PROVE  MaxOf(S) \in S /\ \A y \in S : y <= MaxOf(S)
  <1>1. \E m \in S : \A y \in S : y <= m
    <2>1. CASE a \in S /\ (b \notin S \/ b <= a)
      BY <2>1
    <2>2. CASE b \in S /\ (a \notin S \/ a <= b)
      BY <2>2
    <2>3. CASE a \notin S /\ b \notin S
      BY <2>3
    <2> QED  BY <2>1, <2>2, <2>3
  <1>2. PICK m \in S : \A y \in S : y <= m
    BY <1>1
  <1> QED  BY <1>2 DEF MaxOf

(***************************************************************************)
(* What setEvent does, with P the parents it gives the new node.           *)
(***************************************************************************)
Parents(e) ==
  (IF e.type = "receive" /\ sends[e.key] # None THEN {sends[e.key]} ELSE {})
  \cup (IF latest[e.replica] = None THEN {} ELSE {latest[e.replica]})

\* The parents are nodes, and there are at most two.
LEMMA ParentsAreNodes ==
  ASSUME TypeOK, NEW e \in Events, gen < MaxEvents
  PROVE  /\ Parents(e) \subseteq nodes
         /\ \E a, b \in EventIDs : Parents(e) \subseteq {a, b}
         /\ nodes \subseteq EventIDs /\ gen \in EventIDs /\ gen \in Nat /\ gen \notin nodes
  <1>1. /\ gen \in Nat /\ gen \in EventIDs /\ gen \notin nodes /\ nodes \subseteq EventIDs
    BY MaxEventsAssumption DEF TypeOK, nodes, EventIDs
  <1>2. e.replica \in Replicas /\ e.key \in Keys
    BY DEF Events
  <1>3. latest[e.replica] \in nodes \cup {None} /\ sends[e.key] \in nodes \cup {None}
    BY <1>2 DEF TypeOK
  <1>4. Parents(e) \subseteq nodes
    BY <1>3 DEF Parents
  <1>5. \E a, b \in EventIDs : Parents(e) \subseteq {a, b}
    <2> DEFINE a == IF sends[e.key] = None THEN gen ELSE sends[e.key]
               b == IF latest[e.replica] = None THEN gen ELSE latest[e.replica]
    <2>1. a \in EventIDs /\ b \in EventIDs
      BY <1>1, <1>3
    <2>2. Parents(e) \subseteq {a, b}
      BY DEF Parents
    <2> QED  BY <2>1, <2>2
  <1> QED  BY <1>1, <1>4, <1>5

\* The largest clock component among the parents.
LEMMA MaxParentIsMax ==
  ASSUME TypeOK, NEW e \in Events, gen < MaxEvents, NEW r \in Replicas
  PROVE  LET m == maxParent(Parents(e), r)
         IN /\ m \in Nat
            /\ \A p \in Parents(e) : clock[p][r] <= m
            /\ m = 0 \/ \E p \in Parents(e) : m = clock[p][r]
  <1> DEFINE S == {0} \cup {clock[p][r] : p \in Parents(e)}
  <1>1. PICK a, b \in EventIDs : Parents(e) \subseteq {a, b}
    BY ParentsAreNodes, Zenon
  <1>2. clock[a][r] \in Nat /\ clock[b][r] \in Nat
    BY DEF TypeOK, Clocks
  <1>3. S \subseteq {0, clock[a][r], clock[b][r]} /\ 0 \in S
    BY <1>1
  <1> HIDE DEF S
  <1>4. MaxOf(S) \in S /\ \A y \in S : y <= MaxOf(S)
    BY <1>2, <1>3, ThreeHaveMax
  <1>5. S \subseteq Nat
    BY <1>2, <1>3
  <1> QED  BY <1>4, <1>5 DEF S, maxParent

\* The clock of the new node: one more than the replica's latest at the own
\* component, the parents' maximum elsewhere.
LEMMA NewClock ==
  ASSUME DAGInv, NEW e \in Events, gen < MaxEvents
  PROVE  LET P == Parents(e)
             c == nextClock(e, P)
         IN /\ c \in Clocks
            /\ c[e.replica] = latestClocks[e.replica][e.replica] + 1
            /\ \A r \in Replicas : r # e.replica => c[r] = maxParent(P, r)
            /\ \A p \in P, r \in Replicas : clock[p][r] <= c[r]
  <1> DEFINE P == Parents(e)
             m == [r \in Replicas |-> maxParent(P, r)]
             l == latestClocks[e.replica][e.replica]
             c == nextClock(e, P)
  <1>1. e.replica \in Replicas /\ l \in Nat
    BY DEF Events, DAGInv, TypeOK, Clocks
  <1>2. \A r \in Replicas : /\ m[r] \in Nat
                            /\ \A p \in P : clock[p][r] <= m[r]
                            /\ m[r] = 0 \/ \E p \in P : m[r] = clock[p][r]
    BY MaxParentIsMax DEF DAGInv
  <1>3. P \subseteq nodes /\ \A p \in P, r \in Replicas : clock[p][r] \in Nat
    BY ParentsAreNodes DEF DAGInv, TypeOK, Clocks
  <1>4. m[e.replica] <= l
    <2>1. CASE m[e.replica] = 0
      BY <1>1, <2>1
    <2>2. CASE \E p \in P : m[e.replica] = clock[p][e.replica]
      BY <1>1, <1>3, <2>2 DEF DAGInv, NobodyKnowsMore
    <2> QED  BY <1>1, <1>2, <2>1, <2>2
  <1>5. c = [r \in Replicas |-> IF r = e.replica THEN l + 1 ELSE m[r]]
    <2>1. m[e.replica] < l + 1
      BY <1>1, <1>2, <1>4
    <2>2. c = [r \in Replicas |->
                 IF r = e.replica /\ m[r] < latestClocks[e.replica][r] + 1
                   THEN latestClocks[e.replica][r] + 1 ELSE m[r]]
      BY DEF nextClock
    <2> QED  BY <2>1, <2>2
  <1> HIDE DEF c, m, l, P
  <1>6. c \in [Replicas -> Nat]
    BY <1>1, <1>2, <1>5
  <1>7. c[e.replica] = l + 1 /\ \A r \in Replicas : r # e.replica => c[r] = m[r]
    BY <1>1, <1>5
  <1>8. \A p \in P, r \in Replicas : clock[p][r] <= c[r]
    <2> SUFFICES ASSUME NEW p \in P, NEW r \in Replicas PROVE clock[p][r] <= c[r]
      OBVIOUS
    <2>1. clock[p][r] <= m[r] /\ m[r] \in Nat /\ clock[p][r] \in Nat
      BY <1>2, <1>3
    <2>2. CASE r = e.replica
      BY <1>1, <1>4, <1>7, <2>1, <2>2
    <2>3. CASE r # e.replica
      BY <1>7, <2>1, <2>3
    <2> QED  BY <2>2, <2>3
  <1> QED  BY <1>6, <1>7, <1>8 DEF c, m, l, P, Clocks

\* The effect of setEvent on what the invariant talks about.
LEMMA NewNode ==
  ASSUME DAGInv, NEW e \in Events, setEvent(e)
  PROVE  LET P == Parents(e)
         IN /\ nodes' = nodes \cup {gen}
            /\ \A x \in nodes : /\ event'[x] = event[x] /\ clock'[x] = clock[x]
                                 /\ past'[x] = past[x]
            /\ event'[gen] = e
            /\ clock'[gen] = nextClock(e, P)
            /\ past'[gen] = P \cup UNION {past[p] : p \in P}
            /\ latest' = [latest EXCEPT ![e.replica] = gen]
            /\ latestClocks' = [latestClocks EXCEPT ![e.replica] = nextClock(e, P)]
  <1>1. /\ gen < MaxEvents /\ AddNode(e, IF e.type = "receive" /\ sends[e.key] # None
                                           THEN {sends[e.key]} ELSE {})
    BY DEF setEvent
  <1>2. /\ event' = [i \in 0 .. gen |-> IF i = gen THEN e ELSE event[i]]
        /\ clock' = [clock EXCEPT ![gen] = nextClock(e, Parents(e))]
        /\ past' = [past EXCEPT ![gen] = Parents(e) \cup UNION {past[p] : p \in Parents(e)}]
        /\ latest' = [latest EXCEPT ![e.replica] = gen]
        /\ latestClocks' = [latestClocks EXCEPT ![e.replica] = nextClock(e, Parents(e))]
        /\ gen' = gen + 1
    BY <1>1 DEF AddNode, SetNext, AddChild, Parents
  <1>3. nodes \subseteq EventIDs /\ gen \in EventIDs /\ gen \in Nat /\ gen \notin nodes
    BY <1>1, ParentsAreNodes DEF DAGInv
  <1>4. nodes' = nodes \cup {gen}
    BY <1>2, <1>3 DEF nodes
  <1>5. \A x \in nodes : x # gen /\ x \in EventIDs /\ x \in 0 .. gen
    BY <1>3 DEF nodes
  <1>6. gen \in 0 .. gen
    BY <1>3
  <1> QED  BY <1>2, <1>3, <1>4, <1>5, <1>6 DEF DAGInv, TypeOK

(***************************************************************************)
(* The invariant holds initially and is preserved.                         *)
(***************************************************************************)

\* The empty graph.
LEMMA DAGInvInit == Init => DAGInv
  <1> SUFFICES ASSUME Init PROVE DAGInv
    OBVIOUS
  <1>1. nodes = {}
    BY DEF Init, nodes
  <1>2. ZeroClock \in Clocks
    BY DEF ZeroClock, Clocks
  <1>4. TypeOK
    BY <1>1, <1>2, MaxEventsAssumption DEF Init, TypeOK
  <1>5. LatestIsLast
    BY <1>1 DEF Init, LatestIsLast
  <1> QED  BY <1>1, <1>4, <1>5 DEF DAGInv, PastIsEarlier, ClockTellsPast, ClocksGrow,
                                 NobodyKnowsMore, OwnIsPositive

\* setEvent keeps the types.
LEMMA TypeStep ==
  ASSUME DAGInv, NEW e \in Events, setEvent(e)
  PROVE  TypeOK'
  <1> DEFINE P == Parents(e)
  <1>0. TypeOK /\ gen < MaxEvents /\ e.replica \in Replicas /\ e.key \in Keys
    BY DEF DAGInv, setEvent, Events
  <1>1. /\ P \subseteq nodes /\ nodes \subseteq EventIDs
        /\ gen \in EventIDs /\ gen \in Nat
    BY <1>0, ParentsAreNodes
  <1>2. nextClock(e, P) \in Clocks
    BY <1>0, NewClock
  <1>3. nodes' = nodes \cup {gen}
    BY NewNode
  <1>4. AddNode(e, IF e.type = "receive" /\ sends[e.key] # None THEN {sends[e.key]} ELSE {})
    BY DEF setEvent
  <1>5. gen' \in 0 .. MaxEvents
    BY <1>0, <1>1, <1>4, MaxEventsAssumption DEF AddNode, SetNext, AddChild
  <1>6. /\ event' \in [nodes' -> Events]
        /\ parents' \in [EventIDs -> SUBSET EventIDs]
        /\ children' \in [EventIDs -> SUBSET EventIDs]
    <2>1. parents' = [parents EXCEPT ![gen] = P]
      BY <1>4 DEF AddNode, SetNext, AddChild, Parents
    <2>2. children' = [i \in EventIDs |-> IF i \in P THEN children[i] \cup {gen} ELSE children[i]]
      BY <1>4 DEF AddNode, SetNext, AddChild, Parents
    <2>3. /\ event' = [i \in 0 .. gen |-> IF i = gen THEN e ELSE event[i]]
          /\ nodes' = 0 .. gen
      BY <1>1, <1>4 DEF AddNode, SetNext, AddChild, nodes
    <2>4. event' \in [nodes' -> Events]
      BY <1>0, <1>1, <1>3, <2>3 DEF TypeOK
    <2> QED  BY <1>0, <1>1, <2>1, <2>2, <2>4 DEF TypeOK
  <1>7. /\ prev' \in [EventIDs -> EventIDs \cup {0}]
        /\ next' \in [EventIDs -> EventIDs \cup {0}]
    <2>1. latest[e.replica] \in EventIDs \cup {None}
      BY <1>0, <1>1 DEF TypeOK
    <2> QED  BY <1>0, <1>1, <1>4, <2>1 DEF AddNode, SetNext, AddChild, TypeOK
  <1>8. clock' \in [EventIDs -> Clocks]
    BY <1>0, <1>1, <1>2, NewNode, <1>4 DEF AddNode, SetNext, AddChild, TypeOK, Parents
  <1>9. latestClocks' \in [Replicas -> Clocks]
    BY <1>0, <1>2, NewNode DEF TypeOK
  <1>10. /\ strands' \in [Replicas -> nodes' \cup {None}]
         /\ latest' \in [Replicas -> nodes' \cup {None}]
    BY <1>0, <1>1, <1>3, <1>4 DEF AddNode, SetNext, AddChild, TypeOK
  <1>11. sends' \in [Keys -> nodes' \cup {None}]
    BY <1>0, <1>1, <1>3 DEF setEvent, TypeOK
  <1>12. past' \in [EventIDs -> SUBSET EventIDs]
    <2>1. past' = [past EXCEPT ![gen] = P \cup UNION {past[p] : p \in P}]
      BY <1>4 DEF AddNode, SetNext, AddChild, Parents
    <2>2. P \cup UNION {past[p] : p \in P} \in SUBSET EventIDs
      <3>1. \A p \in P : p \in EventIDs /\ past[p] \subseteq EventIDs
        BY <1>0, <1>1 DEF TypeOK
      <3> HIDE DEF P
      <3> QED  BY <3>1
    <2> QED  BY <1>0, <2>1, <2>2 DEF TypeOK
  <1> QED  BY <1>5, <1>6, <1>7, <1>8, <1>9, <1>10, <1>11, <1>12 DEF TypeOK

\* setEvent keeps the relation between clocks and past.
LEMMA ClockStep ==
  ASSUME DAGInv, NEW e \in Events, setEvent(e)
  PROVE  DAGInv'
  <1> DEFINE P == Parents(e)
             c == nextClock(e, P)
             q == e.replica
             new == P \cup UNION {past[p] : p \in P}
  <1>0. TypeOK /\ gen < MaxEvents /\ q \in Replicas
    BY DEF DAGInv, setEvent, Events
  <1>1. /\ P \subseteq nodes /\ nodes \subseteq EventIDs
        /\ gen \in EventIDs /\ gen \in Nat /\ gen \notin nodes
    BY <1>0, ParentsAreNodes
  <1>2. /\ c \in Clocks
        /\ c[q] = latestClocks[q][q] + 1
        /\ \A r \in Replicas : r # q => c[r] = maxParent(P, r)
        /\ \A p \in P, r \in Replicas : clock[p][r] <= c[r]
    BY <1>0, NewClock
  <1>3. /\ nodes' = nodes \cup {gen}
        /\ \A x \in nodes : /\ event'[x] = event[x] /\ clock'[x] = clock[x]
                             /\ past'[x] = past[x]
        /\ event'[gen] = e /\ clock'[gen] = c /\ past'[gen] = new
        /\ latest' = [latest EXCEPT ![q] = gen]
        /\ latestClocks' = [latestClocks EXCEPT ![q] = c]
    BY NewNode
  <1>4. \A r \in Replicas : r # q => (c[r] = 0 \/ \E p \in P : c[r] = clock[p][r])
    BY <1>0, <1>2, MaxParentIsMax
  <1>5. /\ \A x \in nodes, r \in Replicas : clock[x][r] \in Nat
        /\ \A x \in nodes : event[x] \in Events /\ event[x].replica \in Replicas
        /\ \A r, t \in Replicas : latestClocks[r][t] \in Nat
        /\ \A r \in Replicas : c[r] \in Nat
        /\ \A x \in nodes : x \in Nat /\ x < gen
    <2>1. \A x \in nodes, r \in Replicas : clock[x][r] \in Nat
      BY <1>0, <1>1 DEF TypeOK, Clocks
    <2>2. \A x \in nodes : event[x] \in Events /\ event[x].replica \in Replicas
      BY <1>0 DEF TypeOK, Events
    <2>3. \A r, t \in Replicas : latestClocks[r][t] \in Nat
      BY <1>0 DEF TypeOK, Clocks
    <2>4. \A r \in Replicas : c[r] \in Nat
      BY <1>2 DEF Clocks
    <2>5. \A x \in nodes : x \in Nat /\ x < gen
      BY <1>1 DEF nodes
    <2> QED  BY <2>1, <2>2, <2>3, <2>4, <2>5
  <1>6. latest[q] # None => latest[q] \in P
    BY DEF Parents
  <1> HIDE DEF P, c, q
  <1>7. new \subseteq nodes
    BY <1>1 DEF DAGInv, PastIsEarlier
  <1>8. PastIsEarlier'
    BY <1>3, <1>5, <1>7 DEF DAGInv, PastIsEarlier
  <1>9. \A x \in new, r \in Replicas : clock[x][r] <= c[r]
    <2> SUFFICES ASSUME NEW x \in new, NEW r \in Replicas PROVE clock[x][r] <= c[r]
      OBVIOUS
    <2>1. PICK p \in P : x = p \/ x \in past[p]
      OBVIOUS
    <2>2. clock[x][r] <= clock[p][r]
      BY <1>1, <1>5, <2>1 DEF DAGInv, ClocksGrow
    <2> QED  BY <1>1, <1>2, <1>5, <1>7, <2>2
  <1>10. ClocksGrow'
    BY <1>3, <1>7, <1>9 DEF DAGInv, ClocksGrow, PastIsEarlier
  <1>11. ASSUME NEW x \in nodes PROVE ~(c[q] <= clock[x][q])
    BY <1>0, <1>2, <1>5, <1>11 DEF DAGInv, NobodyKnowsMore, q
  <1>12. ASSUME NEW x \in nodes PROVE x \in new <=> clock[x][own(x)] <= c[own(x)]
    <2> DEFINE r == event[x].replica
    <2>0. own(x) = r /\ r \in Replicas /\ clock[x][r] \in Nat /\ clock[x][r] >= 1
      BY <1>5, <1>12 DEF own, DAGInv, OwnIsPositive
    <2>1. x \in new => clock[x][r] <= c[r]
      BY <1>9, <2>0
    <2>2. ASSUME r # q, clock[x][r] <= c[r] PROVE x \in new
      <3>1. PICK p \in P : c[r] = clock[p][r]
        BY <1>4, <1>5, <2>0, <2>2
      <3>2. x = p \/ x \in past[p]
        BY <1>1, <2>0, <2>2, <3>1 DEF DAGInv, ClockTellsPast
      <3> QED  BY <3>2
    <2>3. ASSUME r = q PROVE x \in new
      <3>1. latest[q] # None /\ (x = latest[q] \/ x \in past[latest[q]])
        BY <1>0, <2>0, <2>3 DEF DAGInv, LatestIsLast, q
      <3> QED  BY <1>6, <3>1 DEF q
    <2> QED  BY <2>0, <2>1, <2>2, <2>3
  <1>13. ClockTellsPast'
    <2> SUFFICES ASSUME NEW x \in nodes', NEW y \in nodes'
                 PROVE  (x = y \/ x \in past'[y])
                          <=> clock'[x][event'[x].replica] <= clock'[y][event'[x].replica]
      BY DEF ClockTellsPast, own
    <2>1. CASE x \in nodes /\ y \in nodes
      BY <1>3, <2>1 DEF DAGInv, ClockTellsPast, own
    <2>2. CASE x \in nodes /\ y = gen
      BY <1>1, <1>3, <1>12, <2>2 DEF own
    <2>3. CASE x = gen /\ y \in nodes
      <3>1. gen \notin past[y]
        BY <1>1, <2>3 DEF DAGInv, PastIsEarlier
      <3>2. event'[x].replica = q /\ clock'[x] = c /\ clock'[y] = clock[y] /\ past'[y] = past[y]
        BY <1>3, <2>3 DEF q
      <3> QED  BY <1>1, <1>11, <2>3, <3>1, <3>2
    <2>4. CASE x = gen /\ y = gen
      <3>1. event'[x].replica = q /\ clock'[x] = c
        BY <1>3, <2>4 DEF q
      <3>2. c[q] \in Nat
        BY <1>0, <1>5 DEF q
      <3> QED  BY <2>4, <3>1, <3>2
    <2> QED  BY <1>3, <2>1, <2>2, <2>3, <2>4
  <1>14. LatestIsLast'
    <2> SUFFICES ASSUME NEW r \in Replicas
                 PROVE  /\ latest'[r] = None => /\ latestClocks'[r] = ZeroClock
                                                /\ \A x \in nodes' : event'[x].replica # r
                        /\ latest'[r] # None =>
                             /\ latestClocks'[r] = clock'[latest'[r]]
                             /\ \A x \in nodes' : event'[x].replica = r =>
                                   x = latest'[r] \/ x \in past'[latest'[r]]
      BY DEF LatestIsLast, own, ZeroClock
    <2>1. CASE r = q
      <3>1. latest'[r] = gen /\ latestClocks'[r] = c /\ gen # None
        BY <1>0, <1>1, <1>3, <2>1 DEF TypeOK, None
      <3>2. ASSUME NEW x \in nodes, event[x].replica = q PROVE x \in new
        <4>1. latest[q] # None /\ (x = latest[q] \/ x \in past[latest[q]])
          BY <1>0, <3>2 DEF DAGInv, LatestIsLast, own, q
        <4> QED  BY <1>6, <4>1 DEF q
      <3> QED  BY <1>3, <2>1, <3>1, <3>2
    <2>2. CASE r # q
      <3>1. latest'[r] = latest[r] /\ latestClocks'[r] = latestClocks[r]
        BY <1>0, <1>3, <2>2 DEF TypeOK
      <3>2. latest[r] # None => latest[r] \in nodes
        BY <1>0 DEF TypeOK
      <3>3. event'[gen].replica # r
        BY <1>3, <2>2 DEF q
      <3> QED  BY <1>3, <3>1, <3>2, <3>3 DEF DAGInv, LatestIsLast, own
    <2> QED  BY <2>1, <2>2
  <1>15. NobodyKnowsMore'
    <2> SUFFICES ASSUME NEW x \in nodes', NEW r \in Replicas
                 PROVE  clock'[x][r] <= latestClocks'[r][r]
      BY DEF NobodyKnowsMore
    <2>1. /\ r # q => latestClocks'[r] = latestClocks[r]
          /\ latestClocks'[q] = c
      BY <1>0, <1>3 DEF TypeOK, q
    <2>2. CASE x \in nodes
      <3>1. clock'[x] = clock[x] /\ clock[x][r] \in Nat /\ clock[x][r] <= latestClocks[r][r]
        BY <1>3, <1>5, <2>2 DEF DAGInv, NobodyKnowsMore
      <3>2. latestClocks[r][r] \in Nat
        BY <1>5
      <3> QED  BY <1>2, <2>1, <3>1, <3>2
    <2>3. CASE x = gen
      <3>1. CASE r = q  BY <1>3, <1>5, <2>1, <2>3, <3>1
      <3>2. CASE r # q
        <4>1. CASE c[r] = 0  BY <1>3, <1>5, <2>1, <2>3, <3>2, <4>1
        <4>2. CASE \E p \in P : c[r] = clock[p][r]
          BY <1>1, <1>3, <2>1, <2>3, <3>2, <4>2 DEF DAGInv, NobodyKnowsMore
        <4> QED  BY <1>4, <3>2, <4>1, <4>2
      <3> QED  BY <3>1, <3>2
    <2> QED  BY <1>3, <2>2, <2>3
  <1>16. OwnIsPositive'
    <2>1. c[q] >= 1
      BY <1>0, <1>2, <1>5 DEF q
    <2> QED  BY <1>3, <2>1 DEF DAGInv, OwnIsPositive, own, q
  <1> QED  BY <1>8, <1>10, <1>13, <1>14, <1>15, <1>16, TypeStep DEF DAGInv

\* DAGInv is an invariant.
LEMMA DAGInvariant == Spec => []DAGInv
  <1>1. DAGInv /\ [Next]_vars => DAGInv'
    <2> SUFFICES ASSUME DAGInv, [Next]_vars PROVE DAGInv'
      OBVIOUS
    <2>1. CASE Next
      BY <2>1, ClockStep DEF Next
    <2>2. CASE UNCHANGED vars
      BY <2>2 DEF vars, DAGInv, TypeOK, PastIsEarlier, ClockTellsPast, ClocksGrow,
                  LatestIsLast, NobodyKnowsMore, OwnIsPositive, own, nodes
    <2> QED  BY <2>1, <2>2
  <1> QED  BY <1>1, DAGInvInit, PTL DEF Spec

\* The types of the event graph: in particular latest, strands and sends only
\* name nodes that were added.
THEOREM EventDAGTypes == Spec => []TypeOK
  <1>1. DAGInv => TypeOK
    BY DEF DAGInv
  <1> QED  BY <1>1, DAGInvariant, PTL

\* Comparing the vector clocks computed by nextClock decides reachability in
\* the graph built by AddNode, in whatever order setEvent sees the events.
THEOREM VectorClocksCorrect == Spec => []ClocksAreHappensBefore
  <1>1. DAGInv => ClocksAreHappensBefore
    <2> SUFFICES ASSUME DAGInv, NEW e \in nodes, NEW f \in nodes
                 PROVE  Lt(clock[e], clock[f]) <=> e \in past[f]
      BY DEF ClocksAreHappensBefore
    <2>1. /\ own(e) \in Replicas /\ own(f) \in Replicas
          /\ \A r \in Replicas : clock[e][r] \in Nat /\ clock[f][r] \in Nat
          /\ e \in Nat /\ f \in Nat
      <3>1. e \in EventIDs /\ f \in EventIDs /\ e \in Nat /\ f \in Nat
        BY MaxEventsAssumption DEF DAGInv, TypeOK, nodes, EventIDs
      <3>2. event[e] \in Events /\ event[f] \in Events
            /\ clock[e] \in Clocks /\ clock[f] \in Clocks
        BY <3>1 DEF DAGInv, TypeOK
      <3> QED  BY <3>1, <3>2 DEF own, Events, Clocks
    <2>2. ASSUME Lt(clock[e], clock[f]) PROVE e \in past[f]
      <3>1. clock[e][own(e)] <= clock[f][own(e)] /\ e # f
        BY <2>1, <2>2 DEF Lt
      <3> QED  BY <3>1 DEF DAGInv, ClockTellsPast
    <2>3. ASSUME e \in past[f] PROVE Lt(clock[e], clock[f])
      <3>1. \A r \in Replicas : clock[e][r] <= clock[f][r]
        BY <2>3 DEF DAGInv, ClocksGrow
      <3>2. f # e /\ f \notin past[e]
        BY <2>1, <2>3 DEF DAGInv, PastIsEarlier
      <3>3. ~(clock[f][own(f)] <= clock[e][own(f)])
        BY <3>2 DEF DAGInv, ClockTellsPast
      <3> QED  BY <2>1, <3>1, <3>3 DEF Lt
    <2> QED  BY <2>2, <2>3
  <1> QED  BY <1>1, DAGInvariant, PTL

(***************************************************************************)
(* Links, strands and lookups.  What they need beside DAGInv: only nodes   *)
(* have children, a strand has its ends at its own replica, parents are in *)
(* the past and sends holds the last send of a message.                    *)
(***************************************************************************)
ChildrenAreNodes ==
  \A i \in EventIDs : children[i] \subseteq nodes /\ (i \notin nodes => children[i] = {})

StrandEnds ==
  \A r \in Replicas : /\ strands[r] = None <=> latest[r] = None
                      /\ latest[r] # None => own(latest[r]) = r

ParentsInPast == \A e \in nodes : parents[e] \subseteq past[e]

IsSendOf(s, k) == event[s].type = "send" /\ event[s].key = k

SendsHoldsLast ==
  \A k \in Keys : /\ sends[k] # None => IsSendOf(sends[k], k)
                  /\ \A s \in nodes : IsSendOf(s, k) => sends[k] # None /\ s <= sends[k]

ReceivesKnowSend ==
  \A e \in nodes : event[e].type = "receive" =>
    \A s \in nodes : s < e /\ IsSendOf(s, event[e].key) => \E p \in GetSendNode(e) : s <= p

LinkInv ==
  /\ DAGInv
  /\ ChildrenAreNodes
  /\ StrandEnds
  /\ ParentsInPast
  /\ SendsHoldsLast
  /\ ReceivesKnowSend
  /\ StrandsAreChains

\* The links that setEvent sets.
LEMMA NewLinks ==
  ASSUME DAGInv, NEW e \in Events, setEvent(e)
  PROVE  LET lN == latest[e.replica]
         IN /\ parents' = [parents EXCEPT ![gen] = Parents(e)]
            /\ children' = [i \in EventIDs |->
                              IF i \in Parents(e) THEN children[i] \cup {gen} ELSE children[i]]
            /\ prev' = IF lN = None THEN prev ELSE [prev EXCEPT ![gen] = lN]
            /\ next' = IF lN = None THEN next ELSE [next EXCEPT ![lN] = gen]
            /\ strands' = IF strands[e.replica] = None
                            THEN [strands EXCEPT ![e.replica] = gen] ELSE strands
            /\ sends' = IF e.type = "send" THEN [sends EXCEPT ![e.key] = gen] ELSE sends
  BY DEF setEvent, AddNode, SetNext, AddChild, Parents

\* Links stay symmetric and point back.
LEMMA LinkStep ==
  ASSUME LinkInv, NEW e \in Events, setEvent(e)
  PROVE  ChildrenAreNodes' /\ ParentsInPast' /\ LinksAgree'
  <1> DEFINE P == Parents(e)
  <1>0. DAGInv /\ TypeOK /\ gen < MaxEvents
    BY DEF LinkInv, DAGInv, setEvent
  <1>1. /\ P \subseteq nodes /\ nodes \subseteq EventIDs
        /\ gen \in EventIDs /\ gen \in Nat /\ gen \notin nodes
    BY <1>0, ParentsAreNodes
  <1>2. /\ nodes' = nodes \cup {gen}
        /\ \A x \in nodes : past'[x] = past[x]
        /\ past'[gen] = P \cup UNION {past[p] : p \in P}
    BY <1>0, NewNode
  <1>3. /\ parents' = [parents EXCEPT ![gen] = P]
        /\ children' = [i \in EventIDs |-> IF i \in P THEN children[i] \cup {gen} ELSE children[i]]
    BY <1>0, NewLinks
  <1> HIDE DEF P
  <1>4. /\ parents'[gen] = P
        /\ \A x \in nodes : parents'[x] = parents[x]
        /\ \A x \in EventIDs : children'[x] = IF x \in P THEN children[x] \cup {gen} ELSE children[x]
    BY <1>0, <1>1, <1>3 DEF TypeOK
  <1>5. ChildrenAreNodes'
    <2>1. \A i \in EventIDs : /\ children'[i] \subseteq nodes'
                              /\ i \notin nodes' => children'[i] = {}
      BY <1>1, <1>2, <1>4 DEF LinkInv, ChildrenAreNodes
    <2> QED  BY <2>1 DEF ChildrenAreNodes
  <1>6. ParentsInPast'
    <2>1. \A x \in nodes' : parents'[x] \subseteq past'[x]
      BY <1>2, <1>4 DEF LinkInv, ParentsInPast
    <2> QED  BY <2>1 DEF ParentsInPast
  <1>7. \A x, p \in nodes' : /\ p \in parents'[x] <=> x \in children'[p]
                             /\ p \in parents'[x] => p < x
    <2> SUFFICES ASSUME NEW x \in nodes', NEW p \in nodes'
                 PROVE  /\ p \in parents'[x] <=> x \in children'[p]
                        /\ p \in parents'[x] => p < x
      OBVIOUS
    <2>1. CASE x \in nodes /\ p \in nodes
      <3>1. /\ p \in parents[x] <=> x \in children[p]
            /\ p \in parents[x] => p < x
        BY <2>1 DEF LinkInv, StrandsAreChains, LinksAgree
      <3> QED  BY <1>1, <1>4, <2>1, <3>1
    <2>2. CASE x = gen /\ p \in nodes
      <3>1. gen \notin children[p]
        BY <1>1, <2>2 DEF LinkInv, ChildrenAreNodes
      <3>2. p < gen
        BY <1>1, <2>2 DEF nodes
      <3> QED  BY <1>1, <1>4, <2>2, <3>1, <3>2
    <2>3. CASE p = gen
      <3>1. children'[gen] = {}
        BY <1>1, <1>4 DEF LinkInv, ChildrenAreNodes
      <3>2. gen \notin parents'[x]
        <4>1. CASE x = gen
          BY <1>1, <1>4, <4>1
        <4>2. CASE x \in nodes
          <5>1. parents[x] \subseteq past[x] /\ past[x] \subseteq nodes
            BY <4>2 DEF LinkInv, DAGInv, ParentsInPast, PastIsEarlier
          <5> QED  BY <1>1, <1>4, <4>2, <5>1
        <4> QED  BY <1>2, <4>1, <4>2
      <3> QED  BY <2>3, <3>1, <3>2
    <2> QED  BY <1>2, <2>1, <2>2, <2>3
  <1>8. LinksAgree'
    BY <1>7 DEF LinksAgree
  <1> QED  BY <1>5, <1>6, <1>8

\* The strand of one replica, with its events given as a set.
ChainOf(mine, first, last, pre, nxt, par) ==
  \A e \in mine :
    /\ first \in mine /\ first <= e
    /\ last \in mine /\ e <= last
    /\ e # first => /\ pre[e] \in mine /\ pre[e] < e /\ nxt[pre[e]] = e
                    /\ pre[e] \in par[e]
                    /\ \A f \in mine : ~(pre[e] < f /\ f < e)

At(r) == {e \in nodes : event[e].replica = r}

\* The new node is the end of its replica's strand; the other strands stay.
LEMMA StrandStep ==
  ASSUME LinkInv, NEW e \in Events, setEvent(e)
  PROVE  StrandEnds' /\ StrandsAreChains'
  <1> DEFINE P == Parents(e)
             q == e.replica
             lN == latest[q]
  <1>0. DAGInv /\ TypeOK /\ gen < MaxEvents /\ q \in Replicas
    BY DEF LinkInv, DAGInv, setEvent, Events
  <1>1. /\ P \subseteq nodes /\ nodes \subseteq EventIDs
        /\ gen \in EventIDs /\ gen \in Nat /\ gen \notin nodes
    BY <1>0, ParentsAreNodes
  <1>2. /\ nodes' = nodes \cup {gen}
        /\ \A x \in nodes : event'[x] = event[x]
        /\ event'[gen] = e /\ latest' = [latest EXCEPT ![q] = gen]
    BY <1>0, NewNode
  <1>3. /\ parents' = [parents EXCEPT ![gen] = P]
        /\ prev' = IF lN = None THEN prev ELSE [prev EXCEPT ![gen] = lN]
        /\ next' = IF lN = None THEN next ELSE [next EXCEPT ![lN] = gen]
        /\ strands' = IF strands[q] = None THEN [strands EXCEPT ![q] = gen] ELSE strands
    BY <1>0, NewLinks
  <1>4. gen # None /\ \A x \in nodes : x # None /\ x < gen /\ x \in Int
    BY <1>1 DEF nodes, None
  <1>5. /\ lN \in nodes \cup {None} /\ (strands[q] = None <=> lN = None)
        /\ lN # None => own(lN) = q /\ lN \in P
    BY <1>0 DEF TypeOK, LinkInv, StrandEnds, Parents
  <1>6. /\ latest'[q] = gen /\ strands'[q] = IF lN = None THEN gen ELSE strands[q]
        /\ \A r \in Replicas : r # q => latest'[r] = latest[r] /\ strands'[r] = strands[r]
    BY <1>0, <1>2, <1>3, <1>5 DEF TypeOK
  <1>7. StrandEnds'
    <2>1. \A r \in Replicas : /\ strands'[r] = None <=> latest'[r] = None
                              /\ latest'[r] # None => event'[latest'[r]].replica = r
      <3> SUFFICES ASSUME NEW r \in Replicas
                   PROVE  /\ strands'[r] = None <=> latest'[r] = None
                          /\ latest'[r] # None => event'[latest'[r]].replica = r
        OBVIOUS
      <3>1. CASE r = q
        BY <1>2, <1>4, <1>5, <1>6, <3>1
      <3>2. CASE r # q
        <4>1. latest[r] \in nodes \cup {None}
          BY <1>0 DEF TypeOK
        <4> QED  BY <1>2, <1>6, <3>2, <4>1 DEF LinkInv, StrandEnds, own
      <3> QED  BY <3>1, <3>2
    <2> QED  BY <2>1 DEF StrandEnds, own
  <1>8. ASSUME NEW r \in Replicas
        PROVE  ChainOf(At(r), strands[r], latest[r], prev, next, parents)
    BY DEF LinkInv, StrandsAreChains, At, ChainOf
  <1>9. /\ parents'[gen] = P /\ \A x \in nodes : parents'[x] = parents[x] /\ prev'[x] = prev[x]
        /\ lN # None => prev'[gen] = lN /\ next'[lN] = gen
        /\ \A x \in nodes : x # lN => next'[x] = next[x]
    BY <1>0, <1>1, <1>3, <1>4, <1>5 DEF TypeOK
  <1>10. ASSUME NEW r \in Replicas
         PROVE  ChainOf(At(r)', strands'[r], latest'[r], prev', next', parents')
    <2> DEFINE S == At(r)
    <2>1. S \subseteq nodes
      BY DEF At
    <2>2. CASE r # q
      <3>1. At(r)' = S
        BY <1>2, <2>2 DEF At
      <3>2. \A x \in S : x # lN
        BY <1>4, <1>5, <2>2 DEF At, own
      <3> HIDE DEF S
      <3>3. ChainOf(S, strands[r], latest[r], prev, next, parents)
        BY <1>8 DEF S
      <3>4. ChainOf(S, strands'[r], latest'[r], prev', next', parents')
        BY <1>6, <1>9, <2>1, <2>2, <3>2, <3>3 DEF ChainOf
      <3> QED  BY <3>1, <3>4
    <2>3. CASE r = q
      <3>1. At(r)' = S \cup {gen}
        BY <1>2, <2>3 DEF At
      <3>2. lN # None => lN \in S
        BY <1>5, <2>3 DEF At, own
      <3>3. lN = None => S = {}
        BY <1>0, <2>3 DEF At, DAGInv, LatestIsLast, own
      <3> HIDE DEF S
      <3>4. ChainOf(S, strands[q], lN, prev, next, parents)
        BY <1>8, <2>3 DEF S
      <3>5. ChainOf(S \cup {gen}, strands'[q], gen, prev', next', parents')
        <4>1. CASE lN = None
          BY <1>1, <1>6, <3>3, <4>1 DEF ChainOf
        <4>2. CASE lN # None
          <5>1. lN \in S /\ strands'[q] = strands[q] /\ strands[q] \in S
            BY <1>6, <3>2, <3>4, <4>2 DEF ChainOf
          <5>2. \A x \in S : x <= lN /\ strands[q] <= x /\ x < gen /\ x \in Int
            BY <1>4, <2>1, <3>4 DEF ChainOf
          <5>3. ASSUME NEW x \in S, x # strands[q]
                PROVE  /\ prev'[x] \in S /\ prev'[x] < x /\ next'[prev'[x]] = x
                       /\ prev'[x] \in parents'[x]
                       /\ \A f \in S \cup {gen} : ~(prev'[x] < f /\ f < x)
            <6>1. /\ prev[x] \in S /\ prev[x] < x /\ next[prev[x]] = x
                  /\ prev[x] \in parents[x] /\ \A f \in S : ~(prev[x] < f /\ f < x)
              BY <3>4, <5>3 DEF ChainOf
            <6>2. prev[x] # lN
              BY <5>1, <5>2, <6>1
            <6>3. prev'[x] = prev[x] /\ parents'[x] = parents[x] /\ next'[prev[x]] = next[prev[x]]
              BY <1>9, <2>1, <6>1, <6>2
            <6>4. ~(gen < x)
              BY <1>1, <5>2
            <6> QED  BY <6>1, <6>3, <6>4
          <5>4. /\ prev'[gen] \in S /\ prev'[gen] < gen /\ next'[prev'[gen]] = gen
                /\ prev'[gen] \in parents'[gen]
                /\ \A f \in S \cup {gen} : ~(prev'[gen] < f /\ f < gen)
            <6>1. prev'[gen] = lN /\ next'[lN] = gen /\ parents'[gen] = P /\ lN \in P
              BY <1>5, <1>9, <4>2
            <6>2. \A f \in S : ~(lN < f)
              BY <5>1, <5>2
            <6>3. ~(gen < gen)
              BY <1>1
            <6> QED  BY <5>1, <5>2, <6>1, <6>2, <6>3
          <5>5. \A x \in S \cup {gen} : x <= gen /\ strands[q] <= x
            BY <1>1, <5>1, <5>2
          <5> QED  BY <5>1, <5>3, <5>4, <5>5 DEF ChainOf
        <4> QED  BY <4>1, <4>2
      <3> QED  BY <1>6, <2>3, <3>1, <3>5
    <2> QED  BY <2>2, <2>3
  <1>11. StrandsAreChains'
    BY <1>10, LinkStep DEF StrandsAreChains, ChainOf, At
  <1> QED  BY <1>7, <1>11

\* Context.sends holds the last send, and a receive gets it as a parent.
LEMMA SendStep ==
  ASSUME LinkInv, NEW e \in Events, setEvent(e)
  PROVE  SendsHoldsLast' /\ ReceivesKnowSend'
  <1> DEFINE P == Parents(e)
  <1>0. DAGInv /\ TypeOK /\ gen < MaxEvents /\ e.key \in Keys
    BY DEF LinkInv, DAGInv, setEvent, Events
  <1>1. /\ P \subseteq nodes /\ nodes \subseteq EventIDs
        /\ gen \in EventIDs /\ gen \in Nat /\ gen \notin nodes
    BY <1>0, ParentsAreNodes
  <1>2. /\ nodes' = nodes \cup {gen}
        /\ \A x \in nodes : event'[x] = event[x]
        /\ event'[gen] = e
    BY <1>0, NewNode
  <1>3. /\ parents' = [parents EXCEPT ![gen] = P]
        /\ sends' = IF e.type = "send" THEN [sends EXCEPT ![e.key] = gen] ELSE sends
    BY <1>0, NewLinks
  <1>4. gen # None /\ \A x \in nodes : x # None /\ x < gen /\ x \in Int
    BY <1>1 DEF nodes, None
  <1>5. parents'[gen] = P /\ \A x \in nodes : parents'[x] = parents[x]
    BY <1>0, <1>1, <1>3 DEF TypeOK
  <1>6. SendsHoldsLast'
    <2>1. ASSUME NEW k \in Keys
          PROVE  /\ sends'[k] # None => event'[sends'[k]].type = "send" /\ event'[sends'[k]].key = k
                 /\ \A s \in nodes' : event'[s].type = "send" /\ event'[s].key = k
                      => sends'[k] # None /\ s <= sends'[k]
      <3>0. /\ sends[k] \in nodes \cup {None}
            /\ sends[k] # None => event[sends[k]].type = "send" /\ event[sends[k]].key = k
            /\ \A s \in nodes : event[s].type = "send" /\ event[s].key = k
                 => sends[k] # None /\ s <= sends[k]
        BY <1>0 DEF TypeOK, LinkInv, SendsHoldsLast, IsSendOf
      <3>1. CASE e.type = "send" /\ e.key = k
        <4>1. sends'[k] = gen
          BY <1>0, <1>3, <3>1 DEF TypeOK
        <4>2. \A s \in nodes' : s <= gen
          BY <1>1, <1>2, <1>4
        <4> QED  BY <1>2, <1>4, <3>1, <4>1, <4>2
      <3>2. CASE ~(e.type = "send" /\ e.key = k)
        <4>1. sends'[k] = sends[k]
          BY <1>0, <1>3, <3>2 DEF TypeOK
        <4> QED  BY <1>2, <3>0, <3>2, <4>1
      <3> QED  BY <3>1, <3>2
    <2> QED  BY <2>1 DEF SendsHoldsLast, IsSendOf
  <1>7. ReceivesKnowSend'
    <2>1. ASSUME NEW x \in nodes', event'[x].type = "receive", NEW s \in nodes', s < x,
                 event'[s].type = "send", event'[s].key = event'[x].key
          PROVE  \E p \in parents'[x] : /\ event'[p].type = "send"
                                        /\ event'[p].key = event'[x].key /\ s <= p
      <3>1. s \in nodes
        <4>1. ~(gen < x)
          <5>1. CASE x = gen
            BY <1>1, <5>1
          <5>2. CASE x \in nodes
            BY <1>1, <1>4, <5>2
          <5> QED  BY <1>2, <5>1, <5>2
        <4> QED  BY <1>2, <2>1, <4>1
      <3>2. CASE x \in nodes
        <4>1. \E p \in GetSendNode(x) : s <= p
          BY <1>2, <2>1, <3>1, <3>2 DEF LinkInv, ReceivesKnowSend, IsSendOf
        <4>2. PICK p \in parents[x] : /\ event[p].type = "send" /\ event[p].key = event[x].key
                                      /\ s <= p
          BY <4>1 DEF GetSendNode
        <4>3. p \in nodes
          BY <3>2 DEF LinkInv, DAGInv, ParentsInPast, PastIsEarlier
        <4> QED  BY <1>2, <1>5, <3>2, <4>2, <4>3
      <3>3. CASE x = gen
        <4> DEFINE p == sends[e.key]
        <4>1. p # None /\ s <= p /\ event[p].type = "send" /\ event[p].key = e.key
          BY <1>0, <1>2, <2>1, <3>1, <3>3 DEF LinkInv, SendsHoldsLast, IsSendOf
        <4>2. p \in P
          BY <1>2, <2>1, <3>3, <4>1 DEF Parents
        <4> QED  BY <1>1, <1>2, <1>5, <3>3, <4>1, <4>2
      <3> QED  BY <1>2, <3>2, <3>3
    <2> QED  BY <2>1 DEF ReceivesKnowSend, IsSendOf, GetSendNode
  <1> QED  BY <1>6, <1>7

\* LinkInv is an invariant.
LEMMA LinkInvariant == Spec => []LinkInv
  <1>1. Init => LinkInv
    <2> SUFFICES ASSUME Init PROVE LinkInv
      OBVIOUS
    <2>1. nodes = {}
      BY DEF Init, nodes
    <2>2. ChildrenAreNodes /\ StrandEnds /\ SendsHoldsLast
      BY <2>1 DEF Init, ChildrenAreNodes, StrandEnds, SendsHoldsLast
    <2> QED  BY <2>1, <2>2, DAGInvInit
             DEF LinkInv, ParentsInPast, ReceivesKnowSend, StrandsAreChains, LinksAgree
  <1>2. LinkInv /\ [Next]_vars => LinkInv'
    <2> SUFFICES ASSUME LinkInv, [Next]_vars PROVE LinkInv'
      OBVIOUS
    <2>1. CASE Next
      <3>1. PICK e \in Events : setEvent(e)
        BY <2>1 DEF Next
      <3>2. DAGInv'
        BY <3>1, ClockStep DEF LinkInv
      <3> QED  BY <3>1, <3>2, LinkStep, StrandStep, SendStep DEF LinkInv
    <2>2. CASE UNCHANGED vars
      <3>1. DAGInv'
        BY <2>2 DEF vars, LinkInv, DAGInv, TypeOK, PastIsEarlier, ClockTellsPast, ClocksGrow,
                    LatestIsLast, NobodyKnowsMore, OwnIsPositive, own, nodes
      <3> QED  BY <2>2, <3>1
               DEF vars, LinkInv, ChildrenAreNodes, StrandEnds, ParentsInPast, SendsHoldsLast,
                   IsSendOf, ReceivesKnowSend, GetSendNode, StrandsAreChains, LinksAgree, own, nodes
    <2> QED  BY <2>1, <2>2
  <1> QED  BY <1>1, <1>2, PTL DEF Spec

\* In whatever order events come, the strand of every replica is one chain of
\* its events from strands to latest, and children is the inverse of parents.
THEOREM StrandsChained == Spec => []StrandsAreChains
  <1>1. LinkInv => StrandsAreChains
    BY DEF LinkInv
  <1> QED  BY <1>1, LinkInvariant, PTL

\* GetSendNode and GetTimeoutStart answer with events of the past only, and a
\* receive finds the send of its message if that was added before.
THEOREM LookupsCorrect == Spec => []LookupsFindThePast
  <1>1. LinkInv /\ ClocksAreHappensBefore => LookupsFindThePast
    <2> SUFFICES ASSUME LinkInv, ClocksAreHappensBefore, NEW e \in nodes
                 PROVE  /\ \A p \in GetSendNode(e) \cup GetTimeoutStart(e) : Lt(clock[p], clock[e])
                        /\ event[e].type = "receive" =>
                             \A s \in nodes :
                               (s < e /\ event[s].type = "send" /\ event[s].key = event[e].key)
                                 => \E p \in GetSendNode(e) : s <= p
      BY DEF LookupsFindThePast
    <2>1. ASSUME NEW p \in GetSendNode(e) \cup GetTimeoutStart(e) PROVE Lt(clock[p], clock[e])
      <3>1. p \in parents[e]
        BY DEF GetSendNode, GetTimeoutStart
      <3>2. p \in past[e] /\ p \in nodes
        BY <3>1 DEF LinkInv, DAGInv, ParentsInPast, PastIsEarlier
      <3> QED  BY <3>2 DEF ClocksAreHappensBefore
    <2>2. event[e].type = "receive" =>
            \A s \in nodes : (s < e /\ event[s].type = "send" /\ event[s].key = event[e].key)
                               => \E p \in GetSendNode(e) : s <= p
      BY DEF LinkInv, ReceivesKnowSend, IsSendOf
    <2> QED  BY <2>1, <2>2
  <1> QED  BY <1>1, LinkInvariant, VectorClocksCorrect, PTL

=============================================================================
