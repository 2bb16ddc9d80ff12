--------------------------- MODULE TxGossipProofs ---------------------------
(***************************************************************************)
(* Proof that the concurrent list of the mempool stays intact (ListIntact) *)
(* whatever the mempool appends and removes while the broadcast routines   *)
(* walk it, for any number of transactions and peers.                      *)
(***************************************************************************)
EXTENDS TxGossip, FiniteSetTheorems, WellFoundedInduction, TLAPS

-----------------------------------------------------------------------------
(***************************************************************************)
(* Least and Greatest of a set of numbers.                                 *)
(***************************************************************************)
\* A nonempty set of natural numbers has a least element.
LEMMA LeastExists ==
  ASSUME NEW S, S \subseteq Nat, S # {}
  PROVE  \E x \in S : \A y \in S : x <= y
  <1> DEFINE R == OpToRel(<, Nat)
  <1>1. IsWellFoundedOn(R, Nat)
    BY NatLessThanWellFounded
  <1> HIDE DEF R
  <1>2. PICK x \in S : \A y \in S : ~(<<y, x>> \in R)
    BY <1>1, WFMin
  <1>3. \A y \in S : ~(y < x)
    BY <1>2 DEF R, OpToRel
  <1>4. \A y \in S : x <= y
    BY <1>3
  <1> QED  BY <1>4

\* A nonempty set of numbers that a number bounds has a greatest element.
LEMMA GreatestExists ==
  ASSUME NEW n \in Nat, NEW S, S \subseteq 0 .. n, S # {}
  PROVE  \E x \in S : \A y \in S : x >= y
  <1> DEFINE T == {n - x : x \in S}
  <1>1. T \subseteq Nat /\ T # {}
    <2>1. \A x \in S : n - x \in Nat
      OBVIOUS
    <2> QED  BY <2>1
  <1>2. PICK z \in T : \A y \in T : z <= y
    <2> HIDE DEF T
    <2> QED  BY <1>1, LeastExists
  <1>3. PICK x \in S : z = n - x
    BY <1>2
  <1>4. \A y \in S : n - x <= n - y
    BY <1>2, <1>3
  <1>5. \A y \in S : x >= y
    BY <1>3, <1>4
  <1> QED  BY <1>3, <1>5

\* Min is the only element that no other is below.
LEMMA MinIs ==
  ASSUME NEW S, S \subseteq Nat, NEW x \in S, \A y \in S : x <= y
  PROVE  Min(S) = x
  <1>1. Min(S) \in S /\ \A y \in S : Min(S) <= y
    BY DEF Min
  <1>2. Min(S) \in Nat /\ x \in Nat
    BY <1>1
  <1>3. Min(S) <= x /\ x <= Min(S)
    BY <1>1
  <1> QED  BY <1>2, <1>3

\* Max is the only element that no other is above.
LEMMA MaxIs ==
  ASSUME NEW S, S \subseteq Nat, NEW x \in S, \A y \in S : x >= y
  PROVE  Max(S) = x
  <1>1. Max(S) \in S /\ \A y \in S : Max(S) >= y
    BY DEF Max
  <1>2. Max(S) \in Nat /\ x \in Nat
    BY <1>1
  <1>3. Max(S) >= x /\ x >= Max(S)
    BY <1>1
  <1> QED  BY <1>2, <1>3

-----------------------------------------------------------------------------
(***************************************************************************)
(* A list L of numbers in their order, without Least and Greatest: n is    *)
(* what follows, or what comes before, place e of L.                       *)
(***************************************************************************)
IsNext(L, e, n) ==
  \/ n = Nil /\ \A f \in L : f <= e
  \/ n \in L /\ e < n /\ \A f \in L : f <= e \/ n <= f

IsPrev(L, e, n) ==
  \/ n = Nil /\ \A f \in L : e <= f
  \/ n \in L /\ n < e /\ \A f \in L : e <= f \/ f <= n

\* The least element above e is what follows it.
LEMMA LeastIsNext ==
  ASSUME NEW L, L \subseteq Elements, NEW e \in Nat, NEW n
  PROVE  n = Least({f \in L : f > e}) <=> IsNext(L, e, n)
  <1> DEFINE S == {f \in L : f > e}
  <1>0. S \subseteq Nat
    <2>1. \A f \in L : f \in Nat
      BY TxGossipAssumption DEF Elements
    <2> QED  BY <2>1
  <1>1. CASE S = {}
    <2>1. Least(S) = Nil
      BY <1>1 DEF Least
    <2>2. \A f \in L : f <= e
      BY <1>1 DEF Elements
    <2>3. \A f \in L : ~(e < f)
      BY <1>1
    <2> QED  BY <2>1, <2>2, <2>3 DEF IsNext
  <1>2. CASE S # {}
    <2>1. PICK x \in S : \A y \in S : x <= y
      <3> HIDE DEF S
      <3> QED  BY <1>0, <1>2, LeastExists
    <2>2. Least(S) = x
      <3> HIDE DEF S
      <3>1. Min(S) = x
        BY <1>0, <2>1, MinIs
      <3> QED  BY <1>2, <3>1 DEF Least
    <2>3. x \in L /\ e < x /\ ~(x <= e) /\ x \in Nat
      BY <2>1 DEF Elements
    <2>4. \A f \in L : f <= e \/ x <= f
      BY <2>1 DEF Elements
    <2>5. IsNext(L, e, x)
      BY <2>3, <2>4 DEF IsNext
    <2>6. ASSUME IsNext(L, e, n) PROVE n = x
      <3>1. n \in L /\ e < n /\ \A f \in L : f <= e \/ n <= f
        BY <2>3, <2>6 DEF IsNext
      <3>2. n <= x /\ x <= n /\ n \in Nat
        BY <2>3, <2>4, <3>1 DEF Elements
      <3> QED  BY <2>3, <3>2
    <2> QED  BY <2>2, <2>5, <2>6
  <1> QED  BY <1>1, <1>2

\* The greatest element below e is what comes before it.
LEMMA GreatestIsPrev ==
  ASSUME NEW L, L \subseteq Elements, NEW e \in Nat, NEW n
  PROVE  n = Greatest({f \in L : f < e}) <=> IsPrev(L, e, n)
  <1> DEFINE S == {f \in L : f < e}
  <1>0. S \subseteq Nat /\ S \subseteq 0 .. e
    <2>1. \A f \in L : f \in Nat
      BY TxGossipAssumption DEF Elements
    <2> QED  BY <2>1
  <1>1. CASE S = {}
    <2>1. Greatest(S) = Nil
      BY <1>1 DEF Greatest
    <2>2. \A f \in L : e <= f
      BY <1>1 DEF Elements
    <2>3. \A f \in L : ~(f < e)
      BY <1>1
    <2> QED  BY <2>1, <2>2, <2>3 DEF IsPrev
  <1>2. CASE S # {}
    <2>1. PICK x \in S : \A y \in S : x >= y
      <3> HIDE DEF S
      <3> QED  BY <1>0, <1>2, GreatestExists
    <2>2. Greatest(S) = x
      <3> HIDE DEF S
      <3>1. Max(S) = x
        BY <1>0, <2>1, MaxIs
      <3> QED  BY <1>2, <3>1 DEF Greatest
    <2>3. x \in L /\ x < e /\ ~(e <= x) /\ x \in Nat
      BY <2>1 DEF Elements
    <2>4. \A f \in L : e <= f \/ f <= x
      BY <2>1 DEF Elements
    <2>5. IsPrev(L, e, x)
      BY <2>3, <2>4 DEF IsPrev
    <2>6. ASSUME IsPrev(L, e, n) PROVE n = x
      <3>1. n \in L /\ n < e /\ \A f \in L : e <= f \/ f <= n
        BY <2>3, <2>6 DEF IsPrev
      <3>2. n <= x /\ x <= n /\ n \in Nat
        BY <2>3, <2>4, <3>1 DEF Elements
      <3> QED  BY <2>3, <3>2
    <2> QED  BY <2>2, <2>5, <2>6
  <1> QED  BY <1>1, <1>2

-----------------------------------------------------------------------------
(***************************************************************************)
(* The list l with elements el holds L, in its order and both directions.  *)
(***************************************************************************)
Element == [prev : Elements \cup {Nil}, next : Elements \cup {Nil},
            removed : BOOLEAN, open : BOOLEAN]

Links(L, el) ==
  \A e \in L : /\ IsNext(L, e, el[e].next) /\ IsPrev(L, e, el[e].prev)
               /\ el[e].open <=> el[e].next = Nil

Ends(L, l) ==
  /\ IsNext(L, 0, l.head) /\ IsPrev(L, MaxElements + 1, l.tail)
  /\ l.len = Cardinality(L)
  /\ l.open <=> L = {}

\* The elements are numbers, and Nil is none of them.
LEMMA ElementsAreNumbers ==
  /\ \A e \in Elements : e \in Nat /\ 0 < e /\ e < MaxElements + 1 /\ e # Nil
  /\ MaxElements + 1 \in Nat
  /\ IsFiniteSet(Elements)
  <1>1. MaxElements \in Nat /\ Nil \notin Nat
    BY TxGossipAssumption
  <1>2. IsFiniteSet(1 .. MaxElements)
    BY <1>1, FS_Interval
  <1> QED  BY <1>1, <1>2 DEF Elements

\* ListIntact says of the list what Ends and Links say.
LEMMA IntactIs ==
  ASSUME TypeOK, Linked \subseteq Elements
  PROVE  ListIntact <=> ~panic /\ Ends(Linked, list) /\ Links(Linked, elem)
  <1>1. Linked = {f \in Linked : f > 0} /\ Linked = {f \in Linked : f < MaxElements + 1}
    BY ElementsAreNumbers
  <1>2. /\ list.head = Least(Linked) <=> IsNext(Linked, 0, list.head)
        /\ list.tail = Greatest(Linked) <=> IsPrev(Linked, MaxElements + 1, list.tail)
    <2> DEFINE L == Linked
    <2>0. /\ L \subseteq Elements
          /\ L = {f \in L : f > 0} /\ L = {f \in L : f < MaxElements + 1}
      BY <1>1
    <2> HIDE DEF L
    <2>1. list.head = Least({f \in L : f > 0}) <=> IsNext(L, 0, list.head)
      BY <2>0, LeastIsNext
    <2>2. list.tail = Greatest({f \in L : f < MaxElements + 1})
            <=> IsPrev(L, MaxElements + 1, list.tail)
      BY <2>0, ElementsAreNumbers, GreatestIsPrev
    <2>3. /\ list.head = Least(L) <=> IsNext(L, 0, list.head)
          /\ list.tail = Greatest(L) <=> IsPrev(L, MaxElements + 1, list.tail)
      BY <2>0, <2>1, <2>2
    <2> QED  BY <2>3 DEF L
  <1>3. list.open = (Linked = {}) <=> (list.open <=> Linked = {})
    <2>1. list.open \in BOOLEAN
      BY DEF TypeOK
    <2> QED  BY <2>1
  <1>4. ASSUME NEW e \in Linked
        PROVE  /\ elem[e].next = Least({f \in Linked : f > e})
                    <=> IsNext(Linked, e, elem[e].next)
               /\ elem[e].prev = Greatest({f \in Linked : f < e})
                    <=> IsPrev(Linked, e, elem[e].prev)
               /\ elem[e].open = (elem[e].next = Nil)
                    <=> (elem[e].open <=> elem[e].next = Nil)
    <2>1. e \in Elements /\ e \in Nat
      BY ElementsAreNumbers
    <2>2. elem[e].open \in BOOLEAN
      BY <2>1 DEF TypeOK
    <2>3. elem[e].next = Least({f \in Linked : f > e})
            <=> IsNext(Linked, e, elem[e].next)
      BY <2>1, LeastIsNext
    <2>4. elem[e].prev = Greatest({f \in Linked : f < e})
            <=> IsPrev(Linked, e, elem[e].prev)
      BY <2>1, GreatestIsPrev
    <2>5. elem[e].open = (elem[e].next = Nil)
            <=> (elem[e].open <=> elem[e].next = Nil)
      BY <2>2
    <2> QED  BY <2>3, <2>4, <2>5
  <1> QED  BY <1>2, <1>3, <1>4 DEF ListIntact, Ends, Links

\* What SetNext does to the element, and to no other.
LEMMA SetNextIs ==
  ASSUME NEW el \in [Elements -> Element], NEW e \in Elements,
         NEW n \in Elements \cup {Nil}
  PROVE  /\ SetNext(el, e, n) \in [Elements -> Element]
         /\ \A f \in Elements : f # e => SetNext(el, e, n)[f] = el[f]
         /\ SetNext(el, e, n)[e].next = n
         /\ SetNext(el, e, n)[e].prev = el[e].prev
         /\ SetNext(el, e, n)[e].removed = el[e].removed
         /\ (el[e].open <=> el[e].next = Nil)
              => (SetNext(el, e, n)[e].open <=> n = Nil)
  <1> DEFINE o == IF el[e].next # Nil /\ n = Nil THEN TRUE
                  ELSE IF el[e].next = Nil /\ n # Nil THEN FALSE
                  ELSE el[e].open
  <1>1. el[e] \in Element
    OBVIOUS
  <1>2. o \in BOOLEAN
    BY <1>1 DEF Element
  <1>3. (el[e].open <=> el[e].next = Nil) => (o <=> n = Nil)
    OBVIOUS
  <1>4. SetNext(el, e, n) = [el EXCEPT ![e] = [el[e] EXCEPT !.next = n, !.open = o]]
    BY DEF SetNext
  <1> HIDE DEF o
  <1>5. [el[e] EXCEPT !.next = n, !.open = o] \in Element
    BY <1>1, <1>2 DEF Element
  <1>6. /\ [el[e] EXCEPT !.next = n, !.open = o].next = n
        /\ [el[e] EXCEPT !.next = n, !.open = o].prev = el[e].prev
        /\ [el[e] EXCEPT !.next = n, !.open = o].removed = el[e].removed
        /\ [el[e] EXCEPT !.next = n, !.open = o].open = o
    BY <1>1 DEF Element
  <1>7. SetNext(el, e, n)[e] = [el[e] EXCEPT !.next = n, !.open = o]
    BY <1>4
  <1>8. \A f \in Elements : f # e => SetNext(el, e, n)[f] = el[f]
    BY <1>4
  <1>9. SetNext(el, e, n) \in [Elements -> Element]
    BY <1>4, <1>5
  <1> QED  BY <1>3, <1>6, <1>7, <1>8, <1>9

-----------------------------------------------------------------------------
(***************************************************************************)
(* PushBack and Remove on a list that holds L.                             *)
(***************************************************************************)
\* An empty list has no tail, and the tail of any other is its greatest
\* element, which nothing follows.
LEMMA TailIs ==
  ASSUME NEW L, L \subseteq Elements, NEW l, NEW el, Ends(L, l), Links(L, el)
  PROVE  /\ l.tail = Nil <=> L = {}
         /\ l.tail # Nil => /\ l.tail \in L /\ \A f \in L : f <= l.tail
                            /\ el[l.tail].next = Nil
  <1>1. IsPrev(L, MaxElements + 1, l.tail)
    BY DEF Ends
  <1>2. \A f \in L : f \in Nat /\ f # Nil /\ ~(MaxElements + 1 <= f)
    BY ElementsAreNumbers
  <1>3. CASE l.tail = Nil
    BY <1>1, <1>2, <1>3 DEF IsPrev
  <1>4. CASE l.tail # Nil
    <2>1. l.tail \in L /\ \A f \in L : f <= l.tail
      BY <1>1, <1>2, <1>4 DEF IsPrev
    <2>2. IsNext(L, l.tail, el[l.tail].next)
      BY <2>1 DEF Links
    <2>3. el[l.tail].next = Nil
      BY <1>2, <2>1, <2>2 DEF IsNext
    <2> QED  BY <1>4, <2>1, <2>3
  <1> QED  BY <1>3, <1>4

\* PushBack into an empty list.
LEMMA PushFirst ==
  ASSUME NEW e \in Elements, NEW l, NEW el,
         l.head = e, l.tail = e, l.len = 1, ~l.open,
         el[e].next = Nil, el[e].prev = Nil, el[e].open
  PROVE  Ends({e}, l) /\ Links({e}, el)
  <1>0. e \in Nat /\ 0 < e /\ e < MaxElements + 1 /\ e <= e
    BY ElementsAreNumbers
  <1>1. Cardinality({e}) = 1
    BY FS_Singleton
  <1>2. IsNext({e}, 0, e) /\ IsPrev({e}, MaxElements + 1, e)
    BY <1>0 DEF IsNext, IsPrev
  <1>3. IsNext({e}, e, Nil) /\ IsPrev({e}, e, Nil)
    BY <1>0 DEF IsNext, IsPrev
  <1>4. Ends({e}, l)
    BY <1>1, <1>2 DEF Ends
  <1>5. Links({e}, el)
    BY <1>3 DEF Links
  <1> QED  BY <1>4, <1>5

\* PushBack behind the tail: e is above every element of the list.
LEMMA PushBehind ==
  ASSUME NEW L, L \subseteq Elements, NEW e \in Elements, \A f \in L : f < e,
         NEW l, NEW el, Ends(L, l), Links(L, el), l.tail # Nil,
         NEW k, k.head = l.head, k.tail = e, k.len = l.len + 1, ~k.open,
         NEW en,
         en[e].next = Nil, en[e].prev = l.tail, en[e].open,
         en[l.tail].next = e, en[l.tail].prev = el[l.tail].prev, ~en[l.tail].open,
         \A f \in L : f # l.tail => en[f] = el[f]
  PROVE  Ends(L \cup {e}, k) /\ Links(L \cup {e}, en)
  <1> DEFINE t == l.tail
             M == L \cup {e}
  <1>0. /\ \A f \in M : f \in Nat /\ 0 < f /\ f < MaxElements + 1 /\ f # Nil
        /\ MaxElements + 1 \in Nat
    BY ElementsAreNumbers
  <1>1. t \in L /\ t < e /\ \A f \in L : f <= t
    BY TailIs
  <1>2. e \notin L
    BY <1>0
  <1>3. Cardinality(M) = l.len + 1
    <2>1. IsFiniteSet(L)
      BY ElementsAreNumbers, FS_Subset
    <2>2. Cardinality(L \cup {e}) = Cardinality(L) + 1
      BY <1>2, <2>1, FS_AddElement
    <2> QED  BY <2>2 DEF Ends
  <1>4. IsNext(M, 0, l.head)
    <2>1. IsNext(L, 0, l.head)
      BY DEF Ends
    <2>2. l.head \in L /\ 0 < l.head /\ \A f \in L : f <= 0 \/ l.head <= f
      BY <1>0, <1>1, <2>1 DEF IsNext
    <2>3. l.head <= e
      BY <1>0, <2>2
    <2> QED  BY <2>2, <2>3 DEF IsNext
  <1>5. IsPrev(M, MaxElements + 1, e)
    <2>1. \A f \in M : f <= e
      BY <1>0
    <2> QED  BY <1>0, <2>1 DEF IsPrev
  <1>6. Ends(M, k)
    BY <1>3, <1>4, <1>5 DEF Ends
  <1>7. IsNext(M, e, Nil)
    BY <1>0 DEF IsNext
  <1>8. IsPrev(M, e, t)
    BY <1>0, <1>1 DEF IsPrev
  <1>9. IsNext(M, t, e)
    BY <1>0, <1>1 DEF IsNext
  <1>10. \A f \in L : IsPrev(M, f, el[f].prev)
    <2> TAKE f \in L
    <2>1. IsPrev(L, f, el[f].prev)
      BY DEF Links
    <2>2. f <= e
      BY <1>0
    <2> QED  BY <2>1, <2>2 DEF IsPrev
  <1>11. ASSUME NEW f \in L, f # t
         PROVE  IsNext(M, f, el[f].next) /\ (el[f].open <=> el[f].next = Nil)
    <2>1. IsNext(L, f, el[f].next) /\ (el[f].open <=> el[f].next = Nil)
      BY DEF Links
    <2>2. f < t
      BY <1>0, <1>1, <1>11
    <2>3. el[f].next # Nil
      <3>1. ~(t <= f)
        BY <1>0, <1>1, <2>2
      <3>2. \A g \in L : g # Nil
        BY <1>0
      <3> QED  BY <1>1, <2>1, <3>1, <3>2 DEF IsNext
    <2>4. el[f].next \in L /\ f < el[f].next /\ \A g \in L : g <= f \/ el[f].next <= g
      BY <2>1, <2>3 DEF IsNext
    <2>5. el[f].next <= e
      BY <1>0, <2>4
    <2> QED  BY <2>1, <2>4, <2>5 DEF IsNext
  <1>12. Links(M, en)
    <2> SUFFICES ASSUME NEW f \in M
                 PROVE  /\ IsNext(M, f, en[f].next) /\ IsPrev(M, f, en[f].prev)
                        /\ en[f].open <=> en[f].next = Nil
      BY DEF Links
    <2> HIDE DEF M
    <2>1. CASE f = e
      BY <1>7, <1>8, <2>1
    <2>2. CASE f = t
      <3>1. e # Nil
        BY <1>0 DEF M
      <3> QED  BY <1>1, <1>9, <1>10, <2>2, <3>1
    <2>3. CASE f \in L /\ f # t
      BY <1>10, <1>11, <2>3
    <2> QED  BY <1>1, <2>1, <2>2, <2>3 DEF M
  <1> QED  BY <1>6, <1>12

\* e follows f exactly when f comes before e.
LEMMA Adjacent ==
  ASSUME NEW L, L \subseteq Elements, NEW e \in L, NEW f \in L
  PROVE  IsNext(L, f, e) <=> IsPrev(L, e, f)
  <1>1. e # Nil /\ f # Nil /\ e \in Nat /\ f \in Nat
    BY ElementsAreNumbers
  <1>2. \A g \in L : g \in Nat
    BY ElementsAreNumbers
  <1> QED  BY <1>1, <1>2 DEF IsNext, IsPrev

\* One place has one successor and one predecessor.
LEMMA Unique ==
  ASSUME NEW L, L \subseteq Elements, NEW f \in Nat, NEW m, NEW n
  PROVE  /\ IsNext(L, f, m) /\ IsNext(L, f, n) => m = n
         /\ IsPrev(L, f, m) /\ IsPrev(L, f, n) => m = n
  <1>1. IsNext(L, f, m) /\ IsNext(L, f, n) => m = n
    <2>1. m = Least({g \in L : g > f}) <=> IsNext(L, f, m)
      BY LeastIsNext
    <2>2. n = Least({g \in L : g > f}) <=> IsNext(L, f, n)
      BY LeastIsNext
    <2> QED  BY <2>1, <2>2
  <1>2. IsPrev(L, f, m) /\ IsPrev(L, f, n) => m = n
    <2>1. m = Greatest({g \in L : g < f}) <=> IsPrev(L, f, m)
      BY GreatestIsPrev
    <2>2. n = Greatest({g \in L : g < f}) <=> IsPrev(L, f, n)
      BY GreatestIsPrev
    <2> QED  BY <2>1, <2>2
  <1> QED  BY <1>1, <1>2

\* Without e, what followed e follows whatever e followed.
LEMMA NextWithout ==
  ASSUME NEW L, L \subseteq Elements, NEW e \in L, NEW a, IsNext(L, e, a),
         NEW f \in Nat, NEW n, IsNext(L, f, n)
  PROVE  /\ n = e => IsNext(L \ {e}, f, a)
         /\ n # e => IsNext(L \ {e}, f, n)
  <1>0. \A g \in L : g \in Nat /\ g # Nil
    BY ElementsAreNumbers
  <1>1. CASE n = e
    <2>1. f < e /\ \A g \in L : g <= f \/ e <= g
      BY <1>0, <1>1 DEF IsNext
    <2>2. CASE a = Nil
      <3>1. \A g \in L : g <= e
        BY <1>0, <2>2 DEF IsNext
      <3>2. \A g \in L \ {e} : g <= f
        BY <1>0, <2>1, <3>1
      <3> QED  BY <1>1, <2>2, <3>2 DEF IsNext
    <2>3. CASE a # Nil
      <3>1. a \in L /\ e < a /\ \A g \in L : g <= e \/ a <= g
        BY <2>3 DEF IsNext
      <3>2. a \in L \ {e} /\ f < a /\ \A g \in L \ {e} : g <= f \/ a <= g
        BY <1>0, <2>1, <3>1
      <3> QED  BY <1>1, <3>2 DEF IsNext
    <2> QED  BY <2>2, <2>3
  <1>2. CASE n # e
    BY <1>2 DEF IsNext
  <1> QED  BY <1>1, <1>2

\* Without e, what came before e comes before whatever e came before.
LEMMA PrevWithout ==
  ASSUME NEW L, L \subseteq Elements, NEW e \in L, NEW b, IsPrev(L, e, b),
         NEW f \in Nat, NEW n, IsPrev(L, f, n)
  PROVE  /\ n = e => IsPrev(L \ {e}, f, b)
         /\ n # e => IsPrev(L \ {e}, f, n)
  <1>0. \A g \in L : g \in Nat /\ g # Nil
    BY ElementsAreNumbers
  <1>1. CASE n = e
    <2>1. e < f /\ \A g \in L : f <= g \/ g <= e
      BY <1>0, <1>1 DEF IsPrev
    <2>2. CASE b = Nil
      <3>1. \A g \in L : e <= g
        BY <1>0, <2>2 DEF IsPrev
      <3>2. \A g \in L \ {e} : f <= g
        BY <1>0, <2>1, <3>1
      <3> QED  BY <1>1, <2>2, <3>2 DEF IsPrev
    <2>3. CASE b # Nil
      <3>1. b \in L /\ b < e /\ \A g \in L : e <= g \/ g <= b
        BY <2>3 DEF IsPrev
      <3>2. b \in L \ {e} /\ b < f /\ \A g \in L \ {e} : f <= g \/ g <= b
        BY <1>0, <2>1, <3>1
      <3> QED  BY <1>1, <3>2 DEF IsPrev
    <2> QED  BY <2>2, <2>3
  <1>2. CASE n # e
    BY <1>2 DEF IsPrev
  <1> QED  BY <1>1, <1>2

\* Remove takes an element out of the list and relinks its neighbours.
LEMMA RemoveRelinks ==
  ASSUME NEW L, L \subseteq Elements, NEW e \in L,
         NEW l, NEW el, Ends(L, l), Links(L, el), l.open \in BOOLEAN,
         NEW a, a = el[e].next, NEW b, b = el[e].prev,
         NEW k, k.head = IF b = Nil THEN a ELSE l.head,
         k.tail = IF a = Nil THEN b ELSE l.tail, k.len = l.len - 1,
         k.open <=> l.open \/ l.len = 1,
         NEW en,
         \A f \in L \ {e} : en[f].next = IF f = b THEN a ELSE el[f].next,
         \A f \in L \ {e} : en[f].prev = IF f = a THEN b ELSE el[f].prev,
         \A f \in L \ {e} : IF f = b THEN en[f].open <=> a = Nil
                            ELSE en[f].open <=> el[f].open
  PROVE  /\ Ends(L \ {e}, k) /\ Links(L \ {e}, en)
         /\ b = Nil => l.head = e
         /\ a = Nil => l.tail = e
  <1> DEFINE M == L \ {e}
  <1>0. /\ \A f \in L : f \in Nat /\ 0 < f /\ f < MaxElements + 1 /\ f # Nil
        /\ MaxElements + 1 \in Nat
    BY ElementsAreNumbers
  <1>1. IsNext(L, e, a) /\ IsPrev(L, e, b)
    BY DEF Links
  <1>2. IsNext(L, 0, l.head) /\ IsPrev(L, MaxElements + 1, l.tail)
    BY DEF Ends
  <1>3. b = Nil <=> l.head = e
    <2>1. CASE b = Nil
      <3>1. \A f \in L : e <= f
        BY <1>0, <1>1, <2>1 DEF IsPrev
      <3>2. IsNext(L, 0, e)
        BY <1>0, <3>1 DEF IsNext
      <3> QED  BY <1>2, <2>1, <3>2, Unique
    <2>2. CASE b # Nil
      <3>1. b \in L /\ b < e
        BY <1>1, <2>2 DEF IsPrev
      <3>2. ~(b <= 0) /\ ~(e <= b)
        BY <1>0, <3>1
      <3> QED  BY <1>0, <1>2, <2>2, <3>1, <3>2 DEF IsNext
    <2> QED  BY <2>1, <2>2
  <1>4. a = Nil <=> l.tail = e
    <2>1. CASE a = Nil
      <3>1. \A f \in L : f <= e
        BY <1>0, <1>1, <2>1 DEF IsNext
      <3>2. IsPrev(L, MaxElements + 1, e)
        BY <1>0, <3>1 DEF IsPrev
      <3> QED  BY <1>0, <1>2, <2>1, <3>2, Unique
    <2>2. CASE a # Nil
      <3>1. a \in L /\ e < a
        BY <1>1, <2>2 DEF IsNext
      <3>2. ~(MaxElements + 1 <= a) /\ ~(a <= e)
        BY <1>0, <3>1
      <3> QED  BY <1>0, <1>2, <2>2, <3>1, <3>2 DEF IsPrev
    <2> QED  BY <2>1, <2>2
  <1>5. IsNext(M, 0, k.head)
    BY <1>1, <1>2, <1>3, NextWithout
  <1>6. IsPrev(M, MaxElements + 1, k.tail)
    BY <1>0, <1>1, <1>2, <1>4, PrevWithout
  <1>7. k.len = Cardinality(M) /\ (k.open <=> M = {})
    <2>1. IsFiniteSet(L)
      BY ElementsAreNumbers, FS_Subset
    <2>2. Cardinality(L) \in Nat /\ Cardinality(M) = Cardinality(L) - 1 /\ IsFiniteSet(M)
      BY <2>1, FS_RemoveElement, FS_CardinalityType
    <2>3. Cardinality(M) = 0 <=> M = {}
      BY <2>2, FS_EmptySet
    <2>4. l.len = Cardinality(L) /\ ~l.open
      BY DEF Ends
    <2> HIDE DEF M
    <2>5. k.len = Cardinality(M) /\ (l.len = 1 <=> Cardinality(M) = 0)
      BY <2>2, <2>4
    <2> QED  BY <2>3, <2>4, <2>5
  <1>8. Ends(M, k)
    BY <1>5, <1>6, <1>7 DEF Ends
  <1>9. ASSUME NEW f \in M
        PROVE  /\ IsNext(M, f, en[f].next) /\ IsPrev(M, f, en[f].prev)
               /\ en[f].open <=> en[f].next = Nil
    <2>0. /\ f \in L /\ f \in Nat
          /\ IsNext(L, f, el[f].next) /\ IsPrev(L, f, el[f].prev)
          /\ el[f].open <=> el[f].next = Nil
      BY <1>0 DEF Links
    <2>1. f = b <=> el[f].next = e
      <3>1. IsNext(L, f, e) <=> IsPrev(L, e, f)
        BY <2>0, Adjacent
      <3>2. IsNext(L, f, e) <=> el[f].next = e
        BY <2>0, Unique
      <3>3. IsPrev(L, e, f) <=> f = b
        BY <1>0, <1>1, Unique
      <3> QED  BY <3>1, <3>2, <3>3
    <2>2. f = a <=> el[f].prev = e
      <3>1. IsNext(L, e, f) <=> IsPrev(L, f, e)
        BY <2>0, Adjacent
      <3>2. IsPrev(L, f, e) <=> el[f].prev = e
        BY <2>0, Unique
      <3>3. IsNext(L, e, f) <=> f = a
        BY <1>0, <1>1, Unique
      <3> QED  BY <3>1, <3>2, <3>3
    <2>3. IsNext(M, f, en[f].next)
      BY <1>1, <2>0, <2>1, NextWithout
    <2>4. IsPrev(M, f, en[f].prev)
      BY <1>1, <2>0, <2>2, PrevWithout
    <2>5. en[f].open <=> en[f].next = Nil
      <3>1. en[f].next = IF f = b THEN a ELSE el[f].next
        OBVIOUS
      <3>2. IF f = b THEN en[f].open <=> a = Nil ELSE en[f].open <=> el[f].open
        OBVIOUS
      <3> QED  BY <2>0, <3>1, <3>2
    <2> QED  BY <2>3, <2>4, <2>5
  <1>10. Links(M, en)
    BY <1>9 DEF Links
  <1> QED  BY <1>3, <1>4, <1>8, <1>10

-----------------------------------------------------------------------------
(***************************************************************************)
(* The inductive invariant.                                                *)
(***************************************************************************)
Fresh == [prev |-> Nil, next |-> Nil, removed |-> FALSE, open |-> TRUE]

\* The list holds Linked; what was not appended yet is as NewElement made it;
\* and the element between Remove's unlinking and SetRemoved still says
\* whether it was the tail, so that its channel is closed once.
ListInv ==
  /\ panic = FALSE /\ Ends(Linked, list) /\ Links(Linked, elem)
  /\ \A e \in Elements : e > added => elem[e] = Fresh
  /\ unlinked # Nil =>
       /\ unlinked \in 1 .. added
       /\ elem[unlinked].open <=> elem[unlinked].next = Nil

\* Every id in use is below nextID: nextPeerID finds a free one.
IDsInv ==
  /\ ups \in 0 .. MaxUps /\ nextID <= ups + 1
  /\ \A p \in Peers : ids[p] < nextID

\* A routine that sends or waits for a successor has an element.
RoutineInv ==
  \A p \in Peers : routine[p].at \in {"send", "sent", "wait"} => routine[p].el \in Elements

GossipInv == TypeOK /\ ListInv /\ IDsInv /\ RoutineInv

Routine == [at : {"none", "start", "front", "waitFront", "send", "sent", "wait"},
            el : Elements \cup {Nil}, id : IDs, ready : BOOLEAN, closed : BOOLEAN]

ListTypes ==
  /\ list \in [head : Elements \cup {Nil}, tail : Elements \cup {Nil}, len : Int, open : BOOLEAN]
  /\ elem \in [Elements -> Element]
  /\ added \in 0 .. MaxElements /\ unlinked \in Elements \cup {Nil}

PeerTypes ==
  /\ senders \in [Elements -> SUBSET IDs] /\ from \in [Elements -> SUBSET Peers]
  /\ up \subseteq Peers /\ ids \in [Peers -> IDs] /\ nextID \in 1 .. MaxUps + 1

RoutineTypes ==
  /\ routine \in [Peers -> Routine]
  /\ sent \in [Peers -> SUBSET Elements]

\* The types, in the parts that the steps change.
LEMMA TypeParts == TypeOK <=> ListTypes /\ PeerTypes /\ RoutineTypes /\ panic \in BOOLEAN
  BY DEF TypeOK, ListTypes, PeerTypes, RoutineTypes, Element, Routine

\* What is linked is an element that was appended.
LEMMA LinkedIs ==
  ASSUME ListTypes
  PROVE  Linked \subseteq Elements /\ \A e \in Linked : e <= added
  <1>1. added \in Nat /\ added <= MaxElements /\ MaxElements \in Nat
    BY TxGossipAssumption DEF ListTypes
  <1> QED  BY <1>1 DEF Linked, Elements

\* The list of a mempool that has no transaction yet.
LEMMA GossipInit == Init => GossipInv
  <1> SUFFICES ASSUME Init PROVE GossipInv
    OBVIOUS
  <1>0. MaxElements \in Nat /\ MaxUps \in Nat /\ Nil \notin Nat
    BY TxGossipAssumption
  <1>1. ListTypes
    BY <1>0 DEF Init, ListTypes, Element
  <1>2. PeerTypes
    BY <1>0 DEF Init, PeerTypes, IDs, UnknownPeerID
  <1>3. RoutineTypes
    BY <1>0 DEF Init, RoutineTypes, Routine, NoRoutine, IDs, UnknownPeerID
  <1>4. TypeOK
    BY <1>1, <1>2, <1>3, TypeParts DEF Init
  <1>5. Linked = {}
    BY DEF Init, Linked
  <1>6. Ends({}, list)
    <2>1. IsNext({}, 0, Nil) /\ IsPrev({}, MaxElements + 1, Nil)
      BY DEF IsNext, IsPrev
    <2>2. list.head = Nil /\ list.tail = Nil /\ list.len = 0 /\ list.open
      BY DEF Init
    <2> QED  BY <2>1, <2>2, FS_EmptySet DEF Ends
  <1>7. Links({}, elem)
    BY DEF Links
  <1>8. ListInv
    <2>1. panic = FALSE /\ unlinked = Nil /\ \A e \in Elements : elem[e] = Fresh
      BY DEF Init, Fresh
    <2> QED  BY <1>5, <1>6, <1>7, <2>1 DEF ListInv
  <1>9. IDsInv
    BY <1>0 DEF Init, IDsInv, UnknownPeerID
  <1>10. RoutineInv
    BY DEF Init, RoutineInv, NoRoutine
  <1> QED  BY <1>4, <1>8, <1>9, <1>10 DEF GossipInv

\* Closing a channel wakes routines and moves none.
LEMMA ClosingIs ==
  ASSUME routine \in [Peers -> Routine], NEW where, NEW e
  PROVE  /\ Closing(where, e) \in [Peers -> Routine]
         /\ \A p \in Peers : /\ Closing(where, e)[p].at = routine[p].at
                             /\ Closing(where, e)[p].el = routine[p].el
  <1>1. \A p \in Peers : /\ [routine[p] EXCEPT !.ready = TRUE] \in Routine
                         /\ [routine[p] EXCEPT !.ready = TRUE].at = routine[p].at
                         /\ [routine[p] EXCEPT !.ready = TRUE].el = routine[p].el
    BY DEF Routine
  <1> QED  BY <1>1 DEF Closing

\* Setting prev changes nothing else.
LEMMA SetPrevIs ==
  ASSUME NEW el \in [Elements -> Element], NEW e \in Elements,
         NEW n \in Elements \cup {Nil}
  PROVE  /\ [el EXCEPT ![e].prev = n] \in [Elements -> Element]
         /\ \A f \in Elements : f # e => [el EXCEPT ![e].prev = n][f] = el[f]
         /\ [el EXCEPT ![e].prev = n][e].prev = n
         /\ [el EXCEPT ![e].prev = n][e].next = el[e].next
         /\ [el EXCEPT ![e].prev = n][e].removed = el[e].removed
         /\ [el EXCEPT ![e].prev = n][e].open = el[e].open
  <1>1. /\ [el[e] EXCEPT !.prev = n] \in Element
        /\ [el[e] EXCEPT !.prev = n].prev = n
        /\ [el[e] EXCEPT !.prev = n].next = el[e].next
        /\ [el[e] EXCEPT !.prev = n].removed = el[e].removed
        /\ [el[e] EXCEPT !.prev = n].open = el[e].open
    BY DEF Element
  <1>2. [el EXCEPT ![e].prev = n] = [el EXCEPT ![e] = [el[e] EXCEPT !.prev = n]]
    OBVIOUS
  <1> DEFINE r == [el[e] EXCEPT !.prev = n]
  <1>3. [el EXCEPT ![e] = r] \in [Elements -> Element] /\ [el EXCEPT ![e] = r][e] = r
        /\ \A f \in Elements : f # e => [el EXCEPT ![e] = r][f] = el[f]
    <2>1. r \in Element
      BY <1>1
    <2> HIDE DEF r
    <2> QED  BY <2>1
  <1> QED  BY <1>1, <1>2, <1>3

-----------------------------------------------------------------------------
(***************************************************************************)
(* The steps of the list.                                                  *)
(***************************************************************************)
\* The elements after PushBack.
LEMMA PushElements ==
  ASSUME GossipInv, NEW p \in Peers \cup {Nil}, PushBack(p)
  PROVE  /\ elem' \in [Elements -> Element]
         /\ added + 1 \in Elements
         /\ \A f \in Elements : elem'[f].removed = elem[f].removed
         /\ \A f \in Elements : f # added + 1 /\ f # list.tail => elem'[f] = elem[f]
         /\ list.tail = Nil => elem' = elem
         /\ list.tail # Nil =>
              /\ elem'[added + 1].next = Nil /\ elem'[added + 1].prev = list.tail
              /\ elem'[added + 1].open
              /\ elem'[list.tail].next = added + 1
              /\ elem'[list.tail].prev = elem[list.tail].prev
              /\ ~elem'[list.tail].open
  <1> DEFINE e == added + 1
             t == list.tail
             x == [elem EXCEPT ![e].prev = t]
  <1>1. /\ ListTypes /\ Ends(Linked, list) /\ Links(Linked, elem)
        /\ \A f \in Elements : f > added => elem[f] = Fresh
    BY TypeParts DEF GossipInv, ListInv
  <1>2. e \in Elements /\ e > added /\ e \in Nat
    BY <1>1, TxGossipAssumption DEF PushBack, ListTypes, Elements
  <1>3. elem' = IF t = Nil THEN elem ELSE SetNext(x, t, e)
    BY DEF PushBack
  <1>4. CASE t = Nil
    <2>1. elem' = elem
      BY <1>3, <1>4
    <2> QED  BY <1>1, <1>2, <1>4, <2>1 DEF ListTypes
  <1>5. CASE t # Nil
    <2>1. t \in Linked /\ elem[t].next = Nil /\ t <= added /\ t \in Elements /\ t \in Nat
      <3>1. t \in Linked /\ elem[t].next = Nil
        BY <1>1, <1>5, LinkedIs, TailIs
      <3> QED  BY <1>1, <3>1, LinkedIs, ElementsAreNumbers
    <2>2. t # e
      BY <1>1, <1>2, <2>1 DEF ListTypes
    <2>3. elem[e].next = Nil /\ elem[e].open = TRUE
      BY <1>1, <1>2 DEF Fresh
    <2>4. /\ x \in [Elements -> Element] /\ x[t] = elem[t]
          /\ \A f \in Elements : f # e => x[f] = elem[f]
          /\ x[e].prev = t /\ x[e].next = elem[e].next
          /\ x[e].removed = elem[e].removed /\ x[e].open = elem[e].open
      <3>1. elem \in [Elements -> Element]
        BY <1>1 DEF ListTypes
      <3> QED  BY <1>2, <2>1, <2>2, <3>1, SetPrevIs
    <2>5. elem[t].open <=> elem[t].next = Nil
      BY <1>1, <2>1 DEF Links
    <2> DEFINE y == SetNext(x, t, e)
    <2> HIDE DEF x
    <2>6. /\ y \in [Elements -> Element]
          /\ \A f \in Elements : f # t => y[f] = x[f]
          /\ y[t].next = e /\ y[t].prev = x[t].prev /\ y[t].removed = x[t].removed
          /\ (x[t].open <=> x[t].next = Nil) => (y[t].open <=> e = Nil)
      BY <1>2, <2>1, <2>4, SetNextIs
    <2>7. ~y[t].open
      BY <1>2, <2>4, <2>5, <2>6, ElementsAreNumbers
    <2>8. y[e] = x[e]
      BY <1>2, <2>2, <2>6
    <2>9. elem' = y
      BY <1>3, <1>5
    <2> HIDE DEF y
    <2>10. \A f \in Elements : y[f].removed = elem[f].removed
      BY <2>4, <2>6, <2>8
    <2>11. \A f \in Elements : f # e /\ f # t => y[f] = elem[f]
      BY <2>4, <2>6
    <2> QED  BY <1>2, <1>5, <2>3, <2>4, <2>6, <2>7, <2>8, <2>9, <2>10, <2>11
  <1> QED  BY <1>4, <1>5

\* PushBack appends to the list.
LEMMA PushList ==
  ASSUME GossipInv, NEW p \in Peers \cup {Nil}, PushBack(p)
  PROVE  ListTypes' /\ ListInv'
  <1> DEFINE e == added + 1
             t == list.tail
             L == Linked
             o == list.open /\ list.len # 0
  <1>1. /\ ListTypes /\ ListInv
        /\ L \subseteq Elements /\ \A f \in L : f <= added
        /\ Ends(L, list) /\ Links(L, elem)
    BY TypeParts, LinkedIs DEF GossipInv, ListInv
  <1>2. /\ unlinked = Nil /\ unlinked' = Nil /\ added' = e
        /\ list' = [head |-> IF t = Nil THEN e ELSE list.head, tail |-> e,
                    len |-> list.len + 1, open |-> o]
        /\ panic' = (panic \/ (list.len = 0 /\ ~list.open))
    BY DEF PushBack
  <1>3. e \in Elements /\ elem' \in [Elements -> Element]
    BY PushElements
  <1>4. list.len = Cardinality(L) /\ (list.open <=> L = {}) /\ (list.len = 0 <=> L = {})
    <2>1. IsFiniteSet(L)
      BY <1>1, ElementsAreNumbers, FS_Subset
    <2> QED  BY <1>1, <2>1, FS_EmptySet DEF Ends
  <1>5. o = FALSE /\ panic' = FALSE
    BY <1>1, <1>2, <1>4 DEF ListInv
  <1> HIDE DEF o
  <1>6. /\ list'.head = (IF t = Nil THEN e ELSE list.head) /\ list'.tail = e
        /\ list'.len = list.len + 1 /\ list'.open = o
    BY <1>2
  <1>7. ListTypes'
    <2>1. list' \in [head : Elements \cup {Nil}, tail : Elements \cup {Nil},
                     len : Int, open : BOOLEAN]
      <3>1. list.head \in Elements \cup {Nil} /\ list.len + 1 \in Int
        BY <1>1 DEF ListTypes
      <3>2. o \in BOOLEAN
        BY <1>5
      <3> DEFINE h == IF t = Nil THEN e ELSE list.head
                 n == list.len + 1
      <3>3. h \in Elements \cup {Nil} /\ n \in Int
        BY <1>3, <3>1
      <3>4. list' = [head |-> h, tail |-> e, len |-> n, open |-> o]
        BY <1>2
      <3> HIDE DEF e, h, n
      <3> QED  BY <1>3, <3>2, <3>3, <3>4
    <2>2. added' \in 0 .. MaxElements
      BY <1>2, <1>3, TxGossipAssumption DEF Elements
    <2> QED  BY <1>2, <1>3, <2>1, <2>2 DEF ListTypes
  <1>8. Linked' = L \cup {e}
    <2>1. \A f \in Elements : elem'[f].removed = elem[f].removed
      BY PushElements
    <2>2. elem[e].removed = FALSE
      <3>1. e > added
        BY <1>1 DEF ListTypes
      <3> QED  BY <1>1, <1>3, <3>1 DEF ListInv, Fresh
    <2>3. L = {f \in 1 .. added : ~elem[f].removed}
      <3>1. Nil \notin 1 .. added
        BY TxGossipAssumption
      <3> QED  BY <1>2, <3>1 DEF Linked
    <2>4. Linked' = {f \in 1 .. e : ~elem'[f].removed}
      <3>1. Nil \notin 1 .. e
        BY TxGossipAssumption
      <3>2. Linked' = {f \in 1 .. added' : ~elem'[f].removed} \ {unlinked'}
        BY DEF Linked
      <3> QED  BY <1>2, <3>1, <3>2
    <2>5. \A f : f \in 1 .. e <=> f \in 1 .. added \/ f = e
      BY <1>1 DEF ListTypes
    <2>6. \A f \in 1 .. e : f \in Elements
      BY <1>3, TxGossipAssumption DEF Elements
    <2> HIDE DEF e, L
    <2> QED  BY <2>1, <2>2, <2>3, <2>4, <2>5, <2>6
  <1>9. Ends(L \cup {e}, list') /\ Links(L \cup {e}, elem')
    <2>1. /\ t = Nil <=> L = {}
          /\ t # Nil => t \in L
      BY <1>1, TailIs
    <2>2. CASE t = Nil
      <3>1. elem' = elem
        BY <2>2, PushElements
      <3>2. elem[e] = Fresh
        <4>1. e > added
          BY <1>1 DEF ListTypes
        <4> QED  BY <1>1, <1>3, <4>1 DEF ListInv
      <3>3. elem'[e].next = Nil /\ elem'[e].prev = Nil /\ elem'[e].open
        BY <3>1, <3>2 DEF Fresh
      <3>4. list'.head = e /\ list'.tail = e /\ list'.len = 1 /\ ~list'.open
        BY <1>4, <1>5, <1>6, <2>1, <2>2
      <3>5. L \cup {e} = {e}
        BY <2>1, <2>2
      <3> HIDE DEF e, L
      <3>6. Ends({e}, list') /\ Links({e}, elem')
        BY <1>3, <3>3, <3>4, PushFirst
      <3> QED  BY <3>5, <3>6
    <2>3. CASE t # Nil
      <3>1. /\ elem'[e].next = Nil /\ elem'[e].prev = t /\ elem'[e].open
            /\ elem'[t].next = e /\ elem'[t].prev = elem[t].prev /\ ~elem'[t].open
        BY <2>3, PushElements
      <3>2. \A f \in L : f < e
        BY <1>1, ElementsAreNumbers DEF ListTypes
      <3>3. \A f \in L : f # t => elem'[f] = elem[f]
        <4>1. \A f \in L : f \in Elements /\ f # e
          BY <1>1, <3>2, ElementsAreNumbers
        <4> QED  BY <4>1, PushElements
      <3>4. list'.head = list.head /\ list'.tail = e /\ list'.len = list.len + 1 /\ ~list'.open
        BY <1>5, <1>6, <2>3
      <3> HIDE DEF e, L
      <3> QED  BY <1>1, <1>3, <2>3, <3>1, <3>2, <3>3, <3>4, PushBehind
    <2> QED  BY <2>2, <2>3
  <1>10. \A f \in Elements : f > added' => elem'[f] = Fresh
    <2> SUFFICES ASSUME NEW f \in Elements, f > added' PROVE elem'[f] = Fresh
      OBVIOUS
    <2>1. f > added /\ f # e
      BY <1>1, <1>2, ElementsAreNumbers DEF ListTypes
    <2>2. f # t
      <3>1. t # Nil => t \in L
        BY <1>1, TailIs
      <3>2. t # Nil => t <= added /\ t \in Nat
        BY <1>1, <3>1, ElementsAreNumbers
      <3>3. f # Nil
        BY ElementsAreNumbers
      <3> QED  BY <1>1, <2>1, <3>2, <3>3, ElementsAreNumbers DEF ListTypes
    <2>3. elem'[f] = elem[f]
      BY <2>1, <2>2, PushElements
    <2> QED  BY <1>1, <2>1, <2>3 DEF ListInv
  <1> QED  BY <1>2, <1>5, <1>7, <1>8, <1>9, <1>10 DEF ListInv

\* The elements after Remove has taken e out of the list.
LEMMA UnlinkElements ==
  ASSUME GossipInv, NEW e \in Linked, Unlink(e),
         NEW a, a = elem[e].next, NEW b, b = elem[e].prev
  PROVE  /\ elem' \in [Elements -> Element]
         /\ elem'[e] = elem[e]
         /\ a = Nil \/ (a \in Linked /\ a # e)
         /\ b = Nil \/ (b \in Linked /\ b # e)
         /\ \A f \in Elements :
              /\ elem'[f].removed = elem[f].removed
              /\ elem'[f].next = IF f = b THEN a ELSE elem[f].next
              /\ elem'[f].prev = IF f = a THEN b ELSE elem[f].prev
              /\ IF f = b THEN elem'[f].open <=> a = Nil
                 ELSE elem'[f].open <=> elem[f].open
              /\ f # a /\ f # b => elem'[f] = elem[f]
  <1> DEFINE x == IF b = Nil THEN elem ELSE SetNext(elem, b, a)
  <1>0. ListTypes /\ Links(Linked, elem) /\ Linked \subseteq Elements
    BY TypeParts, LinkedIs DEF GossipInv, ListInv
  <1>1. elem \in [Elements -> Element] /\ e \in Elements
    BY <1>0 DEF ListTypes
  <1>2. a \in Elements \cup {Nil} /\ b \in Elements \cup {Nil}
    BY <1>1 DEF Element
  <1>3. IsNext(Linked, e, a) /\ IsPrev(Linked, e, b)
    BY <1>0 DEF Links
  <1>4. a = Nil \/ (a \in Linked /\ a # e)
    BY <1>0, <1>3, ElementsAreNumbers DEF IsNext
  <1>5. b = Nil \/ (b \in Linked /\ b # e)
    BY <1>0, <1>3, ElementsAreNumbers DEF IsPrev
  <1>6. b \in Elements => (elem[b].open <=> elem[b].next = Nil)
    BY <1>0, <1>5, ElementsAreNumbers DEF Links
  <1>7. /\ x \in [Elements -> Element]
        /\ \A f \in Elements :
             /\ x[f].removed = elem[f].removed
             /\ x[f].next = IF f = b THEN a ELSE elem[f].next
             /\ x[f].prev = elem[f].prev
             /\ IF f = b THEN x[f].open <=> a = Nil ELSE x[f].open <=> elem[f].open
             /\ f # b => x[f] = elem[f]
    <2>1. CASE b = Nil
      <3>1. \A f \in Elements : f # b
        BY <2>1, ElementsAreNumbers
      <3>2. x = elem
        BY <2>1
      <3> HIDE DEF x
      <3> QED  BY <1>1, <3>1, <3>2
    <2>2. CASE b # Nil
      <3>1. b \in Elements
        BY <1>2, <2>2
      <3>2. x = SetNext(elem, b, a)
        BY <2>2
      <3> DEFINE y == SetNext(elem, b, a)
      <3>3. /\ y \in [Elements -> Element]
            /\ \A f \in Elements : f # b => y[f] = elem[f]
            /\ y[b].next = a /\ y[b].prev = elem[b].prev /\ y[b].removed = elem[b].removed
            /\ y[b].open <=> a = Nil
        BY <1>1, <1>2, <1>6, <3>1, SetNextIs
      <3> HIDE DEF x, y
      <3>4. x = y
        BY <3>2 DEF y
      <3>5. \A f \in Elements :
             /\ y[f].removed = elem[f].removed
             /\ y[f].next = IF f = b THEN a ELSE elem[f].next
             /\ y[f].prev = elem[f].prev
             /\ IF f = b THEN y[f].open <=> a = Nil ELSE y[f].open <=> elem[f].open
             /\ f # b => y[f] = elem[f]
        <4> TAKE f \in Elements
        <4>1. CASE f = b
          BY <3>3, <4>1
        <4>2. CASE f # b
          BY <3>3, <4>2
        <4> QED  BY <4>1, <4>2
      <3> QED  BY <3>3, <3>4, <3>5
    <2> QED  BY <2>1, <2>2
  <1>8. elem' = IF a = Nil THEN x ELSE [x EXCEPT ![a].prev = b]
    BY DEF Unlink
  <1> HIDE DEF x
  <1>9. CASE a = Nil
    <2>1. \A f \in Elements : f # a
      BY <1>9, ElementsAreNumbers
    <2>2. elem' = x
      BY <1>8, <1>9
    <2>3. e # b
      BY <1>1, <1>5, ElementsAreNumbers
    <2>4. elem'[e] = elem[e]
      BY <1>1, <1>7, <2>2, <2>3
    <2> QED  BY <1>4, <1>5, <1>7, <2>1, <2>2, <2>4
  <1>10. CASE a # Nil
    <2> DEFINE y == [x EXCEPT ![a].prev = b]
    <2>1. /\ y \in [Elements -> Element]
          /\ \A f \in Elements : f # a => y[f] = x[f]
          /\ y[a].prev = b /\ y[a].next = x[a].next
          /\ y[a].removed = x[a].removed /\ y[a].open = x[a].open
      <3>1. a \in Elements
        BY <1>2, <1>10
      <3> QED  BY <1>2, <1>7, <3>1, SetPrevIs
    <2>2. elem' = y
      BY <1>8, <1>10
    <2> HIDE DEF y
    <2>3. e # b /\ e # a
      BY <1>1, <1>4, <1>5, <1>10, ElementsAreNumbers
    <2>4. y[e] = elem[e]
      BY <1>1, <1>7, <2>1, <2>3
    <2>5. ASSUME NEW f \in Elements
          PROVE  /\ y[f].removed = elem[f].removed
                 /\ y[f].next = IF f = b THEN a ELSE elem[f].next
                 /\ y[f].prev = IF f = a THEN b ELSE elem[f].prev
                 /\ IF f = b THEN y[f].open <=> a = Nil ELSE y[f].open <=> elem[f].open
                 /\ f # a /\ f # b => y[f] = elem[f]
      <3>1. CASE f = a
        BY <1>7, <2>1, <3>1
      <3>2. CASE f # a
        BY <1>7, <2>1, <3>2
      <3> QED  BY <3>1, <3>2
    <2> QED  BY <1>4, <1>5, <2>1, <2>2, <2>4, <2>5
  <1> QED  BY <1>9, <1>10

\* Remove takes an element out of the list and finds head and tail where it
\* expects them.
LEMMA UnlinkList ==
  ASSUME GossipInv, NEW e \in Elements, Unlink(e)
  PROVE  ListTypes' /\ ListInv'
  <1> DEFINE L == Linked
             a == elem[e].next
             b == elem[e].prev
             o == list.open \/ list.len = 1
             h == IF b = Nil THEN a ELSE list.head
             t == IF a = Nil THEN b ELSE list.tail
             n == list.len - 1
  <1>1. /\ ListTypes /\ ListInv
        /\ L \subseteq Elements
        /\ Ends(L, list) /\ Links(L, elem)
    BY TypeParts, LinkedIs DEF GossipInv, ListInv
  <1>2. /\ unlinked = Nil /\ unlinked' = e /\ added' = added
        /\ e <= added /\ ~elem[e].removed
        /\ list' = [head |-> h, tail |-> t, len |-> n, open |-> o]
        /\ panic' = (panic \/ (b = Nil /\ list.head # e) \/ (a = Nil /\ list.tail # e))
    BY DEF Unlink
  <1>3. L = {f \in 1 .. added : ~elem[f].removed} /\ e \in L /\ e \in 1 .. added
    <2>1. Nil \notin 1 .. added
      BY TxGossipAssumption
    <2>2. e \in 1 .. added
      BY <1>1, <1>2, ElementsAreNumbers DEF ListTypes
    <2> QED  BY <1>2, <2>1, <2>2 DEF Linked
  <1>4. /\ elem' \in [Elements -> Element]
        /\ elem'[e] = elem[e]
        /\ a = Nil \/ (a \in L /\ a # e)
        /\ b = Nil \/ (b \in L /\ b # e)
        /\ \A f \in Elements :
             /\ elem'[f].removed = elem[f].removed
             /\ elem'[f].next = IF f = b THEN a ELSE elem[f].next
             /\ elem'[f].prev = IF f = a THEN b ELSE elem[f].prev
             /\ IF f = b THEN elem'[f].open <=> a = Nil
                ELSE elem'[f].open <=> elem[f].open
             /\ f # a /\ f # b => elem'[f] = elem[f]
    BY <1>3, UnlinkElements
  <1>5. o \in BOOLEAN /\ list.open \in BOOLEAN
    BY <1>1 DEF ListTypes
  <1>6. h \in Elements \cup {Nil} /\ t \in Elements \cup {Nil} /\ n \in Int
    BY <1>1, <1>4 DEF ListTypes
  <1>7. list' \in [head : Elements \cup {Nil}, tail : Elements \cup {Nil},
                   len : Int, open : BOOLEAN]
        /\ list'.head = h /\ list'.tail = t /\ list'.len = n /\ list'.open = o
    <2> HIDE DEF h, t, n, o
    <2> QED  BY <1>2, <1>5, <1>6
  <1>8. ListTypes'
    BY <1>1, <1>2, <1>4, <1>7 DEF ListTypes
  <1>9. Linked' = L \ {e}
    <2>1. Linked' = {f \in 1 .. added' : ~elem'[f].removed} \ {unlinked'}
      BY DEF Linked
    <2>2. \A f \in 1 .. added : f \in Elements
      BY <1>1, TxGossipAssumption DEF ListTypes, Elements
    <2>3. \A f \in 1 .. added : elem'[f].removed = elem[f].removed
      BY <1>4, <2>2
    <2> HIDE DEF L
    <2> QED  BY <1>2, <1>3, <2>1, <2>3
  <1>10. /\ Ends(L \ {e}, list') /\ Links(L \ {e}, elem')
         /\ b = Nil => list.head = e
         /\ a = Nil => list.tail = e
    <2>1. list'.open <=> list.open \/ list.len = 1
      BY <1>7
    <2>2. list'.head = IF b = Nil THEN a ELSE list.head
      BY <1>7
    <2>3. list'.tail = IF a = Nil THEN b ELSE list.tail
      BY <1>7
    <2>4. list'.len = list.len - 1
      BY <1>7
    <2>5. \A f \in L \ {e} : elem'[f].next = IF f = b THEN a ELSE elem[f].next
      BY <1>1, <1>4
    <2>6. \A f \in L \ {e} : elem'[f].prev = IF f = a THEN b ELSE elem[f].prev
      BY <1>1, <1>4
    <2>7. \A f \in L \ {e} : IF f = b THEN elem'[f].open <=> a = Nil
                             ELSE elem'[f].open <=> elem[f].open
      BY <1>1, <1>4
    <2>8. a = elem[e].next /\ b = elem[e].prev
      OBVIOUS
    <2>9. L \subseteq Elements /\ e \in L /\ Ends(L, list) /\ Links(L, elem)
          /\ list.open \in BOOLEAN
      BY <1>1, <1>3, <1>5
    <2> HIDE DEF L, a, b
    <2> QED  BY <2>1, <2>2, <2>3, <2>4, <2>5, <2>6, <2>7, <2>8, <2>9, RemoveRelinks
  <1>11. panic' = FALSE
    BY <1>1, <1>2, <1>10 DEF ListInv
  <1>12. \A f \in Elements : f > added' => elem'[f] = Fresh
    <2> SUFFICES ASSUME NEW f \in Elements, f > added PROVE elem'[f] = Fresh
      BY <1>2
    <2>1. \A g \in L : g <= added /\ g \in Nat
      BY <1>1, LinkedIs, ElementsAreNumbers
    <2>2. f # a /\ f # b
      BY <1>1, <1>4, <2>1, ElementsAreNumbers DEF ListTypes
    <2>3. elem[f] = Fresh
      BY <1>1 DEF ListInv
    <2> QED  BY <1>4, <2>2, <2>3
  <1>13. elem'[e].open <=> elem'[e].next = Nil
    BY <1>1, <1>3, <1>4 DEF Links
  <1> QED  BY <1>2, <1>3, <1>8, <1>9, <1>10, <1>11, <1>12, <1>13 DEF ListInv

\* SetRemoved closes the channel of a tail that nobody has closed, and leaves
\* the list alone.
LEMMA RemovedList ==
  ASSUME GossipInv, SetRemoved
  PROVE  ListTypes' /\ ListInv'
  <1> DEFINE u == unlinked
             o == elem[u].open /\ ~(elem[u].next = Nil)
             r == [elem[u] EXCEPT !.removed = TRUE, !.prev = Nil, !.open = o]
  <1>1. /\ ListTypes /\ ListInv
        /\ Linked \subseteq Elements
    BY TypeParts, LinkedIs DEF GossipInv, ListInv
  <1>2. /\ u # Nil /\ unlinked' = Nil /\ list' = list /\ added' = added
        /\ elem' = [elem EXCEPT ![u] = r]
        /\ panic' = (panic \/ (elem[u].next = Nil /\ ~elem[u].open))
    BY DEF SetRemoved
  <1>3. u \in Elements /\ u \in 1 .. added /\ (elem[u].open <=> elem[u].next = Nil)
    BY <1>1, <1>2 DEF ListTypes, ListInv
  <1>4. o \in BOOLEAN /\ elem[u] \in Element
    BY <1>1, <1>3 DEF ListTypes, Element
  <1>5. r \in Element /\ r.removed = TRUE
    <2> HIDE DEF o
    <2> QED  BY <1>4 DEF Element
  <1>6. /\ elem' \in [Elements -> Element]
        /\ elem'[u] = r
        /\ \A f \in Elements : f # u => elem'[f] = elem[f]
    <2> HIDE DEF r
    <2> QED  BY <1>1, <1>2, <1>3, <1>5 DEF ListTypes
  <1>7. ListTypes'
    BY <1>1, <1>2, <1>6 DEF ListTypes
  <1>8. panic' = FALSE
    BY <1>1, <1>2, <1>3 DEF ListInv
  <1>9. Linked' = Linked
    <2>1. Linked' = {f \in 1 .. added' : ~elem'[f].removed} \ {unlinked'}
      BY DEF Linked
    <2>2. Linked = {f \in 1 .. added : ~elem[f].removed} \ {u}
      BY DEF Linked
    <2>3. \A f \in 1 .. added : f \in Elements /\ f # Nil
      BY <1>1, TxGossipAssumption DEF ListTypes, Elements
    <2>4. \A f \in 1 .. added : f # u => elem'[f] = elem[f]
      BY <1>6, <2>3
    <2>5. elem'[u].removed = TRUE
      BY <1>5, <1>6
    <2> HIDE DEF u
    <2> QED  BY <1>2, <2>1, <2>2, <2>3, <2>4, <2>5
  <1>10. u \notin Linked
    BY DEF Linked
  <1>11. \A f \in Linked : elem'[f] = elem[f]
    BY <1>1, <1>6, <1>10
  <1>12. Links(Linked, elem')
    BY <1>1, <1>11 DEF ListInv, Links
  <1>13. \A f \in Elements : f > added' => elem'[f] = Fresh
    <2> SUFFICES ASSUME NEW f \in Elements, f > added PROVE elem'[f] = Fresh
      BY <1>2
    <2>1. f # u
      BY <1>1, <1>3, ElementsAreNumbers DEF ListTypes
    <2> QED  BY <1>1, <1>6, <2>1 DEF ListInv
  <1> QED  BY <1>1, <1>2, <1>7, <1>8, <1>9, <1>12, <1>13 DEF ListInv

\* A step that leaves the list alone.
LEMMA ListFrame ==
  ASSUME GossipInv, UNCHANGED <<list, elem, added, unlinked, panic>>
  PROVE  ListTypes' /\ ListInv'
  <1>1. ListTypes /\ ListInv
    BY TypeParts DEF GossipInv
  <1>2. Linked' = Linked
    BY DEF Linked
  <1>3. ListTypes'
    BY <1>1 DEF ListTypes
  <1>4. ListInv'
    BY <1>1, <1>2 DEF ListInv, Ends, Links
  <1> QED  BY <1>3, <1>4

-----------------------------------------------------------------------------
(***************************************************************************)
(* The peers and their routines.                                           *)
(***************************************************************************)
\* The steps of the list keep the types of the peers and of the routines.
LEMMA ListStepPeers ==
  ASSUME GossipInv,
         \/ \E p \in Peers \cup {Nil} : PushBack(p)
         \/ \E e \in Elements : Unlink(e)
         \/ SetRemoved
  PROVE  PeerTypes' /\ RoutineTypes' /\ IDsInv' /\ RoutineInv'
  <1>1. PeerTypes /\ RoutineTypes /\ IDsInv /\ RoutineInv
    BY TypeParts DEF GossipInv
  <1>2. UNCHANGED <<up, ids, nextID, ups>>
    BY DEF PushBack, Unlink, SetRemoved, peerVars
  <1>3. IDsInv'
    BY <1>1, <1>2 DEF IDsInv
  <1>4. PeerTypes'
    <2>1. CASE \E p \in Peers \cup {Nil} : PushBack(p)
      <3> PICK p \in Peers \cup {Nil} : PushBack(p)
        BY <2>1
      <3> DEFINE id == IF p = Nil THEN UnknownPeerID ELSE ids[p]
      <3>1. id \in IDs
        BY <1>1, TxGossipAssumption DEF PeerTypes, UnknownPeerID, IDs
      <3>2. added + 1 \in Elements
        BY PushElements
      <3>3. /\ senders' = [senders EXCEPT ![added + 1] = {id}]
            /\ from' = [from EXCEPT ![added + 1] = {p} \ {Nil}]
        BY DEF PushBack
      <3>4. {p} \ {Nil} \in SUBSET Peers
        OBVIOUS
      <3> HIDE DEF id
      <3> QED  BY <1>1, <1>2, <3>1, <3>2, <3>3, <3>4 DEF PeerTypes
    <2>2. CASE (\E e \in Elements : Unlink(e)) \/ SetRemoved
      BY <1>1, <1>2, <2>2 DEF PeerTypes, Unlink, SetRemoved
    <2> QED  BY <2>1, <2>2
  <1>5. routine' = routine \/ \E where, e : routine' = Closing(where, e)
    BY DEF PushBack, Unlink, SetRemoved
  <1>6. /\ routine' \in [Peers -> Routine]
        /\ \A p \in Peers : routine'[p].at = routine[p].at /\ routine'[p].el = routine[p].el
    BY <1>1, <1>5, ClosingIs DEF RoutineTypes
  <1>7. sent' \in [Peers -> SUBSET Elements]
    BY <1>1 DEF RoutineTypes, PushBack, Unlink, SetRemoved
  <1>8. RoutineInv'
    BY <1>1, <1>6 DEF RoutineInv
  <1> QED  BY <1>3, <1>4, <1>6, <1>7, <1>8 DEF RoutineTypes

\* nextPeerID is nextID itself, and within its range.
LEMMA NextPeerIDIs ==
  ASSUME PeerTypes, IDsInv, ups < MaxUps
  PROVE  nextPeerID = nextID /\ nextID \in IDs /\ nextID + 1 \in 1 .. MaxUps + 1
  <1>1. /\ nextID \in Nat /\ nextID >= 1 /\ ups \in Nat /\ MaxUps \in Nat
        /\ nextID <= MaxUps
    BY TxGossipAssumption DEF PeerTypes, IDsInv
  <1> DEFINE S == (nextID .. MaxUps) \ ActiveIDs
  <1>2. nextID \notin ActiveIDs
    <2>1. \A p \in Peers : ids[p] # nextID
      BY <1>1 DEF PeerTypes, IDsInv, IDs
    <2> QED  BY <1>1, <2>1 DEF ActiveIDs, UnknownPeerID
  <1>3. nextID \in S /\ S \subseteq Nat /\ \A y \in S : nextID <= y
    BY <1>1, <1>2
  <1> HIDE DEF S
  <1>4. Min(S) = nextID
    BY <1>3, MinIs
  <1> QED  BY <1>1, <1>4 DEF nextPeerID, S, IDs

\* CheckTx from a further sender, and the updates of the peers.
LEMMA PeerStep ==
  ASSUME GossipInv, NEW p \in Peers,
         (\E e \in Elements : AddSender(p, e)) \/ PeerUp(p) \/ PeerDown(p)
  PROVE  PeerTypes' /\ RoutineTypes' /\ IDsInv' /\ RoutineInv'
  <1>1. PeerTypes /\ RoutineTypes /\ IDsInv /\ RoutineInv
    BY TypeParts DEF GossipInv
  <1>2. ASSUME NEW e \in Elements, AddSender(p, e)
        PROVE  PeerTypes' /\ RoutineTypes' /\ IDsInv' /\ RoutineInv'
    <2>1. /\ UNCHANGED <<up, ids, nextID, ups, routine, sent>>
          /\ senders' = [senders EXCEPT ![e] = @ \cup {ids[p]}]
          /\ from' = [from EXCEPT ![e] = @ \cup {p}]
      BY <1>2 DEF AddSender, peerVars
    <2>2. ids[p] \in IDs
      BY <1>1 DEF PeerTypes
    <2>3. PeerTypes'
      BY <1>1, <2>1, <2>2 DEF PeerTypes
    <2>4. RoutineTypes' /\ IDsInv' /\ RoutineInv'
      BY <1>1, <2>1 DEF RoutineTypes, IDsInv, RoutineInv
    <2> QED  BY <2>3, <2>4
  <1>3. CASE PeerUp(p)
    <2>1. /\ up' = up \cup {p} /\ ups' = ups + 1 /\ ups < MaxUps
          /\ senders' = senders /\ from' = from
      BY <1>3 DEF PeerUp, listVars
    <2>2. CASE routine[p].at # "none"
      <3>1. UNCHANGED <<ids, nextID, routine, sent>>
        BY <1>3, <2>2 DEF PeerUp
      <3>2. IDsInv'
        BY <1>1, <2>1, <3>1, TxGossipAssumption DEF IDsInv, PeerTypes
      <3>3. PeerTypes' /\ RoutineTypes' /\ RoutineInv'
        BY <1>1, <2>1, <3>1 DEF PeerTypes, RoutineTypes, RoutineInv
      <3> QED  BY <3>2, <3>3
    <2>3. CASE routine[p].at = "none"
      <3> DEFINE r == [NoRoutine EXCEPT !.at = "start"]
      <3>1. /\ ids' = [ids EXCEPT ![p] = nextID] /\ nextID' = nextID + 1
            /\ nextID \in IDs /\ nextID + 1 \in 1 .. MaxUps + 1
        <4>1. nextPeerID = nextID /\ nextID \in IDs /\ nextID + 1 \in 1 .. MaxUps + 1
          BY <1>1, <2>1, NextPeerIDIs
        <4> QED  BY <1>3, <2>3, <4>1 DEF PeerUp, ReserveForPeer
      <3>2. /\ routine' = [routine EXCEPT ![p] = r]
            /\ sent' = [sent EXCEPT ![p] = {}]
        BY <1>3, <2>3 DEF PeerUp
      <3>3. r \in Routine /\ r.at = "start"
        <4>1. NoRoutine \in Routine
          BY TxGossipAssumption DEF NoRoutine, Routine, UnknownPeerID, IDs
        <4> QED  BY <4>1 DEF Routine
      <3> HIDE DEF r
      <3>4. RoutineTypes' /\ RoutineInv'
        BY <1>1, <3>2, <3>3 DEF RoutineTypes, RoutineInv
      <3>5. PeerTypes'
        BY <1>1, <2>1, <3>1 DEF PeerTypes
      <3>6. /\ ups' \in 0 .. MaxUps /\ nextID' <= ups' + 1
        BY <1>1, <2>1, <3>1, TxGossipAssumption DEF IDsInv, PeerTypes
      <3>7. \A q \in Peers : ids'[q] < nextID'
        BY <1>1, <3>1, TxGossipAssumption DEF IDsInv, PeerTypes, IDs
      <3> QED  BY <3>4, <3>5, <3>6, <3>7 DEF IDsInv
    <2> QED  BY <2>2, <2>3
  <1>4. CASE PeerDown(p)
    <2> DEFINE c == routine[p].at # "none"
               r == [routine[p] EXCEPT !.closed = c]
    <2>1. /\ up' = up \ {p} /\ UNCHANGED <<senders, from, nextID, ups, sent>>
          /\ ids' = [ids EXCEPT ![p] = 0]
          /\ routine' = [routine EXCEPT ![p] = r]
      BY <1>4 DEF PeerDown, listVars, UnknownPeerID
    <2>2. c \in BOOLEAN /\ routine[p] \in Routine
      BY <1>1 DEF RoutineTypes
    <2> HIDE DEF c
    <2>3. r \in Routine /\ r.at = routine[p].at /\ r.el = routine[p].el
      BY <2>2 DEF Routine
    <2> HIDE DEF r
    <2>4. RoutineTypes' /\ RoutineInv'
      BY <1>1, <2>1, <2>3 DEF RoutineTypes, RoutineInv
    <2>5. 0 \in IDs /\ 0 < nextID
      BY <1>1, TxGossipAssumption DEF IDs, PeerTypes
    <2>6. PeerTypes'
      BY <1>1, <2>1, <2>5 DEF PeerTypes
    <2>7. IDsInv'
      BY <1>1, <2>1, <2>5 DEF IDsInv, PeerTypes
    <2> QED  BY <2>4, <2>6, <2>7
  <1> QED  BY <1>2, <1>3, <1>4

\* A step of a routine changes its record to one that has its type and, where
\* it needs one, an element.
LEMMA RoutineChange ==
  ASSUME GossipInv, NEW p \in Peers, NEW at, NEW r \in Routine, Step(p, at, r),
         r.at \in {"send", "sent", "wait"} => r.el \in Elements,
         sent' \in [Peers -> SUBSET Elements]
  PROVE  PeerTypes' /\ RoutineTypes' /\ IDsInv' /\ RoutineInv'
  <1>1. PeerTypes /\ RoutineTypes /\ IDsInv /\ RoutineInv
    BY TypeParts DEF GossipInv
  <1>2. /\ UNCHANGED <<senders, from, up, ids, nextID, ups>>
        /\ routine' = [routine EXCEPT ![p] = r]
    BY DEF Step, listVars, peerVars
  <1>3. PeerTypes' /\ IDsInv'
    BY <1>1, <1>2 DEF PeerTypes, IDsInv
  <1>4. RoutineTypes' /\ RoutineInv'
    BY <1>1, <1>2 DEF RoutineTypes, RoutineInv
  <1> QED  BY <1>3, <1>4

\* The broadcast routine.
LEMMA RoutineStep ==
  ASSUME GossipInv, NEW p \in Peers, Broadcast(p) \/ Exit(p)
  PROVE  PeerTypes' /\ RoutineTypes' /\ IDsInv' /\ RoutineInv'
  <1> DEFINE R == routine[p]
             Q == PeerTypes' /\ RoutineTypes' /\ IDsInv' /\ RoutineInv'
  <1>1. /\ ListTypes /\ PeerTypes /\ RoutineTypes
        /\ R.at \in {"send", "sent", "wait"} => R.el \in Elements
    BY TypeParts DEF GossipInv, RoutineInv
  <1>2. R \in Routine /\ ids[p] \in IDs /\ sent \in [Peers -> SUBSET Elements]
    BY <1>1 DEF RoutineTypes, PeerTypes
  <1>3. CASE Start(p)
    <2> DEFINE r == [R EXCEPT !.at = "front", !.id = ids[p]]
    <2>1. r \in Routine /\ r.at = "front"
      BY <1>2 DEF Routine
    <2>2. Step(p, "start", r) /\ sent' = sent
      BY <1>3 DEF Start
    <2> HIDE DEF r
    <2> QED  BY <1>2, <2>1, <2>2, RoutineChange
  <1>4. CASE TxsWaitChan(p)
    <2> DEFINE o == ~list.open
               r == [R EXCEPT !.at = "waitFront", !.ready = o]
    <2>1. o \in BOOLEAN
      OBVIOUS
    <2>2. Step(p, "front", r) /\ sent' = sent
      BY <1>4 DEF TxsWaitChan
    <2> HIDE DEF o
    <2>3. r \in Routine /\ r.at = "waitFront"
      BY <1>2, <2>1 DEF Routine
    <2> HIDE DEF r
    <2> QED  BY <1>2, <2>2, <2>3, RoutineChange
  <1>5. CASE TxsFront(p)
    <2> DEFINE h == list.head
               r == [R EXCEPT !.at = IF h = Nil THEN "front" ELSE "send", !.el = h]
    <2>1. h \in Elements \cup {Nil}
      BY <1>1 DEF ListTypes
    <2>2. Step(p, "waitFront", r) /\ sent' = sent
      BY <1>5 DEF TxsFront
    <2> HIDE DEF h
    <2>3. r \in Routine /\ (r.at = "front" \/ (r.at = "send" /\ r.el \in Elements))
      BY <1>2, <2>1 DEF Routine
    <2> HIDE DEF r
    <2> QED  BY <1>2, <2>2, <2>3, RoutineChange
  <1>6. CASE Send(p)
    <2> DEFINE r == [R EXCEPT !.at = "sent"]
    <2>1. Step(p, "send", r) /\ R.at = "send"
      BY <1>6 DEF Send, Step
    <2>2. r \in Routine /\ r.el = R.el
      BY <1>2 DEF Routine
    <2>3. sent' \in [Peers -> SUBSET Elements]
      <3>1. sent' = sent \/ sent' = [sent EXCEPT ![p] = @ \cup ({R.el} \cap Linked)]
        BY <1>6 DEF Send
      <3>2. {R.el} \cap Linked \in SUBSET Elements
        BY <1>1, <2>1
      <3> QED  BY <1>2, <3>1, <3>2
    <2> HIDE DEF r
    <2> QED  BY <1>1, <2>1, <2>2, <2>3, RoutineChange
  <1>7. CASE NextWaitChan(p)
    <2> DEFINE o == ~elem[R.el].open
               r == [R EXCEPT !.at = "wait", !.ready = o]
    <2>1. o \in BOOLEAN
      OBVIOUS
    <2>2. Step(p, "sent", r) /\ sent' = sent /\ R.at = "sent"
      BY <1>7 DEF NextWaitChan, Step
    <2> HIDE DEF o
    <2>3. r \in Routine /\ r.el = R.el
      BY <1>2, <2>1 DEF Routine
    <2> HIDE DEF r
    <2> QED  BY <1>1, <1>2, <2>2, <2>3, RoutineChange
  <1>8. CASE NextElement(p)
    <2> DEFINE n == elem[R.el].next
               r == [R EXCEPT !.at = IF n = Nil THEN "front" ELSE "send", !.el = n]
    <2>1. Step(p, "wait", r) /\ sent' = sent /\ R.at = "wait"
      BY <1>8 DEF NextElement, Step
    <2>2. n \in Elements \cup {Nil}
      BY <1>1, <2>1 DEF ListTypes, Element
    <2> HIDE DEF n
    <2>3. r \in Routine /\ (r.at = "front" \/ (r.at = "send" /\ r.el \in Elements))
      BY <1>2, <2>2 DEF Routine
    <2> HIDE DEF r
    <2> QED  BY <1>2, <2>1, <2>3, RoutineChange
  <1>9. CASE Exit(p)
    <2>1. NoRoutine \in Routine /\ NoRoutine.at = "none"
      BY TxGossipAssumption DEF NoRoutine, Routine, UnknownPeerID, IDs
    <2>2. Step(p, R.at, NoRoutine) /\ sent' = sent
      BY <1>9 DEF Exit
    <2> QED  BY <1>2, <2>1, <2>2, RoutineChange
  <1> QED  BY <1>3, <1>4, <1>5, <1>6, <1>7, <1>8, <1>9 DEF Broadcast

-----------------------------------------------------------------------------
\* Every step preserves the invariant.
LEMMA GossipStep ==
  ASSUME GossipInv, [Next]_vars
  PROVE  GossipInv'
  <1>0. ASSUME ListTypes', PeerTypes', RoutineTypes', ListInv', IDsInv', RoutineInv'
        PROVE  GossipInv'
    <2>1. panic' \in BOOLEAN
      BY <1>0 DEF ListInv
    <2>2. TypeOK'
      BY <1>0, <2>1 DEF TypeOK, ListTypes, PeerTypes, RoutineTypes, Element, Routine
    <2> QED  BY <1>0, <2>2 DEF GossipInv
  <1>1. CASE \/ \E p \in Peers \cup {Nil} : PushBack(p)
             \/ \E e \in Elements : Unlink(e)
             \/ SetRemoved
    <2>1. ListTypes' /\ ListInv'
      BY <1>1, PushList, UnlinkList, RemovedList
    <2>2. PeerTypes' /\ RoutineTypes' /\ IDsInv' /\ RoutineInv'
      BY <1>1, ListStepPeers
    <2> QED  BY <1>0, <2>1, <2>2
  <1>2. ASSUME NEW p \in Peers,
               (\E e \in Elements : AddSender(p, e)) \/ PeerUp(p) \/ PeerDown(p)
        PROVE  GossipInv'
    <2>1. UNCHANGED <<list, elem, added, unlinked, panic>>
      BY <1>2 DEF AddSender, PeerUp, PeerDown, listVars
    <2>2. PeerTypes' /\ RoutineTypes' /\ IDsInv' /\ RoutineInv'
      BY <1>2, PeerStep
    <2> QED  BY <1>0, <2>1, <2>2, ListFrame
  <1>3. ASSUME NEW p \in Peers, Broadcast(p) \/ Exit(p)
        PROVE  GossipInv'
    <2>1. UNCHANGED <<list, elem, added, unlinked, panic>>
      BY <1>3 DEF Broadcast, Exit, Start, TxsWaitChan, TxsFront, Send, NextWaitChan,
                  NextElement, Step, listVars
    <2>2. PeerTypes' /\ RoutineTypes' /\ IDsInv' /\ RoutineInv'
      BY <1>3, RoutineStep
    <2> QED  BY <1>0, <2>1, <2>2, ListFrame
  <1>4. CASE UNCHANGED vars
    <2>1. UNCHANGED <<list, elem, added, unlinked, panic, senders, from, up, ids, nextID,
                      ups, routine, sent>>
      BY <1>4 DEF vars, listVars, peerVars
    <2>2. PeerTypes /\ RoutineTypes /\ IDsInv /\ RoutineInv
      BY TypeParts DEF GossipInv
    <2>3. PeerTypes' /\ RoutineTypes' /\ IDsInv' /\ RoutineInv'
      BY <2>1, <2>2 DEF PeerTypes, RoutineTypes, IDsInv, RoutineInv
    <2> QED  BY <1>0, <2>1, <2>3, ListFrame
  <1> QED  BY <1>1, <1>2, <1>3, <1>4 DEF Next

\* The invariant holds in every reachable state.
THEOREM GossipInvariant == Spec => []GossipInv
  <1>1. Init => GossipInv
    BY GossipInit
  <1>2. GossipInv /\ [Next]_vars => GossipInv'
    BY GossipStep
  <1> QED  BY <1>1, <1>2, PTL DEF Spec

\* For any number of transactions, peers and reconnections, the concurrent
\* list holds what was appended and not removed, in order and in both
\* directions, no channel is closed twice, and Remove never finds a false
\* head or tail, although it marks an element only after unlinking it.
THEOREM ListStaysIntact == Spec => []ListIntact
  <1>1. GossipInv => ListIntact
    BY TypeParts, LinkedIs, IntactIs DEF GossipInv, ListInv
  <1> QED  BY <1>1, GossipInvariant, PTL

=============================================================================
