--------------------------- MODULE MempoolProofs ---------------------------
(***************************************************************************)
(* Theorems about the mempool, for any transactions, callers, limits and   *)
(* number of blocks, as long as the request queue has room for the         *)
(* rechecks of a full mempool (RoomForRecheck).                            *)
(***************************************************************************)
EXTENDS Mempool, SequenceTheorems, TLAPS

(* In recheckTxs every request may be followed by one flush of the timer.  *)
RoomForRecheck == 2 * Size <= reqQueueSize + 1

-----------------------------------------------------------------------------
(***************************************************************************)
(* The inductive invariant.                                                *)
(***************************************************************************)
(* The requests that are not yet answered, in the order of their answers;  *)
(* and the elements that recheckTxs has still to send.                     *)
Pipe == cli.reqSent \o cli.reqQueue
Left == IF commit.at = "recheckTxs" THEN commit.left ELSE <<>>

(* The same as sets, the elements of the list, and the cache. *)
Waiting == ToSet(Pipe)
Unsent == ToSet(Left)
Pooled == ToSet(mem.txs)
Known == ToSet(mem.cache)

IsCheck(r) == r.type \in {"CheckTx", "Recheck"}
Precedes(q, r) ==
  IsCheck(q) /\ IsCheck(r) =>
    q.req < r.req /\ (r.type = "Recheck" => q.type = "Recheck")

Distinct(s) == \A i, j \in DOMAIN s : s[i] = s[j] => i = j
Sorted(s) == \A i, j \in DOMAIN s : i < j => s[i].req < s[j].req
InOrder(s) == \A i, j \in DOMAIN s : i < j => Precedes(s[i], s[j])

(* Limits that hold, and the cache has a transaction once. *)
Bounded ==
  /\ Len(mem.txs) <= Size /\ mem.txsBytes <= MaxTxsBytes
  /\ mem.txsBytes = Len(mem.txs)
  /\ Len(mem.cache) <= CacheSize /\ Len(cli.reqQueue) <= reqQueueSize
  /\ cli.written <= Len(cli.reqSent)
  /\ Distinct(mem.cache)

Indexed ==
  /\ \A t \in Txs : mem.txsMap[t] # Nil => mem.txsMap[t].tx = t /\ mem.txsMap[t] \in Pooled
  /\ \A e \in Pooled : e.tx \in evicted \/ mem.txsMap[e.tx] = e

(* Requests are answered, and elements added, in the order of their names; *)
(* rechecks come before all first checks.                                  *)
Ordered ==
  /\ Sorted(mem.txs) /\ Sorted(Left) /\ InOrder(Pipe)
  /\ \A e \in Pooled : e.req <= checks
  /\ \A r \in Waiting : r.type = "CheckTx" =>
       r.req <= checks /\ \A e \in Pooled : e.req < r.req

(* The rechecks on their way, or still to send, are those of the elements  *)
(* from the cursor to the end of the list.                                 *)
Rechecking ==
  /\ \A r \in Waiting : r.type = "Recheck" =>
       mem.cursor # Nil /\ mem.cursor.req <= r.req /\ [tx |-> r.tx, req |-> r.req] \in Pooled
  /\ \A e \in Unsent :
       /\ mem.cursor # Nil /\ mem.cursor.req <= e.req /\ e \in Pooled
       /\ \A r \in Waiting : r.type = "Recheck" => r.req < e.req
  /\ mem.cursor # Nil =>
       /\ mem.cursor \in Pooled /\ mem.end \in Pooled
       /\ \A e \in Pooled :
            /\ e.req <= mem.end.req
            /\ mem.cursor.req <= e.req =>
                 e \in Unsent \/ \E r \in Waiting : r.type = "Recheck" /\ r.req = e.req

(* What the locks and the flush exclude; and the room that is left for the *)
(* rechecks.                                                               *)
Slots == IF cli.timer THEN Len(cli.reqQueue) + 1 ELSE Len(cli.reqQueue)

Locked ==
  /\ commit # Idle => \A c \in Callers : pc[c] = Idle
  /\ commit.at = "Update" =>
       ~cli.timer /\ (Pipe = <<>> \/ Pipe[Len(Pipe)].type = "FlushSync")
  /\ commit.at # "Update" => \A r \in Waiting : r.type # "FlushSync"
  /\ commit.at = "UpdateTx" => Pipe = <<>> /\ ~cli.timer /\ mem.cursor = Nil
  /\ commit.at = "recheckTxs" =>
       /\ \A r \in Waiting : r.type # "CheckTx"
       /\ Slots + 2 * Len(Left) <= 2 * Size

(* A transaction that the cache has not forgotten is in one place at most: *)
(* with a caller, on its way to the application or in the list; then, or   *)
(* when it is committed, the cache has it.                                 *)
Asks(c, t) == pc[c].at = "CheckTxAsync" /\ pc[c].tx = t
Checked(r, t) == r.type = "CheckTx" /\ r.tx = t

Single ==
  \A t \in Txs \ evicted :
    /\ \A c \in Callers : Asks(c, t) =>
         /\ t \in Known /\ t \notin committed
         /\ \A d \in Callers : Asks(d, t) => d = c
         /\ \A r \in Waiting : ~Checked(r, t)
         /\ \A e \in Pooled : e.tx # t
    /\ \A r \in Waiting : Checked(r, t) =>
         /\ t \in Known /\ t \notin committed
         /\ \A q \in Waiting : Checked(q, t) => q = r
         /\ \A e \in Pooled : e.tx # t
    /\ \A e \in Pooled : e.tx = t => t \in Known /\ t \notin committed
    /\ t \in committed => t \in Known

(* The announcement that consensus waits for. *)
Announcing ==
  /\ mem.notified => mem.token \/ heard
  /\ commit.at # "UpdateTx" /\ mem.cursor = Nil /\ mem.txs # <<>> => mem.notified

MempoolInv ==
  /\ TypeOK /\ NoPanic
  /\ Bounded /\ Indexed /\ Ordered /\ Rechecking /\ Locked /\ Single /\ Announcing

-----------------------------------------------------------------------------
(***************************************************************************)
(* Sequences.                                                              *)
(***************************************************************************)
(* The place of an element of a sequence. *)
LEMMA PlaceIs ==
  ASSUME NEW S, NEW s \in Seq(S), NEW x, x \in ToSet(s)
  PROVE  Place(s, x) \in 1 .. Len(s) /\ s[Place(s, x)] = x
  <1>1. DOMAIN s = 1 .. Len(s)
    BY LenProperties
  <1>2. \E i \in DOMAIN s : s[i] = x
    BY DEF ToSet
  <1> QED  BY <1>1, <1>2 DEF Place

(* Contains is membership in ToSet. *)
LEMMA ContainsIs ==
  ASSUME NEW S, NEW s \in Seq(S), NEW x
  PROVE  Contains(s, x) <=> x \in ToSet(s)
  BY LenProperties DEF Contains, ToSet

(* Without takes out one place of the sequence. *)
LEMMA WithoutIs ==
  ASSUME NEW S, NEW s \in Seq(S), NEW x, x \in ToSet(s)
  PROVE  \E k \in 1 .. Len(s) :
           /\ s[k] = x
           /\ Without(s, x) \in Seq(S)
           /\ Len(Without(s, x)) = Len(s) - 1
           /\ \A i \in 1 .. Len(s) - 1 :
                Without(s, x)[i] = IF i < k THEN s[i] ELSE s[i + 1]
  <1> DEFINE k == Place(s, x)
  <1>4. Without(s, x) = RemoveAt(s, k)
    BY ContainsIs DEF Without
  <1>5. k \in 1 .. Len(s) /\ s[k] = x /\ Len(s) \in Nat
    BY PlaceIs
  <1> HIDE DEF k
  <1> DEFINE a == SubSeq(s, 1, k - 1)
             b == SubSeq(s, k + 1, Len(s))
  <1>6. a \in Seq(S) /\ Len(a) = k - 1 /\ \A i \in 1 .. k - 1 : a[i] = s[i]
    BY <1>5
  <1>7. b \in Seq(S) /\ Len(b) = Len(s) - k /\ \A i \in 1 .. Len(s) - k : b[i] = s[k + i]
    BY <1>5
  <1>0. RemoveAt(s, k) = a \o b
    BY DEF RemoveAt
  <1> HIDE DEF a, b
  <1>8. /\ a \o b \in Seq(S)
        /\ Len(a \o b) = Len(s) - 1
        /\ \A i \in 1 .. Len(s) - 1 : (a \o b)[i] = IF i <= k - 1 THEN a[i] ELSE b[i - (k - 1)]
    <2>1. /\ a \o b \in Seq(S)
          /\ Len(a \o b) = Len(a) + Len(b)
          /\ \A i \in 1 .. Len(a) + Len(b) : (a \o b)[i] =
               IF i <= Len(a) THEN a[i] ELSE b[i - Len(a)]
      BY <1>6, <1>7, ConcatProperties
    <2>2. Len(a) + Len(b) = Len(s) - 1
      BY <1>5, <1>6, <1>7
    <2> QED  BY <1>6, <2>1, <2>2
  <1>9. ASSUME NEW i \in 1 .. Len(s) - 1
        PROVE  (a \o b)[i] = IF i < k THEN s[i] ELSE s[i + 1]
    <2>1. CASE i < k
      BY <1>5, <1>6, <1>8, <2>1
    <2>2. CASE ~(i < k)
      <3>1. i - (k - 1) \in 1 .. Len(s) - k /\ k + (i - (k - 1)) = i + 1
        BY <1>5, <2>2
      <3> QED  BY <1>5, <1>7, <1>8, <2>2, <3>1
    <2> QED  BY <2>1, <2>2
  <1> QED  BY <1>0, <1>4, <1>5, <1>8, <1>9

(* What is removed leaves the other elements, in their order. *)
LEMMA WithoutSet ==
  ASSUME NEW S, NEW s \in Seq(S), NEW x, x \in ToSet(s),
         \A i, j \in DOMAIN s : s[i] = s[j] => i = j
  PROVE  /\ Without(s, x) \in Seq(S)
         /\ Len(Without(s, x)) = Len(s) - 1
         /\ ToSet(Without(s, x)) = ToSet(s) \ {x}
         /\ \A i, j \in DOMAIN Without(s, x) : Without(s, x)[i] = Without(s, x)[j] => i = j
         /\ \A i, j \in DOMAIN Without(s, x) : i < j =>
              \E k, l \in DOMAIN s : k < l /\ Without(s, x)[i] = s[k] /\ Without(s, x)[j] = s[l]
  <1> DEFINE w == Without(s, x)
  <1>1. PICK k \in 1 .. Len(s) :
           /\ s[k] = x
           /\ w \in Seq(S)
           /\ Len(w) = Len(s) - 1
           /\ \A i \in 1 .. Len(s) - 1 : w[i] = IF i < k THEN s[i] ELSE s[i + 1]
    BY WithoutIs
  <1> HIDE DEF w
  <1>2. /\ DOMAIN s = 1 .. Len(s) /\ Len(s) \in Nat
        /\ DOMAIN w = 1 .. Len(s) - 1
    BY <1>1, LenProperties
  <1>3. ASSUME NEW i \in DOMAIN w
        PROVE  \E j \in DOMAIN s : j = (IF i < k THEN i ELSE i + 1) /\ w[i] = s[j] /\ j # k
    BY <1>1, <1>2
  <1>4. \A i \in DOMAIN w : w[i] \in ToSet(s) \ {x}
    BY <1>1, <1>2, <1>3 DEF ToSet
  <1>5. ASSUME NEW y \in ToSet(s) \ {x} PROVE y \in ToSet(w)
    <2>1. PICK j \in DOMAIN s : s[j] = y
      BY DEF ToSet
    <2>2. j # k
      BY <1>1, <2>1
    <2>3. CASE j < k
      <3>1. j \in DOMAIN w /\ w[j] = s[j]
        BY <1>1, <1>2, <2>3
      <3> QED  BY <2>1, <3>1 DEF ToSet
    <2>4. CASE j > k
      <3>1. j - 1 \in DOMAIN w /\ w[j - 1] = s[j]
        BY <1>1, <1>2, <2>4
      <3> QED  BY <2>1, <3>1 DEF ToSet
    <2> QED  BY <1>2, <2>2, <2>3, <2>4
  <1>6. ToSet(w) = ToSet(s) \ {x}
    BY <1>4, <1>5 DEF ToSet
  <1>7. ASSUME NEW i \in DOMAIN w, NEW j \in DOMAIN w, w[i] = w[j] PROVE i = j
    <2>1. PICK a \in DOMAIN s : a = (IF i < k THEN i ELSE i + 1) /\ w[i] = s[a]
      BY <1>3
    <2>2. PICK b \in DOMAIN s : b = (IF j < k THEN j ELSE j + 1) /\ w[j] = s[b]
      BY <1>3
    <2>3. a = b
      BY <1>7, <2>1, <2>2
    <2> QED  BY <1>2, <2>1, <2>2, <2>3
  <1>8. ASSUME NEW i \in DOMAIN w, NEW j \in DOMAIN w, i < j
        PROVE  \E a, b \in DOMAIN s : a < b /\ w[i] = s[a] /\ w[j] = s[b]
    <2>1. PICK a \in DOMAIN s : a = (IF i < k THEN i ELSE i + 1) /\ w[i] = s[a]
      BY <1>3
    <2>2. PICK b \in DOMAIN s : b = (IF j < k THEN j ELSE j + 1) /\ w[j] = s[b]
      BY <1>3
    <2>3. a < b
      BY <1>2, <1>8, <2>1, <2>2
    <2> QED  BY <2>1, <2>2, <2>3
  <1> QED  BY <1>1, <1>6, <1>7, <1>8 DEF w

(* What Append and Tail do to the elements. *)
LEMMA AppendSet ==
  ASSUME NEW S, NEW s \in Seq(S), NEW x \in S
  PROVE  /\ Append(s, x) \in Seq(S) /\ Len(Append(s, x)) = Len(s) + 1
         /\ DOMAIN s = 1 .. Len(s) /\ DOMAIN Append(s, x) = 1 .. Len(s) + 1
         /\ \A i \in 1 .. Len(s) : Append(s, x)[i] = s[i]
         /\ Append(s, x)[Len(s) + 1] = x
         /\ ToSet(Append(s, x)) = ToSet(s) \cup {x}
  <1> DEFINE a == Append(s, x)
  <1>1. /\ a \in Seq(S) /\ Len(a) = Len(s) + 1 /\ Len(s) \in Nat
        /\ \A i \in 1 .. Len(s) : a[i] = s[i]
        /\ a[Len(s) + 1] = x
    BY AppendProperties, LenProperties
  <1>2. DOMAIN s = 1 .. Len(s) /\ DOMAIN a = 1 .. Len(s) + 1
    BY <1>1, LenProperties
  <1> HIDE DEF a
  <1>3. ToSet(a) = ToSet(s) \cup {x}
    <2>1. \A i \in DOMAIN a : a[i] \in ToSet(s) \cup {x}
      BY <1>1, <1>2 DEF ToSet
    <2>2. \A i \in DOMAIN s : i \in DOMAIN a /\ a[i] = s[i]
      BY <1>1, <1>2
    <2>3. Len(s) + 1 \in DOMAIN a
      BY <1>1, <1>2
    <2> QED  BY <1>1, <2>1, <2>2, <2>3 DEF ToSet
  <1> QED  BY <1>1, <1>2, <1>3 DEF a

(* What the head and the tail of a sequence hold. *)
LEMMA TailSet ==
  ASSUME NEW S, NEW s \in Seq(S), s # <<>>
  PROVE  /\ Head(s) = s[1] /\ Head(s) \in S /\ Head(s) \in ToSet(s)
         /\ Len(s) \in Nat /\ Len(s) >= 1
         /\ Tail(s) \in Seq(S) /\ Len(Tail(s)) = Len(s) - 1
         /\ DOMAIN s = 1 .. Len(s) /\ DOMAIN Tail(s) = 1 .. Len(s) - 1
         /\ \A i \in 1 .. Len(s) - 1 : Tail(s)[i] = s[i + 1]
         /\ ToSet(s) = ToSet(Tail(s)) \cup {Head(s)}
  <1> DEFINE t == Tail(s)
  <1>1. /\ t \in Seq(S) /\ Len(t) = Len(s) - 1 /\ Len(s) \in Nat /\ Len(s) >= 1
        /\ \A i \in 1 .. Len(t) : t[i] = s[i + 1]
        /\ Head(s) = s[1] /\ Head(s) \in S
    OBVIOUS
  <1>2. DOMAIN s = 1 .. Len(s) /\ DOMAIN t = 1 .. Len(s) - 1
    BY <1>1, LenProperties
  <1> HIDE DEF t
  <1>3. Head(s) \in ToSet(s)
    BY <1>1, <1>2 DEF ToSet
  <1>4. ASSUME NEW i \in DOMAIN t PROVE t[i] \in ToSet(s)
    <2>1. i + 1 \in DOMAIN s /\ t[i] = s[i + 1]
      BY <1>1, <1>2
    <2> QED  BY <2>1 DEF ToSet
  <1>5. ASSUME NEW i \in DOMAIN s PROVE s[i] \in ToSet(t) \cup {Head(s)}
    <2>1. CASE i = 1
      BY <1>1, <2>1
    <2>2. CASE i # 1
      <3>1. i - 1 \in DOMAIN t /\ t[i - 1] = s[i]
        BY <1>1, <1>2, <2>2
      <3> QED  BY <3>1 DEF ToSet
    <2> QED  BY <2>1, <2>2
  <1>6. ToSet(s) = ToSet(t) \cup {Head(s)}
    BY <1>3, <1>4, <1>5 DEF ToSet
  <1> QED  BY <1>1, <1>2, <1>3, <1>6 DEF t

(* The elements of a sequence are of its type. *)
LEMMA ToSetType ==
  ASSUME NEW S, NEW s \in Seq(S)
  PROVE  ToSet(s) \subseteq S
  BY LenProperties DEF ToSet

-----------------------------------------------------------------------------
(***************************************************************************)
(* The cache.                                                              *)
(***************************************************************************)
(* Removal from the cache. *)
LEMMA CacheRemove ==
  ASSUME NEW c \in Seq(Txs), Distinct(c), NEW t
  PROVE  /\ Without(c, t) \in Seq(Txs) /\ Distinct(Without(c, t))
         /\ Len(Without(c, t)) <= Len(c)
         /\ ToSet(Without(c, t)) = ToSet(c) \ {t}
         /\ t \in ToSet(c) => Len(Without(c, t)) = Len(c) - 1
  <1>0. Len(c) \in Nat
    BY LenProperties
  <1>1. CASE t \in ToSet(c)
    <2>1. /\ Without(c, t) \in Seq(Txs)
          /\ Len(Without(c, t)) = Len(c) - 1
          /\ ToSet(Without(c, t)) = ToSet(c) \ {t}
          /\ Distinct(Without(c, t))
      BY <1>1, WithoutSet DEF Distinct
    <2> QED  BY <1>0, <2>1
  <1>2. CASE t \notin ToSet(c)
    <2>1. Without(c, t) = c
      BY <1>2, ContainsIs DEF Without
    <2> QED  BY <1>0, <1>2, <2>1
  <1> QED  BY <1>1, <1>2

(* Append to a cache that does not have t. *)
LEMMA CacheAppend ==
  ASSUME NEW c \in Seq(Txs), Distinct(c), NEW t \in Txs, t \notin ToSet(c)
  PROVE  /\ Append(c, t) \in Seq(Txs) /\ Distinct(Append(c, t))
         /\ Len(Append(c, t)) = Len(c) + 1
         /\ ToSet(Append(c, t)) = ToSet(c) \cup {t}
  <1> DEFINE a == Append(c, t)
  <1>1. /\ a \in Seq(Txs) /\ Len(a) = Len(c) + 1 /\ Len(c) \in Nat
        /\ DOMAIN c = 1 .. Len(c) /\ DOMAIN a = 1 .. Len(c) + 1
        /\ \A i \in 1 .. Len(c) : a[i] = c[i]
        /\ a[Len(c) + 1] = t
        /\ ToSet(a) = ToSet(c) \cup {t}
    BY AppendSet, LenProperties
  <1> HIDE DEF a
  <1>2. \A i \in 1 .. Len(c) : a[i] # t
    BY <1>1 DEF ToSet
  <1>3. ASSUME NEW i \in DOMAIN a, NEW j \in DOMAIN a, a[i] = a[j] PROVE i = j
    <2>1. CASE i = Len(c) + 1
      BY <1>1, <1>2, <1>3, <2>1
    <2>2. CASE j = Len(c) + 1
      BY <1>1, <1>2, <1>3, <2>2
    <2>3. CASE i # Len(c) + 1 /\ j # Len(c) + 1
      <3>1. i \in DOMAIN c /\ j \in DOMAIN c
        BY <1>1, <2>3
      <3> QED  BY <1>1, <1>3, <3>1 DEF Distinct
    <2> QED  BY <2>1, <2>2, <2>3
  <1> QED  BY <1>1, <1>3 DEF a, Distinct

(* Push has t at the end, and what it drops is the only loss. *)
LEMMA CachePush ==
  ASSUME NEW c \in Seq(Txs), Distinct(c), Len(c) <= CacheSize, NEW t \in Txs
  PROVE  /\ Push(c, t) \in Seq(Txs) /\ Distinct(Push(c, t))
         /\ Len(Push(c, t)) <= CacheSize
         /\ t \in ToSet(Push(c, t))
         /\ ToSet(Push(c, t)) \subseteq ToSet(c) \cup {t}
         /\ t \in ToSet(c) => ToSet(Push(c, t)) = ToSet(c)
  <1>0. Len(c) \in Nat /\ CacheSize \in Nat /\ CacheSize >= 1
    BY LenProperties, MempoolAssumption
  <1> DEFINE o == IF ~Contains(c, t) /\ Len(c) >= CacheSize THEN Tail(c) ELSE Without(c, t)
  <1>1. /\ o \in Seq(Txs) /\ Distinct(o) /\ t \notin ToSet(o)
        /\ Len(o) <= CacheSize - 1 /\ Len(o) \in Nat
        /\ ToSet(o) \subseteq ToSet(c)
        /\ t \in ToSet(c) => ToSet(o) = ToSet(c) \ {t}
    <2>1. CASE t \in ToSet(c)
      <3>1. o = Without(c, t)
        BY <2>1, ContainsIs
      <3> HIDE DEF o
      <3>2. /\ o \in Seq(Txs) /\ Distinct(o) /\ ToSet(o) = ToSet(c) \ {t}
            /\ Len(o) = Len(c) - 1
        BY <2>1, <3>1, CacheRemove
      <3>3. Len(o) <= CacheSize - 1 /\ Len(o) \in Nat
        BY <1>0, <3>2, LenProperties
      <3> QED  BY <2>1, <3>2, <3>3
    <2>2. CASE t \notin ToSet(c) /\ Len(c) >= CacheSize
      <3>1. o = Tail(c) /\ c # <<>>
        BY <1>0, <2>2, ContainsIs
      <3> HIDE DEF o
      <3>2. /\ o \in Seq(Txs) /\ Len(o) = Len(c) - 1
            /\ DOMAIN c = 1 .. Len(c) /\ DOMAIN o = 1 .. Len(c) - 1
            /\ \A i \in 1 .. Len(c) - 1 : o[i] = c[i + 1]
            /\ ToSet(c) = ToSet(o) \cup {Head(c)}
        BY <3>1, TailSet
      <3>3. ASSUME NEW i \in DOMAIN o, NEW j \in DOMAIN o, o[i] = o[j] PROVE i = j
        <4>1. i + 1 \in DOMAIN c /\ j + 1 \in DOMAIN c /\ c[i + 1] = c[j + 1]
          BY <1>0, <3>2, <3>3
        <4>2. i + 1 = j + 1
          BY <4>1 DEF Distinct
        <4> QED  BY <1>0, <3>2, <4>2
      <3>4. Distinct(o)
        BY <3>3 DEF Distinct
      <3>5. Len(o) <= CacheSize - 1 /\ Len(o) \in Nat
        BY <1>0, <3>2, LenProperties
      <3> QED  BY <2>2, <3>2, <3>4, <3>5
    <2>3. CASE t \notin ToSet(c) /\ Len(c) < CacheSize
      <3>1. o = Without(c, t) /\ ~(Len(c) >= CacheSize)
        BY <1>0, <2>3
      <3>2. o = c
        BY <2>3, <3>1, ContainsIs DEF Without
      <3> HIDE DEF o
      <3> QED  BY <1>0, <2>3, <3>2
    <2> QED  BY <1>0, <2>1, <2>2, <2>3
  <1>2. Push(c, t) = Append(o, t)
    BY DEF Push
  <1> HIDE DEF o
  <1>3. /\ Append(o, t) \in Seq(Txs) /\ Distinct(Append(o, t))
        /\ Len(Append(o, t)) = Len(o) + 1
        /\ ToSet(Append(o, t)) = ToSet(o) \cup {t}
    BY <1>1, CacheAppend
  <1> QED  BY <1>0, <1>1, <1>2, <1>3

-----------------------------------------------------------------------------
(***************************************************************************)
(* Lists in the order of their requests, and the pipe.                     *)
(***************************************************************************)
(* The request of an element is a number. *)
LEMMA ReqType ==
  ASSUME NEW s \in Seq(Elements)
  PROVE  /\ DOMAIN s = 1 .. Len(s) /\ Len(s) \in Nat
         /\ \A i \in DOMAIN s : s[i].req \in Nat
  <1>1. DOMAIN s = 1 .. Len(s) /\ Len(s) \in Nat
    BY LenProperties
  <1>2. \A i \in DOMAIN s : s[i] \in Elements
    BY <1>1
  <1> QED  BY <1>1, <1>2 DEF Elements

(* A sorted list has a request once, so that its elements are distinct. *)
LEMMA SortedUnique ==
  ASSUME NEW s \in Seq(Elements), Sorted(s)
  PROVE  /\ Distinct(s)
         /\ \A e, f \in ToSet(s) : e.req = f.req => e = f
  <1>1. DOMAIN s = 1 .. Len(s) /\ Len(s) \in Nat
    BY LenProperties
  <1>2. ASSUME NEW i \in DOMAIN s, NEW j \in DOMAIN s, s[i].req = s[j].req PROVE i = j
    <2>1. s[i].req \in Nat /\ s[j].req \in Nat
      BY ReqType
    <2>2. i < j \/ j < i \/ i = j
      BY <1>1
    <2> QED  BY <1>2, <2>1, <2>2 DEF Sorted
  <1>3. Distinct(s)
    BY <1>2 DEF Distinct
  <1>4. ASSUME NEW e \in ToSet(s), NEW f \in ToSet(s), e.req = f.req PROVE e = f
    <2>1. PICK i \in DOMAIN s : s[i] = e
      BY DEF ToSet
    <2>2. PICK j \in DOMAIN s : s[j] = f
      BY DEF ToSet
    <2> QED  BY <1>2, <1>4, <2>1, <2>2
  <1> QED  BY <1>3, <1>4

(* Removal keeps the order. *)
LEMMA SortedRemove ==
  ASSUME NEW s \in Seq(Elements), Sorted(s), NEW e \in ToSet(s)
  PROVE  /\ Without(s, e) \in Seq(Elements) /\ Sorted(Without(s, e))
         /\ Len(Without(s, e)) = Len(s) - 1
         /\ ToSet(Without(s, e)) = ToSet(s) \ {e}
  <1> DEFINE w == Without(s, e)
  <1>1. /\ w \in Seq(Elements) /\ Len(w) = Len(s) - 1
        /\ ToSet(w) = ToSet(s) \ {e}
        /\ \A i, j \in DOMAIN w : i < j =>
             \E k, l \in DOMAIN s : k < l /\ w[i] = s[k] /\ w[j] = s[l]
    BY SortedUnique, WithoutSet DEF Distinct
  <1> HIDE DEF w
  <1>2. ASSUME NEW i \in DOMAIN w, NEW j \in DOMAIN w, i < j PROVE w[i].req < w[j].req
    <2>1. PICK k \in DOMAIN s, l \in DOMAIN s : k < l /\ w[i] = s[k] /\ w[j] = s[l]
      BY <1>1, <1>2
    <2> QED  BY <2>1 DEF Sorted
  <1> QED  BY <1>1, <1>2 DEF w, Sorted

(* An element with a later request goes to the end. *)
LEMMA SortedAppend ==
  ASSUME NEW s \in Seq(Elements), Sorted(s), NEW e \in Elements,
         \A f \in ToSet(s) : f.req < e.req
  PROVE  /\ Append(s, e) \in Seq(Elements) /\ Sorted(Append(s, e))
         /\ Len(Append(s, e)) = Len(s) + 1
         /\ ToSet(Append(s, e)) = ToSet(s) \cup {e}
  <1> DEFINE a == Append(s, e)
  <1>1. /\ a \in Seq(Elements) /\ Len(a) = Len(s) + 1 /\ Len(s) \in Nat
        /\ DOMAIN s = 1 .. Len(s) /\ DOMAIN a = 1 .. Len(s) + 1
        /\ \A i \in 1 .. Len(s) : a[i] = s[i]
        /\ a[Len(s) + 1] = e
        /\ ToSet(a) = ToSet(s) \cup {e}
    BY AppendSet, LenProperties
  <1> HIDE DEF a
  <1>2. ASSUME NEW i \in DOMAIN a, NEW j \in DOMAIN a, i < j PROVE a[i].req < a[j].req
    <2>1. i \in DOMAIN s /\ a[i] = s[i] /\ s[i] \in ToSet(s)
      BY <1>1, <1>2 DEF ToSet
    <2>2. CASE j = Len(s) + 1
      BY <1>1, <2>1, <2>2
    <2>3. CASE j # Len(s) + 1
      <3>1. j \in DOMAIN s /\ a[j] = s[j]
        BY <1>1, <2>3
      <3> QED  BY <1>2, <2>1, <3>1 DEF Sorted
    <2> QED  BY <2>2, <2>3
  <1> QED  BY <1>1, <1>2 DEF a, Sorted

(* The first element comes before the others. *)
LEMMA SortedTail ==
  ASSUME NEW s \in Seq(Elements), Sorted(s), s # <<>>
  PROVE  /\ Tail(s) \in Seq(Elements) /\ Sorted(Tail(s))
         /\ Len(Tail(s)) = Len(s) - 1 /\ Len(s) \in Nat \ {0}
         /\ Head(s) \in Elements /\ Head(s) \in ToSet(s)
         /\ ToSet(s) = ToSet(Tail(s)) \cup {Head(s)}
         /\ \A e \in ToSet(Tail(s)) : Head(s).req < e.req
  <1> DEFINE t == Tail(s)
  <1>1. /\ Head(s) = s[1] /\ Head(s) \in Elements /\ Head(s) \in ToSet(s)
        /\ Len(s) \in Nat /\ Len(s) >= 1
        /\ t \in Seq(Elements) /\ Len(t) = Len(s) - 1
        /\ DOMAIN s = 1 .. Len(s) /\ DOMAIN t = 1 .. Len(s) - 1
        /\ \A i \in 1 .. Len(s) - 1 : t[i] = s[i + 1]
        /\ ToSet(s) = ToSet(t) \cup {Head(s)}
    BY TailSet
  <1> HIDE DEF t
  <1>2. ASSUME NEW i \in DOMAIN t, NEW j \in DOMAIN t, i < j PROVE t[i].req < t[j].req
    <2>1. i + 1 \in DOMAIN s /\ j + 1 \in DOMAIN s /\ i + 1 < j + 1
      BY <1>1, <1>2
    <2> QED  BY <1>1, <2>1 DEF Sorted
  <1>3. ASSUME NEW e \in ToSet(t) PROVE Head(s).req < e.req
    <2>1. PICK i \in DOMAIN t : t[i] = e
      BY DEF ToSet
    <2>2. 1 \in DOMAIN s /\ i + 1 \in DOMAIN s /\ 1 < i + 1
      BY <1>1
    <2> QED  BY <1>1, <2>1, <2>2 DEF Sorted
  <1> QED  BY <1>1, <1>2, <1>3 DEF t, Sorted

(* The first and the last element of a sorted list. *)
LEMMA SortedEnds ==
  ASSUME NEW s \in Seq(Elements), Sorted(s), s # <<>>
  PROVE  /\ Head(s) \in ToSet(s) /\ Last(s) \in ToSet(s)
         /\ \A e \in ToSet(s) : Head(s).req <= e.req /\ e.req <= Last(s).req
  <1>1. DOMAIN s = 1 .. Len(s) /\ Len(s) \in Nat /\ Len(s) >= 1
    BY TailSet
  <1>2. Last(s) = s[Len(s)] /\ Head(s) = s[1]
    BY TailSet DEF Last
  <1>3. Last(s) \in ToSet(s) /\ Head(s) \in ToSet(s)
    BY <1>1, <1>2 DEF ToSet
  <1>4. ASSUME NEW e \in ToSet(s) PROVE Head(s).req <= e.req /\ e.req <= Last(s).req
    <2>1. PICK i \in DOMAIN s : s[i] = e
      BY DEF ToSet
    <2>2. \A j \in DOMAIN s : s[j].req \in Nat
      BY ReqType
    <2>3. s[1].req <= s[i].req
      <3>1. CASE i = 1
        BY <2>2, <3>1
      <3>2. CASE i # 1
        BY <1>1, <2>2, <3>2 DEF Sorted
      <3> QED  BY <3>1, <3>2
    <2>4. s[i].req <= s[Len(s)].req
      <3>1. CASE i = Len(s)
        BY <2>2, <3>1
      <3>2. CASE i # Len(s)
        BY <1>1, <2>2, <3>2 DEF Sorted
      <3> QED  BY <3>1, <3>2
    <2> QED  BY <1>2, <2>1, <2>3, <2>4
  <1> QED  BY <1>3, <1>4

(* Next_ of an element that is not the last: the next request. *)
LEMMA NextElement ==
  ASSUME NEW s \in Seq(Elements), Sorted(s), NEW e \in ToSet(s),
         NEW f \in ToSet(s), e.req < f.req
  PROVE  /\ Next_(s, e) \in ToSet(s) /\ e.req < Next_(s, e).req
         /\ \A g \in ToSet(s) : e.req < g.req => Next_(s, e).req <= g.req
  <1>1. PICK k \in 1 .. Len(s) : k = Place(s, e) /\ s[k] = e
    BY PlaceIs
  <1>2. Next_(s, e) = IF k = Len(s) THEN Nil ELSE s[k + 1]
    BY <1>1 DEF Next_
  <1>3. DOMAIN s = 1 .. Len(s) /\ Len(s) \in Nat
    BY LenProperties
  <1>4. \A i \in DOMAIN s : s[i].req \in Nat
    BY ReqType
  <1>5. ASSUME NEW g \in ToSet(s), e.req < g.req
        PROVE  k + 1 \in DOMAIN s /\ s[k + 1].req <= g.req
    <2>1. PICK i \in DOMAIN s : s[i] = g
      BY DEF ToSet
    <2>2. k < i
      <3>1. CASE i < k
        <4>1. s[i].req < s[k].req
          BY <1>1, <1>3, <3>1 DEF Sorted
        <4> QED  BY <1>1, <1>3, <1>4, <1>5, <2>1, <4>1
      <3>2. CASE i = k
        BY <1>1, <1>3, <1>4, <1>5, <2>1, <3>2
      <3> QED  BY <1>1, <1>3, <3>1, <3>2
    <2>3. k + 1 \in DOMAIN s
      BY <1>1, <1>3, <2>2
    <2>4. CASE i = k + 1
      BY <1>4, <2>1, <2>3, <2>4
    <2>5. CASE i # k + 1
      <3>1. k + 1 < i
        BY <1>1, <1>3, <2>2, <2>5
      <3>2. s[k + 1].req < s[i].req
        BY <2>3, <3>1 DEF Sorted
      <3> QED  BY <1>4, <2>1, <2>3, <3>2
    <2> QED  BY <2>4, <2>5
  <1>6. k + 1 \in DOMAIN s /\ k # Len(s) /\ k \in DOMAIN s /\ k < k + 1
    <2>1. k + 1 \in DOMAIN s
      BY <1>5
    <2>2. k + 1 \in 1 .. Len(s) /\ k \in 1 .. Len(s)
      BY <1>1, <1>3, <2>1
    <2>3. PICK n \in Nat : n = Len(s)
      BY <1>3
    <2>4. k + 1 <= n
      BY <2>2, <2>3
    <2>5. k # Len(s)
      BY <2>3, <2>4
    <2>6. k \in DOMAIN s /\ k < k + 1
      BY <1>3, <2>2
    <2> QED  BY <2>1, <2>5, <2>6
  <1>7. Next_(s, e) = s[k + 1]
    BY <1>2, <1>6
  <1>8. s[k].req < s[k + 1].req
    BY <1>6 DEF Sorted
  <1>9. s[k + 1] \in ToSet(s)
    BY <1>6 DEF ToSet
  <1> QED  BY <1>1, <1>5, <1>7, <1>8, <1>9

(* A request at the end of the pipe. *)
LEMMA PipeAppend ==
  ASSUME NEW p \in Seq(Requests), InOrder(p), NEW r \in Requests,
         \A q \in ToSet(p) : Precedes(q, r)
  PROVE  /\ Append(p, r) \in Seq(Requests) /\ InOrder(Append(p, r))
         /\ ToSet(Append(p, r)) = ToSet(p) \cup {r}
         /\ Append(p, r) # <<>>
         /\ Append(p, r)[Len(Append(p, r))] = r
  <1> DEFINE a == Append(p, r)
  <1>1. /\ a \in Seq(Requests) /\ Len(a) = Len(p) + 1 /\ Len(p) \in Nat
        /\ DOMAIN p = 1 .. Len(p) /\ DOMAIN a = 1 .. Len(p) + 1
        /\ \A i \in 1 .. Len(p) : a[i] = p[i]
        /\ a[Len(p) + 1] = r
        /\ ToSet(a) = ToSet(p) \cup {r}
    BY AppendSet, LenProperties
  <1> HIDE DEF a
  <1>2. ASSUME NEW i \in DOMAIN a, NEW j \in DOMAIN a, i < j PROVE Precedes(a[i], a[j])
    <2>1. i \in DOMAIN p /\ a[i] = p[i] /\ p[i] \in ToSet(p)
      BY <1>1, <1>2 DEF ToSet
    <2>2. CASE j = Len(p) + 1
      BY <1>1, <2>1, <2>2
    <2>3. CASE j # Len(p) + 1
      <3>1. j \in DOMAIN p /\ a[j] = p[j]
        BY <1>1, <2>3
      <3> QED  BY <1>2, <2>1, <3>1 DEF InOrder
    <2> QED  BY <2>2, <2>3
  <1>3. a # <<>>
    BY <1>1
  <1> QED  BY <1>1, <1>2, <1>3 DEF a, InOrder

(* The request that is answered next. *)
LEMMA PipeTail ==
  ASSUME NEW p \in Seq(Requests), InOrder(p), p # <<>>
  PROVE  /\ Tail(p) \in Seq(Requests) /\ InOrder(Tail(p))
         /\ Head(p) \in Requests /\ Head(p) \in ToSet(p)
         /\ ToSet(p) = ToSet(Tail(p)) \cup {Head(p)}
         /\ \A q \in ToSet(Tail(p)) : Precedes(Head(p), q)
         /\ Tail(p) # <<>> => Tail(p)[Len(Tail(p))] = p[Len(p)]
  <1> DEFINE t == Tail(p)
  <1>1. /\ Head(p) = p[1] /\ Head(p) \in Requests /\ Head(p) \in ToSet(p)
        /\ Len(p) \in Nat /\ Len(p) >= 1
        /\ t \in Seq(Requests) /\ Len(t) = Len(p) - 1
        /\ DOMAIN p = 1 .. Len(p) /\ DOMAIN t = 1 .. Len(p) - 1
        /\ \A i \in 1 .. Len(p) - 1 : t[i] = p[i + 1]
        /\ ToSet(p) = ToSet(t) \cup {Head(p)}
    BY TailSet
  <1> HIDE DEF t
  <1>2. ASSUME NEW i \in DOMAIN t, NEW j \in DOMAIN t, i < j PROVE Precedes(t[i], t[j])
    <2>1. i + 1 \in DOMAIN p /\ j + 1 \in DOMAIN p /\ i + 1 < j + 1
      BY <1>1, <1>2
    <2>2. Precedes(p[i + 1], p[j + 1])
      BY <2>1 DEF InOrder
    <2> QED  BY <1>1, <2>2
  <1>3. ASSUME NEW q \in ToSet(t) PROVE Precedes(Head(p), q)
    <2>1. PICK i \in DOMAIN t : t[i] = q
      BY DEF ToSet
    <2>2. 1 \in DOMAIN p /\ i + 1 \in DOMAIN p /\ 1 < i + 1
      BY <1>1
    <2>3. Precedes(p[1], p[i + 1])
      BY <2>2 DEF InOrder
    <2> QED  BY <1>1, <2>1, <2>3
  <1>4. ASSUME t # <<>> PROVE t[Len(t)] = p[Len(p)]
    <2>1. Len(t) # 0
      BY <1>1, <1>4
    <2>2. Len(t) \in 1 .. Len(p) - 1 /\ Len(t) + 1 = Len(p)
      BY <1>1, <2>1
    <2> QED  BY <1>1, <2>2
  <1> QED  BY <1>1, <1>2, <1>3, <1>4 DEF t, InOrder

(* The two parts of the pipe: what Append and Tail do to them. *)
LEMMA ConcatAppend ==
  ASSUME NEW s \in Seq(Requests), NEW q \in Seq(Requests), NEW r \in Requests
  PROVE  s \o Append(q, r) = Append(s \o q, r)
  OBVIOUS

(* A response takes the head of the pipe. *)
LEMMA ConcatTail ==
  ASSUME NEW s \in Seq(Requests), NEW q \in Seq(Requests), s # <<>>
  PROVE  /\ s \o q # <<>> /\ Head(s \o q) = Head(s)
         /\ Tail(s) \o q = Tail(s \o q)
  OBVIOUS

(* SendRequest leaves the pipe as it is. *)
LEMMA ConcatMove ==
  ASSUME NEW s \in Seq(Requests), NEW q \in Seq(Requests), q # <<>>
  PROVE  Append(s, Head(q)) \o Tail(q) = s \o q
  OBVIOUS

-----------------------------------------------------------------------------
(***************************************************************************)
(* The client.                                                             *)
(***************************************************************************)
(* The pipe is made of requests. *)
LEMMA PipeType ==
  ASSUME cli \in socketClient
  PROVE  /\ Pipe \in Seq(Requests) /\ Waiting \subseteq Requests
         /\ cli.reqSent \in Seq(Requests) /\ cli.reqQueue \in Seq(Requests)
         /\ Len(cli.reqSent) \in Nat /\ Len(cli.reqQueue) \in Nat
         /\ cli.timer \in BOOLEAN /\ cli.written \in Nat
  <1>1. /\ cli.reqSent \in Seq(Requests) /\ cli.reqQueue \in Seq(Requests)
        /\ cli.timer \in BOOLEAN /\ cli.written \in Nat
    BY DEF socketClient
  <1>2. Pipe \in Seq(Requests)
    BY <1>1, ConcatProperties DEF Pipe
  <1>3. Waiting \subseteq Requests
    BY <1>2, ToSetType DEF Waiting
  <1> QED  BY <1>1, <1>2, <1>3, LenProperties

(* queueRequest puts the request at the end of the pipe. *)
LEMMA QueuedPipe ==
  ASSUME cli \in socketClient, Len(cli.reqQueue) <= reqQueueSize, cli.written <= Len(cli.reqSent),
         HasRoom(cli.reqQueue), NEW r \in Requests, cli' = Queued(r)
  PROVE  /\ cli' \in socketClient /\ Pipe' = Append(Pipe, r)
         /\ Len(cli'.reqQueue) = Len(cli.reqQueue) + 1 /\ Len(cli'.reqQueue) <= reqQueueSize
         /\ cli'.written <= Len(cli'.reqSent)
         /\ cli'.timer = (r.type \notin {"Flush", "FlushSync"})
  <1>1. /\ cli.reqSent \in Seq(Requests) /\ cli.reqQueue \in Seq(Requests)
        /\ Len(cli.reqQueue) \in Nat
    BY PipeType
  <1>2. /\ Append(cli.reqQueue, r) \in Seq(Requests)
        /\ Len(Append(cli.reqQueue, r)) = Len(cli.reqQueue) + 1
    BY <1>1, AppendSet
  <1>3. /\ cli' \in socketClient
        /\ cli'.reqQueue = Append(cli.reqQueue, r) /\ cli'.reqSent = cli.reqSent
        /\ cli'.timer = (r.type \notin {"Flush", "FlushSync"}) /\ cli'.written = cli.written
    BY <1>2 DEF Queued, socketClient
  <1>4. Pipe' = Append(Pipe, r)
    <2>1. cli.reqSent \o Append(cli.reqQueue, r) = Append(cli.reqSent \o cli.reqQueue, r)
      BY <1>1, ConcatAppend
    <2> QED  BY <1>3, <2>1 DEF Pipe
  <1>5. Len(cli.reqQueue) + 1 <= reqQueueSize
    <2>1. reqQueueSize \in Nat
      BY MempoolAssumption
    <2> QED  BY <1>1, <2>1 DEF HasRoom
  <1> QED  BY <1>2, <1>3, <1>4, <1>5

-----------------------------------------------------------------------------
(***************************************************************************)
(* The operations of CListMempool.                                         *)
(***************************************************************************)
(* The types of the fields. *)
LEMMA MemType ==
  ASSUME NEW m \in CListMempool
  PROVE  /\ m.txs \in Seq(Elements) /\ ToSet(m.txs) \subseteq Elements
         /\ m.cache \in Seq(Txs) /\ ToSet(m.cache) \subseteq Txs
         /\ m.txsMap \in [Txs -> Elements \cup {Nil}] /\ m.txsBytes \in Int
         /\ m.cursor \in Elements \cup {Nil} /\ m.end \in Elements \cup {Nil}
         /\ m.notified \in BOOLEAN /\ m.token \in BOOLEAN /\ m.panic \in BOOLEAN
         /\ Len(m.txs) \in Nat /\ Len(m.cache) \in Nat
  <1>1. /\ m.txs \in Seq(Elements) /\ m.cache \in Seq(Txs)
        /\ m.txsMap \in [Txs -> Elements \cup {Nil}] /\ m.txsBytes \in Int
        /\ m.cursor \in Elements \cup {Nil} /\ m.end \in Elements \cup {Nil}
        /\ m.notified \in BOOLEAN /\ m.token \in BOOLEAN /\ m.panic \in BOOLEAN
    BY DEF CListMempool
  <1> QED  BY <1>1, ToSetType, LenProperties

(* removeTx of an element of the list, with the cache it leaves. *)
Taken(m, e, c) ==
  [m EXCEPT !.txs = Without(@, e), !.txsMap[e.tx] = Nil, !.txsBytes = @ - 1, !.cache = c,
            !.panic = @ \/ ~Contains(m.txs, e)]

(* What removeTx leaves of a sorted list. *)
LEMMA RemoveTx ==
  ASSUME NEW m \in CListMempool, Sorted(m.txs), NEW e \in ToSet(m.txs), NEW c \in Seq(Txs)
  PROVE  /\ Taken(m, e, c) \in CListMempool /\ Sorted(Taken(m, e, c).txs)
         /\ ToSet(Taken(m, e, c).txs) = ToSet(m.txs) \ {e}
         /\ Len(Taken(m, e, c).txs) = Len(m.txs) - 1
         /\ Taken(m, e, c).txsBytes = m.txsBytes - 1
         /\ Taken(m, e, c).txsMap = [m.txsMap EXCEPT ![e.tx] = Nil]
         /\ Taken(m, e, c).cache = c
         /\ Taken(m, e, c).cursor = m.cursor /\ Taken(m, e, c).end = m.end
         /\ Taken(m, e, c).notified = m.notified /\ Taken(m, e, c).token = m.token
         /\ Taken(m, e, c).panic = m.panic
  <1> DEFINE n == Taken(m, e, c)
  <1>1. /\ m.txs \in Seq(Elements) /\ e \in Elements
        /\ m.txsMap \in [Txs -> Elements \cup {Nil}] /\ m.txsBytes \in Int
        /\ m.panic \in BOOLEAN
    BY MemType
  <1> DEFINE w == Without(m.txs, e)
  <1>2. /\ w \in Seq(Elements) /\ Sorted(w)
        /\ Len(w) = Len(m.txs) - 1 /\ ToSet(w) = ToSet(m.txs) \ {e}
    BY <1>1, SortedRemove
  <1>3. Contains(m.txs, e)
    BY <1>1, ContainsIs
  <1>4. n = [m EXCEPT !.txs = w, !.txsMap[e.tx] = Nil, !.txsBytes = @ - 1, !.cache = c,
                      !.panic = @ \/ ~Contains(m.txs, e)]
    BY DEF Taken
  <1> HIDE DEF n, w
  <1>5. /\ n.txs = w /\ n.txsMap = [m.txsMap EXCEPT ![e.tx] = Nil]
        /\ n.txsBytes = m.txsBytes - 1 /\ n.cache = c
        /\ n.cursor = m.cursor /\ n.end = m.end
        /\ n.notified = m.notified /\ n.token = m.token
        /\ n.panic = (m.panic \/ ~Contains(m.txs, e))
    BY <1>4 DEF CListMempool
  <1>6. n.panic = m.panic
    BY <1>1, <1>3, <1>5
  <1>7. n \in CListMempool
    <2>1. [m.txsMap EXCEPT ![e.tx] = Nil] \in [Txs -> Elements \cup {Nil}]
      BY <1>1
    <2>2. n = [m EXCEPT !.txs = w, !.txsMap = [m.txsMap EXCEPT ![e.tx] = Nil],
                        !.txsBytes = m.txsBytes - 1, !.cache = c, !.panic = m.panic]
      BY <1>4, <1>5, <1>6 DEF CListMempool
    <2>3. m.txsBytes - 1 \in Int
      BY <1>1
    <2> QED  BY <1>1, <1>2, <2>1, <2>2, <2>3 DEF CListMempool
  <1> QED  BY <1>2, <1>5, <1>6, <1>7 DEF n

(* addTx of an element with a later request than those of the list. *)
LEMMA AddTx ==
  ASSUME NEW m \in CListMempool, Sorted(m.txs), NEW e \in Elements,
         \A f \in ToSet(m.txs) : f.req < e.req,
         NEW n, n = addTx(m, e)
  PROVE  /\ n \in CListMempool /\ Sorted(n.txs)
         /\ ToSet(n.txs) = ToSet(m.txs) \cup {e}
         /\ Len(n.txs) = Len(m.txs) + 1 /\ n.txsBytes = m.txsBytes + 1
         /\ n.txsMap = [m.txsMap EXCEPT ![e.tx] = e]
         /\ n.cache = m.cache /\ n.cursor = m.cursor /\ n.end = m.end
         /\ n.notified = m.notified /\ n.token = m.token /\ n.panic = m.panic
  <1>1. /\ m.txs \in Seq(Elements)
        /\ m.txsMap \in [Txs -> Elements \cup {Nil}] /\ m.txsBytes \in Int
    BY MemType
  <1> DEFINE a == Append(m.txs, e)
  <1>2. /\ a \in Seq(Elements) /\ Sorted(a)
        /\ Len(a) = Len(m.txs) + 1 /\ ToSet(a) = ToSet(m.txs) \cup {e}
    BY <1>1, SortedAppend
  <1>3. n = [m EXCEPT !.txs = a, !.txsMap[e.tx] = e, !.txsBytes = @ + 1]
    BY DEF addTx
  <1> HIDE DEF a
  <1>4. /\ n.txs = a /\ n.txsMap = [m.txsMap EXCEPT ![e.tx] = e]
        /\ n.txsBytes = m.txsBytes + 1 /\ n.cache = m.cache
        /\ n.cursor = m.cursor /\ n.end = m.end
        /\ n.notified = m.notified /\ n.token = m.token /\ n.panic = m.panic
    BY <1>3 DEF CListMempool
  <1>5. n \in CListMempool
    <2>1. [m.txsMap EXCEPT ![e.tx] = e] \in [Txs -> Elements \cup {Nil}]
      BY <1>1
    <2>2. n = [m EXCEPT !.txs = a, !.txsMap = [m.txsMap EXCEPT ![e.tx] = e],
                        !.txsBytes = m.txsBytes + 1]
      BY <1>3 DEF CListMempool
    <2>3. m.txsBytes + 1 \in Int
      BY <1>1
    <2> QED  BY <1>2, <2>1, <2>2, <2>3 DEF CListMempool
  <1> QED  BY <1>2, <1>4, <1>5

(* notifyTxsAvailable of a mempool with transactions. *)
LEMMA Notify ==
  ASSUME NEW m \in CListMempool, m.txs # <<>>,
         NEW n, n = notifyTxsAvailable(m)
  PROVE  /\ n \in CListMempool
         /\ n.txs = m.txs /\ n.txsMap = m.txsMap /\ n.txsBytes = m.txsBytes
         /\ n.cache = m.cache /\ n.cursor = m.cursor /\ n.end = m.end
         /\ n.notified /\ n.token = (m.token \/ ~m.notified) /\ n.panic = m.panic
  BY DEF notifyTxsAvailable, CListMempool

(* Changes of the cache alone. *)
LEMMA CacheSet ==
  ASSUME NEW m \in CListMempool, NEW c \in Seq(Txs), NEW n, n = [m EXCEPT !.cache = c]
  PROVE  /\ n \in CListMempool
         /\ n.txs = m.txs /\ n.txsMap = m.txsMap /\ n.txsBytes = m.txsBytes
         /\ n.cache = c /\ n.cursor = m.cursor /\ n.end = m.end
         /\ n.notified = m.notified /\ n.token = m.token /\ n.panic = m.panic
  BY DEF CListMempool

(* Changes of the cursor alone. *)
LEMMA CursorSet ==
  ASSUME NEW m \in CListMempool, NEW k \in Elements \cup {Nil}, NEW n, n = [m EXCEPT !.cursor = k]
  PROVE  /\ n \in CListMempool
         /\ n.txs = m.txs /\ n.txsMap = m.txsMap /\ n.txsBytes = m.txsBytes
         /\ n.cache = m.cache /\ n.cursor = k /\ n.end = m.end
         /\ n.notified = m.notified /\ n.token = m.token /\ n.panic = m.panic
  BY DEF CListMempool

-----------------------------------------------------------------------------
(***************************************************************************)
(* Steps that move no check and no transaction.                            *)
(***************************************************************************)
(* The types of the sets that the invariant speaks of. *)
LEMMA InvTypes ==
  ASSUME MempoolInv
  PROVE  /\ mem \in CListMempool /\ cli \in socketClient
         /\ Pooled \subseteq Elements /\ Known \subseteq Txs
         /\ Left \in Seq(Elements) /\ Unsent \subseteq Elements /\ Len(Left) \in Nat
         /\ Pipe \in Seq(Requests) /\ Waiting \subseteq Requests
         /\ \A e \in Elements : e.tx \in Txs /\ e.req \in Nat /\ e # Nil
         /\ \A r \in Waiting : IsCheck(r) => r.tx \in Txs /\ r.req \in Nat
         /\ checks \in Nat /\ commit.at \in {"idle", "Update", "UpdateTx", "recheckTxs"}
         /\ commit = Idle <=> commit.at = "idle"
  <1>1. /\ mem \in CListMempool /\ cli \in socketClient /\ checks \in Nat
    BY DEF MempoolInv, TypeOK
  <1>2. /\ commit \in {Idle} \cup [at : {"Update"}] \cup [at : {"UpdateTx"}, left : Seq(Deliveries)]
                        \cup [at : {"recheckTxs"}, left : Seq(Elements)]
    BY DEF MempoolInv, TypeOK
  <1>3. commit.at \in {"idle", "Update", "UpdateTx", "recheckTxs"}
    BY <1>2 DEF Idle
  <1>4. commit = Idle <=> commit.at = "idle"
    BY <1>2 DEF Idle
  <1>5. commit.at = "recheckTxs" => commit.left \in Seq(Elements)
    BY <1>2 DEF Idle
  <1>6. Left \in Seq(Elements)
    BY <1>5 DEF Left
  <1>7. Unsent \subseteq Elements /\ Len(Left) \in Nat
    BY <1>6, ToSetType, LenProperties DEF Unsent
  <1>8. Pooled \subseteq Elements /\ Known \subseteq Txs
    BY <1>1, MemType DEF Pooled, Known
  <1>9. \A e \in Elements : e.tx \in Txs /\ e.req \in Nat /\ e # Nil
    BY MempoolAssumption DEF Elements
  <1>10. Pipe \in Seq(Requests) /\ Waiting \subseteq Requests
    BY <1>1, PipeType
  <1>11. \A r \in Requests : IsCheck(r) => r.tx \in Txs /\ r.req \in Nat
    BY DEF Requests, IsCheck
  <1> QED  BY <1>1, <1>3, <1>4, <1>6, <1>7, <1>8, <1>9, <1>10, <1>11

(* Only flushes come to the pipe or leave it. *)
LEMMA Frame ==
  ASSUME MempoolInv,
         mem'.txs = mem.txs, mem'.txsMap = mem.txsMap, mem'.cache = mem.cache,
         mem'.cursor = mem.cursor, mem'.end = mem.end,
         checks' = checks, committed' = committed, evicted' = evicted,
         Left' = Left, InOrder(Pipe)',
         \A r \in Waiting : IsCheck(r) => r \in Waiting',
         \A r \in Waiting' : IsCheck(r) => r \in Waiting,
         \A c \in Callers : pc'[c] = pc[c] \/ pc'[c].at = "idle"
  PROVE  Indexed' /\ Ordered' /\ Rechecking' /\ Single'
  <1>1. Pooled' = Pooled /\ Known' = Known /\ Unsent' = Unsent
    BY DEF Pooled, Known, Unsent
  <1>2. Indexed'
    BY <1>1 DEF MempoolInv, Indexed
  <1>3. Ordered'
    BY <1>1 DEF MempoolInv, Ordered, IsCheck
  <1>4. Rechecking'
    <2>1. \A r \in Waiting' : r.type = "Recheck" => r \in Waiting
      BY DEF IsCheck
    <2>2. \A r \in Waiting : r.type = "Recheck" => r \in Waiting'
      BY DEF IsCheck
    <2> QED  BY <1>1, <2>1, <2>2 DEF MempoolInv, Rechecking
  <1>5. Single'
    <2>1. \A r \in Waiting', t \in Txs : Checked(r, t) => r \in Waiting
      BY DEF IsCheck, Checked
    <2>2. \A c \in Callers, t \in Txs : Asks(c, t)' => Asks(c, t)
      BY DEF Asks
    <2> QED  BY <1>1, <2>1, <2>2 DEF MempoolInv, Single
  <1> QED  BY <1>2, <1>3, <1>4, <1>5

(* A flush goes behind every request. *)
LEMMA FlushQueued ==
  ASSUME MempoolInv, HasRoom(cli.reqQueue), NEW r \in [type : {"Flush", "FlushSync"}],
         Pipe' = Append(Pipe, r)
  PROVE  /\ InOrder(Pipe)' /\ Waiting' = Waiting \cup {r} /\ r \in Requests /\ ~IsCheck(r)
         /\ Pipe' # <<>> /\ Pipe'[Len(Pipe')] = r
  <1>1. r \in Requests /\ ~IsCheck(r)
    BY DEF Requests, IsCheck
  <1>2. \A q \in Waiting : Precedes(q, r)
    BY <1>1 DEF Precedes
  <1>3. Pipe \in Seq(Requests) /\ InOrder(Pipe)
    BY InvTypes DEF MempoolInv, Ordered
  <1>4. /\ InOrder(Append(Pipe, r)) /\ ToSet(Append(Pipe, r)) = ToSet(Pipe) \cup {r}
        /\ Append(Pipe, r) # <<>> /\ Append(Pipe, r)[Len(Append(Pipe, r))] = r
    BY <1>1, <1>2, <1>3, PipeAppend DEF Waiting
  <1> QED  BY <1>1, <1>4 DEF Waiting

(* sendRequestsRoutine leaves the order of the answers as it is. *)
LEMMA StepSendRequest == MempoolInv /\ SendRequest => MempoolInv'
  <1> SUFFICES ASSUME MempoolInv, SendRequest PROVE MempoolInv'
    OBVIOUS
  <1> DEFINE r == Head(cli.reqQueue)
             w == IF r.type \in {"Flush", "FlushSync"} THEN Len(Append(cli.reqSent, r))
                  ELSE cli.written
  <1>0. /\ cli.reqQueue # <<>>
        /\ cli' = [cli EXCEPT !.reqQueue = Tail(@), !.reqSent = Append(cli.reqSent, r),
                              !.written = w]
        /\ UNCHANGED <<config, mem, armed, checks, pc, commit, height, heard, committed, evicted>>
    BY DEF SendRequest
  <1>1. /\ cli \in socketClient
        /\ cli.reqSent \in Seq(Requests) /\ cli.reqQueue \in Seq(Requests)
        /\ Len(cli.reqSent) \in Nat /\ Len(cli.reqQueue) \in Nat /\ cli.written \in Nat
    BY InvTypes, PipeType
  <1>2. /\ r \in Requests /\ Tail(cli.reqQueue) \in Seq(Requests)
        /\ Len(Tail(cli.reqQueue)) = Len(cli.reqQueue) - 1
    BY <1>0, <1>1, TailSet
  <1>3. /\ Append(cli.reqSent, r) \in Seq(Requests)
        /\ Len(Append(cli.reqSent, r)) = Len(cli.reqSent) + 1
    BY <1>1, <1>2, AppendSet
  <1>4. w \in Nat /\ w <= Len(cli.reqSent) + 1
    BY <1>1, <1>3 DEF MempoolInv, Bounded
  <1>5. Append(cli.reqSent, r) \o Tail(cli.reqQueue) = cli.reqSent \o cli.reqQueue
    BY <1>0, <1>1, ConcatMove
  <1> HIDE DEF r, w
  <1>6. /\ cli' \in socketClient
        /\ cli'.reqQueue = Tail(cli.reqQueue) /\ cli'.reqSent = Append(cli.reqSent, r)
        /\ cli'.written = w /\ cli'.timer = cli.timer
    BY <1>0, <1>1, <1>2, <1>3, <1>4 DEF socketClient
  <1>7. Pipe' = Pipe /\ Waiting' = Waiting /\ Left' = Left
    BY <1>0, <1>5, <1>6 DEF Pipe, Waiting, Left
  <1>8. InOrder(Pipe)'
    BY <1>7 DEF MempoolInv, Ordered
  <1>9. Indexed' /\ Ordered' /\ Rechecking' /\ Single'
    BY <1>0, <1>7, <1>8, Frame
  <1>10. TypeOK' /\ NoPanic' /\ Announcing'
    BY <1>0, <1>6 DEF MempoolInv, TypeOK, NoPanic, Announcing
  <1>11. Bounded'
    <2>1. reqQueueSize \in Nat
      BY MempoolAssumption
    <2> QED  BY <1>0, <1>1, <1>2, <1>3, <1>4, <1>6, <2>1 DEF MempoolInv, Bounded
  <1>12. Locked'
    <2>1. Slots' <= Slots /\ Slots \in Nat /\ Slots' \in Nat
      BY <1>1, <1>2, <1>6, LenProperties DEF Slots
    <2>2. Size \in Nat /\ Len(Left) \in Nat
      BY InvTypes, MempoolAssumption
    <2>3. commit.at = "recheckTxs" => Slots' + 2 * Len(Left) <= 2 * Size
      BY <2>1, <2>2 DEF MempoolInv, Locked
    <2> QED  BY <1>0, <1>6, <1>7, <2>3 DEF MempoolInv, Locked
  <1> QED  BY <1>9, <1>10, <1>11, <1>12 DEF MempoolInv

(* The timer of the client. *)
LEMMA StepFlushTimer == MempoolInv /\ FlushTimer => MempoolInv'
  <1> SUFFICES ASSUME MempoolInv, FlushTimer PROVE MempoolInv'
    OBVIOUS
  <1> DEFINE f == [type |-> "Flush"]
             q == IF HasRoom(cli.reqQueue) THEN Append(cli.reqQueue, f) ELSE cli.reqQueue
  <1>0. /\ cli.timer
        /\ cli' = [cli EXCEPT !.timer = FALSE, !.reqQueue = q]
        /\ UNCHANGED <<config, mem, armed, checks, pc, commit, height, heard, committed, evicted>>
    BY DEF FlushTimer
  <1>1. /\ cli \in socketClient
        /\ cli.reqSent \in Seq(Requests) /\ cli.reqQueue \in Seq(Requests)
        /\ Len(cli.reqSent) \in Nat /\ Len(cli.reqQueue) \in Nat
        /\ reqQueueSize \in Nat /\ Size \in Nat /\ Len(Left) \in Nat
    BY InvTypes, PipeType, MempoolAssumption
  <1>2. f \in [type : {"Flush", "FlushSync"}] /\ f \in Requests
    BY DEF Requests
  <1>3. /\ q \in Seq(Requests) /\ Len(q) <= Len(cli.reqQueue) + 1 /\ Len(q) <= reqQueueSize
        /\ Len(q) \in Nat
    <2>1. Len(cli.reqQueue) <= reqQueueSize
      BY DEF MempoolInv, Bounded
    <2>2. CASE HasRoom(cli.reqQueue)
      <3>1. q \in Seq(Requests) /\ Len(q) = Len(cli.reqQueue) + 1
        BY <1>1, <1>2, <2>2, AppendSet
      <3> QED  BY <1>1, <2>2, <3>1 DEF HasRoom
    <2>3. CASE ~HasRoom(cli.reqQueue)
      BY <1>1, <2>1, <2>3
    <2> QED  BY <2>2, <2>3
  <1>4. /\ HasRoom(cli.reqQueue) => cli.reqSent \o q = Append(cli.reqSent \o cli.reqQueue, f)
        /\ ~HasRoom(cli.reqQueue) => q = cli.reqQueue
    BY <1>1, <1>2, ConcatAppend
  <1> HIDE DEF f, q
  <1>5. /\ cli' \in socketClient
        /\ cli'.reqQueue = q /\ cli'.reqSent = cli.reqSent
        /\ cli'.written = cli.written /\ ~cli'.timer
    BY <1>0, <1>1, <1>3 DEF socketClient
  <1>6. InOrder(Pipe)' /\ (Waiting' = Waiting \/ Waiting' = Waiting \cup {f}) /\ ~IsCheck(f)
    <2>1. CASE HasRoom(cli.reqQueue)
      <3>1. Pipe' = Append(Pipe, f)
        BY <1>4, <1>5, <2>1 DEF Pipe
      <3> QED  BY <1>2, <2>1, <3>1, FlushQueued
    <2>2. CASE ~HasRoom(cli.reqQueue)
      <3>1. Pipe' = Pipe /\ Waiting' = Waiting
        BY <1>4, <1>5, <2>2 DEF Pipe, Waiting
      <3>2. ~IsCheck(f)
        BY DEF IsCheck, f
      <3> QED  BY <3>1, <3>2 DEF MempoolInv, Ordered
    <2> QED  BY <2>1, <2>2
  <1>7. Left' = Left
    BY <1>0 DEF Left
  <1>8. Indexed' /\ Ordered' /\ Rechecking' /\ Single'
    BY <1>0, <1>6, <1>7, Frame
  <1>9. TypeOK' /\ NoPanic' /\ Announcing'
    BY <1>0, <1>5 DEF MempoolInv, TypeOK, NoPanic, Announcing
  <1>10. Bounded'
    BY <1>0, <1>3, <1>5 DEF MempoolInv, Bounded
  <1>11. Locked'
    <2>1. commit.at \notin {"Update", "UpdateTx"}
      BY <1>0 DEF MempoolInv, Locked
    <2>2. \A r \in Waiting' : r \in Waiting \/ r.type = "Flush"
      BY <1>6 DEF f
    <2>3. Slots' <= Slots /\ Slots \in Nat /\ Slots' \in Nat
      BY <1>0, <1>1, <1>3, <1>5 DEF Slots
    <2>4. commit.at = "recheckTxs" => Slots' + 2 * Len(Left) <= 2 * Size
      BY <1>1, <2>3 DEF MempoolInv, Locked
    <2> QED  BY <1>0, <1>7, <2>1, <2>2, <2>4 DEF MempoolInv, Locked
  <1> QED  BY <1>8, <1>9, <1>10, <1>11 DEF MempoolInv

(* Commit takes the write lock: no caller is left. *)
LEMMA StepFlushAppConn == MempoolInv /\ FlushAppConn => MempoolInv'
  <1> SUFFICES ASSUME MempoolInv, FlushAppConn PROVE MempoolInv'
    OBVIOUS
  <1> DEFINE f == [type |-> "FlushSync"]
  <1>0. /\ commit = Idle /\ (\A c \in Callers : pc[c] = Idle)
        /\ HasRoom(cli.reqQueue) /\ cli' = Queued(f) /\ commit' = [at |-> "Update"]
        /\ UNCHANGED <<config, mem, armed, checks, pc, height, heard, committed, evicted>>
    BY DEF FlushAppConn
  <1>1. f \in [type : {"Flush", "FlushSync"}] /\ f \in Requests /\ f.type = "FlushSync"
    BY DEF Requests
  <1> HIDE DEF f
  <1>2. /\ cli' \in socketClient /\ Pipe' = Append(Pipe, f)
        /\ Len(cli'.reqQueue) <= reqQueueSize /\ cli'.written <= Len(cli'.reqSent)
        /\ ~cli'.timer
    BY <1>0, <1>1, InvTypes, QueuedPipe DEF MempoolInv, Bounded
  <1>3. /\ InOrder(Pipe)' /\ Waiting' = Waiting \cup {f} /\ ~IsCheck(f)
        /\ Pipe'[Len(Pipe')] = f
    BY <1>0, <1>1, <1>2, FlushQueued
  <1>4. Left' = Left /\ commit'.at = "Update"
    BY <1>0 DEF Left, Idle
  <1>5. Indexed' /\ Ordered' /\ Rechecking' /\ Single'
    BY <1>0, <1>3, <1>4, Frame
  <1>6. TypeOK' /\ NoPanic' /\ Announcing'
    BY <1>0, <1>2 DEF MempoolInv, TypeOK, NoPanic, Announcing, Idle
  <1>7. Bounded'
    BY <1>0, <1>2 DEF MempoolInv, Bounded
  <1>8. Locked'
    BY <1>0, <1>1, <1>2, <1>3, <1>4 DEF Locked
  <1> QED  BY <1>5, <1>6, <1>7, <1>8 DEF MempoolInv

(* The end of recheckTxs. *)
LEMMA StepFlushAsync == MempoolInv /\ FlushAsync => MempoolInv'
  <1> SUFFICES ASSUME MempoolInv, FlushAsync PROVE MempoolInv'
    OBVIOUS
  <1> DEFINE f == [type |-> "Flush"]
  <1>0. /\ commit.at = "recheckTxs" /\ commit.left = <<>> /\ commit' = Idle
        /\ cli' = IF HasRoom(cli.reqQueue) THEN Queued(f) ELSE cli
        /\ UNCHANGED <<config, mem, armed, checks, pc, height, heard, committed, evicted>>
    BY DEF FlushAsync
  <1>1. f \in [type : {"Flush", "FlushSync"}] /\ f \in Requests /\ f.type = "Flush"
    BY DEF Requests
  <1> HIDE DEF f
  <1>2. Left' = Left /\ Left = <<>> /\ commit'.at = "idle"
    BY <1>0 DEF Left, Idle
  <1>3. /\ cli' \in socketClient
        /\ Len(cli'.reqQueue) <= reqQueueSize /\ cli'.written <= Len(cli'.reqSent)
        /\ InOrder(Pipe)' /\ (Waiting' = Waiting \/ Waiting' = Waiting \cup {f}) /\ ~IsCheck(f)
    <2>1. CASE HasRoom(cli.reqQueue)
      <3>1. /\ cli' \in socketClient /\ Pipe' = Append(Pipe, f)
            /\ Len(cli'.reqQueue) <= reqQueueSize /\ cli'.written <= Len(cli'.reqSent)
        BY <1>0, <1>1, <2>1, InvTypes, QueuedPipe DEF MempoolInv, Bounded
      <3> QED  BY <1>1, <2>1, <3>1, FlushQueued
    <2>2. CASE ~HasRoom(cli.reqQueue)
      <3>1. cli' = cli
        BY <1>0, <2>2
      <3>2. Pipe' = Pipe /\ Waiting' = Waiting
        BY <3>1 DEF Pipe, Waiting
      <3>3. ~IsCheck(f)
        BY <1>1 DEF IsCheck
      <3> QED  BY <3>1, <3>2, <3>3, InvTypes DEF MempoolInv, Ordered, Bounded
    <2> QED  BY <2>1, <2>2
  <1>4. Indexed' /\ Ordered' /\ Rechecking' /\ Single'
    BY <1>0, <1>2, <1>3, Frame
  <1>5. TypeOK' /\ NoPanic' /\ Announcing'
    BY <1>0, <1>2, <1>3 DEF MempoolInv, TypeOK, NoPanic, Announcing
  <1>6. Bounded'
    BY <1>0, <1>3 DEF MempoolInv, Bounded
  <1>7. Locked'
    <2>1. \A r \in Waiting' : r.type # "FlushSync"
      BY <1>0, <1>1, <1>3 DEF MempoolInv, Locked
    <2> QED  BY <1>0, <1>2, <2>1 DEF Locked
  <1> QED  BY <1>4, <1>5, <1>6, <1>7 DEF MempoolInv

(* A callback is set. *)
LEMMA StepSetCallback ==
  ASSUME MempoolInv, NEW c \in Callers, SetCallback(c) PROVE MempoolInv'
  <1>0. /\ pc[c].at = "SetCallback" /\ armed' = armed \cup {pc[c].req}
        /\ pc' = [pc EXCEPT ![c] = Idle]
        /\ UNCHANGED <<config, mem, cli, checks, commit, height, heard, committed, evicted>>
    BY DEF SetCallback
  <1>1. Pipe' = Pipe /\ Waiting' = Waiting /\ Left' = Left /\ Slots' = Slots
    BY <1>0 DEF Pipe, Waiting, Left, Slots
  <1>2. /\ pc \in [Callers -> {Idle} \cup [at : {"CheckTxAsync"}, tx : Txs]
                                \cup [at : {"SetCallback"}, req : Nat]]
        /\ armed \subseteq Nat
    BY DEF MempoolInv, TypeOK
  <1>3. \A d \in Callers : pc'[d] = pc[d] \/ (d = c /\ pc'[d] = Idle)
    BY <1>0, <1>2
  <1>4. \A d \in Callers : pc'[d] = pc[d] \/ pc'[d].at = "idle"
    BY <1>3 DEF Idle
  <1>5. InOrder(Pipe)'
    BY <1>1 DEF MempoolInv, Ordered
  <1>6. Indexed' /\ Ordered' /\ Rechecking' /\ Single'
    BY <1>0, <1>1, <1>4, <1>5, Frame
  <1>7. TypeOK'
    <2>1. pc[c].req \in Nat
      BY <1>0, <1>2 DEF Idle
    <2>2. pc' \in [Callers -> {Idle} \cup [at : {"CheckTxAsync"}, tx : Txs]
                                \cup [at : {"SetCallback"}, req : Nat]]
      BY <1>0, <1>2
    <2> QED  BY <1>0, <1>2, <2>1, <2>2 DEF MempoolInv, TypeOK
  <1>8. NoPanic' /\ Bounded' /\ Announcing'
    BY <1>0 DEF MempoolInv, NoPanic, Bounded, Announcing
  <1>9. Locked'
    BY <1>0, <1>1, <1>3 DEF MempoolInv, Locked
  <1> QED  BY <1>6, <1>7, <1>8, <1>9 DEF MempoolInv

(* Consensus takes the token. *)
LEMMA StepTxsAvailable == MempoolInv /\ TxsAvailable => MempoolInv'
  <1> SUFFICES ASSUME MempoolInv, TxsAvailable PROVE MempoolInv'
    OBVIOUS
  <1>0. /\ commit = Idle /\ mem' = [mem EXCEPT !.token = FALSE] /\ heard' = TRUE
        /\ UNCHANGED <<config, cli, armed, checks, pc, commit, height, committed, evicted>>
    BY DEF TxsAvailable
  <1>1. Pipe' = Pipe /\ Waiting' = Waiting /\ Left' = Left /\ Slots' = Slots
    BY <1>0 DEF Pipe, Waiting, Left, Slots
  <1>2. /\ mem' \in CListMempool
        /\ mem'.txs = mem.txs /\ mem'.txsMap = mem.txsMap /\ mem'.txsBytes = mem.txsBytes
        /\ mem'.cache = mem.cache /\ mem'.cursor = mem.cursor /\ mem'.end = mem.end
        /\ mem'.notified = mem.notified /\ mem'.panic = mem.panic
    BY <1>0, InvTypes DEF CListMempool
  <1>3. InOrder(Pipe)'
    BY <1>1 DEF MempoolInv, Ordered
  <1>4. Indexed' /\ Ordered' /\ Rechecking' /\ Single'
    BY <1>0, <1>1, <1>2, <1>3, Frame
  <1>5. TypeOK' /\ NoPanic' /\ Announcing'
    BY <1>0, <1>2 DEF MempoolInv, TypeOK, NoPanic, Announcing
  <1>6. Bounded' /\ Locked'
    BY <1>0, <1>1, <1>2 DEF MempoolInv, Bounded, Locked
  <1> QED  BY <1>4, <1>5, <1>6 DEF MempoolInv

(* When FlushSync has returned there is no request left, and no recheck:   *)
(* the write lock has kept out every caller since it was sent.             *)
LEMMA FlushedEmpty ==
  ASSUME MempoolInv, commit.at = "Update", Flushed
  PROVE  Pipe = <<>> /\ Waiting = {} /\ ~cli.timer /\ mem.cursor = Nil
  <1>1. /\ cli.reqSent \in Seq(Requests) /\ cli.reqQueue \in Seq(Requests)
        /\ Pipe \in Seq(Requests)
    BY InvTypes, PipeType
  <1>2. ASSUME Pipe # <<>> PROVE FALSE
    <2> DEFINE s == cli.reqSent
               q == cli.reqQueue
    <2>1. /\ Len(s) \in Nat /\ Len(q) \in Nat /\ Len(Pipe) = Len(s) + Len(q)
          /\ \A i \in 1 .. Len(s) + Len(q) : Pipe[i] = IF i <= Len(s) THEN s[i] ELSE q[i - Len(s)]
          /\ DOMAIN s = 1 .. Len(s) /\ DOMAIN q = 1 .. Len(q)
      BY <1>1, ConcatProperties, LenProperties DEF Pipe
    <2>2. Len(Pipe) # 0
      BY <1>1, <1>2
    <2> DEFINE r == Pipe[Len(Pipe)]
    <2> HIDE DEF s, q
    <2>3. r \in ToSet(s) \cup ToSet(q)
      <3>1. CASE Len(q) = 0
        <4>1. Len(s) \in DOMAIN s /\ r = s[Len(s)]
          BY <2>1, <2>2, <3>1
        <4> QED  BY <4>1 DEF ToSet
      <3>2. CASE Len(q) # 0
        <4>1. Len(q) \in DOMAIN q /\ r = q[Len(q)]
          BY <2>1, <2>2, <3>2
        <4> QED  BY <4>1 DEF ToSet
      <3> QED  BY <3>1, <3>2
    <2>4. r.type = "FlushSync"
      BY <1>2 DEF MempoolInv, Locked
    <2>5. r \in Requests
      BY <1>1, <2>3, ToSetType DEF s, q
    <2> HIDE DEF r
    <2>6. r = [type |-> "FlushSync"]
      BY <2>4, <2>5 DEF Requests
    <2> QED  BY <2>3, <2>6 DEF Flushed, InFlight, s, q
  <1>3. Waiting = {}
    BY <1>2 DEF Waiting, ToSet
  <1>4. Unsent = {}
    BY DEF Unsent, Left, ToSet
  <1>5. mem.cursor = Nil
    <2>1. ASSUME mem.cursor # Nil PROVE FALSE
      <3>1. mem.cursor \in Pooled /\ mem.cursor.req <= mem.cursor.req
        BY <2>1, InvTypes DEF MempoolInv, Rechecking
      <3> QED  BY <1>3, <1>4, <2>1, <3>1 DEF MempoolInv, Rechecking
    <2> QED  BY <2>1
  <1> QED  BY <1>2, <1>3, <1>5 DEF MempoolInv, Locked

(* Update starts. *)
LEMMA StepUpdate == MempoolInv /\ Update => MempoolInv'
  <1> SUFFICES ASSUME MempoolInv, Update PROVE MempoolInv'
    OBVIOUS
  <1>0. /\ commit.at = "Update" /\ Flushed
        /\ mem' = [mem EXCEPT !.notified = FALSE] /\ heard' = FALSE /\ height' = height + 1
        /\ UNCHANGED <<config, cli, armed, checks, pc, committed, evicted>>
    BY DEF Update
  <1>1. PICK b \in Blocks : commit' = [at |-> "UpdateTx", left |-> b]
    BY DEF Update
  <1>2. b \in Seq(Deliveries)
    BY DEF Blocks, SeqOf
  <1>3. Pipe = <<>> /\ Waiting = {} /\ ~cli.timer /\ mem.cursor = Nil
    BY <1>0, FlushedEmpty
  <1>4. Pipe' = Pipe /\ Waiting' = Waiting /\ Left' = Left
    BY <1>0, <1>1 DEF Pipe, Waiting, Left
  <1>5. /\ mem' \in CListMempool
        /\ mem'.txs = mem.txs /\ mem'.txsMap = mem.txsMap /\ mem'.txsBytes = mem.txsBytes
        /\ mem'.cache = mem.cache /\ mem'.cursor = mem.cursor /\ mem'.end = mem.end
        /\ mem'.notified = FALSE /\ mem'.panic = mem.panic
    BY <1>0, InvTypes DEF CListMempool
  <1>6. InOrder(Pipe)'
    BY <1>4 DEF MempoolInv, Ordered
  <1>7. Indexed' /\ Ordered' /\ Rechecking' /\ Single'
    BY <1>0, <1>4, <1>5, <1>6, Frame
  <1>8. TypeOK'
    <2>1. commit' \in [at : {"UpdateTx"}, left : Seq(Deliveries)]
      BY <1>1, <1>2
    <2>2. height' \in Nat
      BY <1>0 DEF MempoolInv, TypeOK
    <2> QED  BY <1>0, <1>5, <2>1, <2>2 DEF MempoolInv, TypeOK
  <1>9. NoPanic' /\ Bounded'
    BY <1>0, <1>5 DEF MempoolInv, NoPanic, Bounded
  <1>10. Announcing'
    BY <1>1, <1>5 DEF Announcing
  <1>11. Locked'
    <2>1. commit # Idle /\ commit'.at = "UpdateTx"
      BY <1>0, <1>1, InvTypes
    <2> QED  BY <1>0, <1>3, <1>4, <1>5, <2>1 DEF MempoolInv, Locked
  <1> QED  BY <1>7, <1>8, <1>9, <1>10, <1>11 DEF MempoolInv

-----------------------------------------------------------------------------
(***************************************************************************)
(* CheckTx.                                                                *)
(***************************************************************************)
(* Nothing but the cache and the callers changes: what the cache loses     *)
(* is evicted, or has no other place.                                      *)
LEMMA CacheFrame ==
  ASSUME MempoolInv, mem' \in CListMempool,
         mem'.txs = mem.txs, mem'.txsMap = mem.txsMap, mem'.txsBytes = mem.txsBytes,
         mem'.cursor = mem.cursor, mem'.end = mem.end,
         mem'.notified = mem.notified, mem'.token = mem.token, mem'.panic = mem.panic,
         Len(mem'.cache) <= CacheSize, Distinct(mem'.cache),
         cli' = cli, checks' = checks, commit' = commit, heard' = heard,
         committed' = committed, evicted \subseteq evicted',
         commit = Idle
  PROVE  /\ NoPanic' /\ Bounded' /\ Indexed' /\ Ordered' /\ Rechecking' /\ Announcing' /\ Locked'
         /\ Pooled' = Pooled /\ Waiting' = Waiting
  <1>1. Pooled' = Pooled /\ Pipe' = Pipe /\ Waiting' = Waiting /\ Left' = Left /\ Unsent' = Unsent
    BY DEF Pooled, Pipe, Waiting, Left, Unsent
  <1>2. NoPanic' /\ Bounded' /\ Announcing'
    BY DEF MempoolInv, NoPanic, Bounded, Announcing
  <1>3. Indexed'
    BY <1>1 DEF MempoolInv, Indexed
  <1>4. Ordered'
    BY <1>1 DEF MempoolInv, Ordered
  <1>5. Rechecking'
    BY <1>1 DEF MempoolInv, Rechecking
  <1>6. Locked'
    <2>1. commit.at = "idle"
      BY InvTypes
    <2> QED  BY <1>1, <2>1 DEF MempoolInv, Locked
  <1> QED  BY <1>1, <1>2, <1>3, <1>4, <1>5, <1>6

(* CheckTx, up to the request. *)
LEMMA StepCheckTx ==
  ASSUME MempoolInv, NEW c \in Callers, NEW t \in Txs, CheckTx(c, t) PROVE MempoolInv'
  <1> DEFINE p == Push(mem.cache, t)
  <1>0. /\ pc[c] = Idle /\ commit = Idle
        /\ mem' = [mem EXCEPT !.cache = p]
        /\ evicted' = evicted \cup Evicted(t)
        /\ pc' = IF Contains(mem.cache, t) THEN pc
                 ELSE [pc EXCEPT ![c] = [at |-> "CheckTxAsync", tx |-> t]]
        /\ UNCHANGED <<config, cli, armed, checks, commit, height, heard, committed>>
    BY DEF CheckTx
  <1>1. /\ mem \in CListMempool /\ mem.cache \in Seq(Txs) /\ Distinct(mem.cache)
        /\ Len(mem.cache) <= CacheSize
    BY InvTypes, MemType DEF MempoolInv, Bounded
  <1>2. /\ p \in Seq(Txs) /\ Distinct(p) /\ Len(p) <= CacheSize
        /\ t \in ToSet(p) /\ ToSet(p) \subseteq Known \cup {t}
        /\ t \in Known => ToSet(p) = Known
    BY <1>1, CachePush DEF Known
  <1>3. Contains(mem.cache, t) <=> t \in Known
    BY <1>1, ContainsIs DEF Known
  <1>4. Evicted(t) = IF t \in Known THEN {} ELSE Known \ ToSet(p)
    BY <1>3 DEF Evicted, Known
  <1> HIDE DEF p
  <1>5. /\ mem' \in CListMempool
        /\ mem'.txs = mem.txs /\ mem'.txsMap = mem.txsMap /\ mem'.txsBytes = mem.txsBytes
        /\ mem'.cache = p /\ mem'.cursor = mem.cursor /\ mem'.end = mem.end
        /\ mem'.notified = mem.notified /\ mem'.token = mem.token /\ mem'.panic = mem.panic
    BY <1>0, <1>1, <1>2, CacheSet
  <1>6. Known' = ToSet(p)
    BY <1>5 DEF Known
  <1>7. /\ NoPanic' /\ Bounded' /\ Indexed' /\ Ordered' /\ Rechecking' /\ Announcing' /\ Locked'
        /\ Pooled' = Pooled /\ Waiting' = Waiting
    BY <1>0, <1>2, <1>5, CacheFrame
  <1>8. pc \in [Callers -> {Idle} \cup [at : {"CheckTxAsync"}, tx : Txs]
                             \cup [at : {"SetCallback"}, req : Nat]]
    BY DEF MempoolInv, TypeOK
  <1>9. TypeOK'
    <2>1. pc' \in [Callers -> {Idle} \cup [at : {"CheckTxAsync"}, tx : Txs]
                                \cup [at : {"SetCallback"}, req : Nat]]
      BY <1>0, <1>8
    <2>2. evicted' \subseteq Txs
      BY <1>0, <1>4, InvTypes DEF MempoolInv, TypeOK
    <2> QED  BY <1>0, <1>5, <2>1, <2>2 DEF MempoolInv, TypeOK
  <1>10. Single'
    <2>1. CASE t \in Known
      <3>1. Known' = Known /\ pc' = pc /\ evicted' = evicted
        BY <1>0, <1>2, <1>3, <1>4, <1>6, <2>1
      <3> QED  BY <1>0, <1>7, <3>1 DEF MempoolInv, Single, Asks
    <2>2. CASE t \notin Known
      <3>1. pc' = [pc EXCEPT ![c] = [at |-> "CheckTxAsync", tx |-> t]]
        BY <1>0, <1>3, <2>2
      <3>2. \A d \in Callers, u \in Txs : Asks(d, u)' => Asks(d, u) \/ (d = c /\ u = t)
        BY <1>8, <3>1 DEF Asks
      <3>3. \A u \in Txs \ evicted' : u \notin evicted /\ (u \in Known => u \in Known')
        BY <1>0, <1>4, <1>6, <2>2
      <3>4. t \in Known'
        BY <1>2, <1>6
      <3> QED  BY <1>0, <1>7, <2>2, <3>2, <3>3, <3>4 DEF MempoolInv, Single
    <2> QED  BY <2>1, <2>2
  <1> QED  BY <1>7, <1>9, <1>10 DEF MempoolInv

(* "buffer is full": the cache forgets the transaction. *)
LEMMA StepCheckTxAsyncFails ==
  ASSUME MempoolInv, NEW c \in Callers, CheckTxAsyncFails(c) PROVE MempoolInv'
  <1> DEFINE t == pc[c].tx
             w == Without(mem.cache, t)
  <1>0. /\ pc[c].at = "CheckTxAsync"
        /\ mem' = [mem EXCEPT !.cache = w] /\ pc' = [pc EXCEPT ![c] = Idle]
        /\ UNCHANGED <<config, cli, armed, checks, commit, height, heard, committed, evicted>>
    BY DEF CheckTxAsyncFails
  <1>1. /\ mem \in CListMempool /\ mem.cache \in Seq(Txs) /\ Distinct(mem.cache)
        /\ Len(mem.cache) <= CacheSize /\ Len(mem.cache) \in Nat /\ CacheSize \in Nat
    BY InvTypes, MemType, MempoolAssumption DEF MempoolInv, Bounded
  <1>2. /\ w \in Seq(Txs) /\ Distinct(w) /\ Len(w) <= CacheSize /\ ToSet(w) = Known \ {t}
    <2>1. /\ w \in Seq(Txs) /\ Distinct(w) /\ Len(w) <= Len(mem.cache) /\ ToSet(w) = Known \ {t}
      BY <1>1, CacheRemove DEF Known
    <2>2. Len(w) \in Nat
      BY <2>1, LenProperties
    <2> QED  BY <1>1, <2>1, <2>2
  <1>3. pc \in [Callers -> {Idle} \cup [at : {"CheckTxAsync"}, tx : Txs]
                             \cup [at : {"SetCallback"}, req : Nat]]
    BY DEF MempoolInv, TypeOK
  <1>4. commit = Idle
    <2>1. pc[c] # Idle
      BY <1>0 DEF Idle
    <2> QED  BY <2>1 DEF MempoolInv, Locked
  <1>5. Asks(c, t)
    BY <1>0 DEF Asks
  <1> HIDE DEF t, w
  <1>6. /\ mem' \in CListMempool
        /\ mem'.txs = mem.txs /\ mem'.txsMap = mem.txsMap /\ mem'.txsBytes = mem.txsBytes
        /\ mem'.cache = w /\ mem'.cursor = mem.cursor /\ mem'.end = mem.end
        /\ mem'.notified = mem.notified /\ mem'.token = mem.token /\ mem'.panic = mem.panic
    BY <1>0, <1>1, <1>2, CacheSet
  <1>7. Known' = Known \ {t}
    BY <1>2, <1>6 DEF Known
  <1>8. /\ NoPanic' /\ Bounded' /\ Indexed' /\ Ordered' /\ Rechecking' /\ Announcing' /\ Locked'
        /\ Pooled' = Pooled /\ Waiting' = Waiting
    BY <1>0, <1>2, <1>4, <1>6, CacheFrame
  <1>9. TypeOK'
    <2>1. pc' \in [Callers -> {Idle} \cup [at : {"CheckTxAsync"}, tx : Txs]
                                \cup [at : {"SetCallback"}, req : Nat]]
      BY <1>0, <1>3
    <2> QED  BY <1>0, <1>6, <2>1 DEF MempoolInv, TypeOK
  <1>10. Single'
    <2>1. \A d \in Callers, u \in Txs : Asks(d, u)' => Asks(d, u) /\ d # c
      BY <1>0, <1>3 DEF Asks, Idle
    <2> QED  BY <1>0, <1>5, <1>7, <1>8, <2>1 DEF MempoolInv, Single
  <1> QED  BY <1>8, <1>9, <1>10 DEF MempoolInv

(* The request of CheckTx goes behind every other request. *)
LEMMA StepCheckTxAsync ==
  ASSUME MempoolInv, NEW c \in Callers, CheckTxAsync(c) PROVE MempoolInv'
  <1> DEFINE t == pc[c].tx
             r == [type |-> "CheckTx", tx |-> t, req |-> checks + 1]
  <1>0. /\ pc[c].at = "CheckTxAsync" /\ HasRoom(cli.reqQueue)
        /\ checks' = checks + 1 /\ cli' = Queued(r)
        /\ pc' = [pc EXCEPT ![c] = [at |-> "SetCallback", req |-> checks + 1]]
        /\ UNCHANGED <<config, mem, armed, commit, height, heard, committed, evicted>>
    BY DEF CheckTxAsync
  <1>1. pc \in [Callers -> {Idle} \cup [at : {"CheckTxAsync"}, tx : Txs]
                             \cup [at : {"SetCallback"}, req : Nat]]
    BY DEF MempoolInv, TypeOK
  <1>2. t \in Txs /\ Asks(c, t) /\ checks \in Nat
    BY <1>0, <1>1, InvTypes DEF Idle, Asks
  <1>3. commit = Idle /\ commit.at = "idle"
    <2>1. pc[c] # Idle
      BY <1>0 DEF Idle
    <2> QED  BY <2>1, InvTypes DEF MempoolInv, Locked
  <1> HIDE DEF t
  <1>4. /\ r \in Requests /\ r.type = "CheckTx" /\ r.req = checks + 1 /\ r.tx = t
    BY <1>2 DEF Requests
  <1> HIDE DEF r
  <1>5. /\ cli' \in socketClient /\ Pipe' = Append(Pipe, r)
        /\ Len(cli'.reqQueue) <= reqQueueSize /\ cli'.written <= Len(cli'.reqSent)
    BY <1>0, <1>4, InvTypes, QueuedPipe DEF MempoolInv, Bounded
  <1>6. ASSUME NEW q \in Waiting, IsCheck(q) PROVE q.req < r.req
    <2>1. q.req \in Nat /\ q.tx \in Txs
      BY <1>6, InvTypes
    <2>2. CASE q.type = "CheckTx"
      BY <1>2, <1>4, <2>1, <2>2 DEF MempoolInv, Ordered
    <2>3. CASE q.type = "Recheck"
      <3>1. [tx |-> q.tx, req |-> q.req] \in Pooled
        BY <2>3 DEF MempoolInv, Rechecking
      <3>2. q.req <= checks
        BY <3>1 DEF MempoolInv, Ordered
      <3> QED  BY <1>2, <1>4, <2>1, <3>2
    <2> QED  BY <1>6, <2>2, <2>3 DEF IsCheck
  <1>7. \A q \in Waiting : Precedes(q, r)
    BY <1>4, <1>6 DEF Precedes
  <1>8. InOrder(Pipe)' /\ Waiting' = Waiting \cup {r}
    <2>1. Pipe \in Seq(Requests) /\ InOrder(Pipe)
      BY InvTypes DEF MempoolInv, Ordered
    <2>2. InOrder(Append(Pipe, r)) /\ ToSet(Append(Pipe, r)) = ToSet(Pipe) \cup {r}
      BY <1>4, <1>7, <2>1, PipeAppend DEF Waiting
    <2> QED  BY <1>5, <2>2 DEF Waiting
  <1>9. Pooled' = Pooled /\ Known' = Known /\ Left' = Left /\ Unsent' = Unsent
    BY <1>0 DEF Pooled, Known, Left, Unsent
  <1>10. TypeOK'
    <2>1. checks + 1 \in Nat
      BY <1>2
    <2>2. pc' \in [Callers -> {Idle} \cup [at : {"CheckTxAsync"}, tx : Txs]
                                \cup [at : {"SetCallback"}, req : Nat]]
      BY <1>0, <1>1, <2>1
    <2> QED  BY <1>0, <1>5, <2>1, <2>2 DEF MempoolInv, TypeOK
  <1>11. NoPanic' /\ Bounded' /\ Announcing'
    BY <1>0, <1>5 DEF MempoolInv, NoPanic, Bounded, Announcing
  <1>12. Indexed'
    BY <1>0, <1>9 DEF MempoolInv, Indexed
  <1>13. Ordered'
    <2>1. \A e \in Pooled : e.req <= checks /\ e.req \in Nat
      BY InvTypes DEF MempoolInv, Ordered
    <2>2. \A e \in Pooled : e.req <= checks + 1 /\ e.req < r.req
      BY <1>2, <1>4, <2>1
    <2>3. \A q \in Waiting : q.type = "CheckTx" => q.req <= checks + 1
      <3>1. \A q \in Waiting : q.type = "CheckTx" => q.req <= checks /\ q.req \in Nat
        BY InvTypes DEF MempoolInv, Ordered, IsCheck
      <3> QED  BY <1>2, <3>1
    <2>4. r.req <= checks + 1
      BY <1>2, <1>4
    <2> QED  BY <1>0, <1>8, <1>9, <2>2, <2>3, <2>4 DEF MempoolInv, Ordered
  <1>14. Rechecking'
    BY <1>0, <1>4, <1>8, <1>9 DEF MempoolInv, Rechecking
  <1>15. Locked'
    BY <1>0, <1>3, <1>4, <1>8 DEF MempoolInv, Locked
  <1>16. Single'
    <2>1. \A d \in Callers, u \in Txs : Asks(d, u)' => Asks(d, u) /\ d # c
      BY <1>0, <1>1 DEF Asks
    <2>2. \A u \in Txs : Checked(r, u) <=> u = t
      BY <1>4 DEF Checked
    <2>3. \A q \in Waiting : t \notin evicted => ~Checked(q, t)
      BY <1>2 DEF MempoolInv, Single
    <2> QED  BY <1>0, <1>2, <1>8, <1>9, <2>1, <2>2, <2>3 DEF MempoolInv, Single
  <1> QED  BY <1>10, <1>11, <1>12, <1>13, <1>14, <1>15, <1>16 DEF MempoolInv

-----------------------------------------------------------------------------
(***************************************************************************)
(* Update and recheckTxs.                                                  *)
(***************************************************************************)
(* The index without an element of the list. *)
LEMMA IndexRemove ==
  ASSUME MempoolInv, NEW e \in Pooled, Pooled' = Pooled \ {e},
         mem'.txsMap = [mem.txsMap EXCEPT ![e.tx] = Nil], evicted \subseteq evicted'
  PROVE  /\ Indexed'
         /\ e.tx \notin evicted => \A f \in Pooled' : f.tx # e.tx
  <1>1. mem.txsMap \in [Txs -> Elements \cup {Nil}] /\ e.tx \in Txs
    BY InvTypes, MemType
  <1>2. \A t \in Txs : mem'.txsMap[t] = IF t = e.tx THEN Nil ELSE mem.txsMap[t]
    BY <1>1
  <1>3. \A f \in Pooled : f.tx \in Txs
    BY InvTypes
  <1> QED  BY <1>2, <1>3 DEF MempoolInv, Indexed

(* What Update does with one transaction of the block. *)
LEMMA DeliveredIs ==
  ASSUME MempoolInv, NEW d \in Deliveries, mem' = Delivered(mem, d),
         evicted' = IF d.ok THEN evicted \cup Evicted(d.tx) ELSE evicted
  PROVE  /\ mem' \in CListMempool /\ mem'.panic = mem.panic /\ mem'.cursor = mem.cursor
         /\ mem'.notified = mem.notified /\ mem'.token = mem.token
         /\ Sorted(mem'.txs) /\ Distinct(mem'.cache) /\ Len(mem'.cache) <= CacheSize
         /\ Len(mem'.txs) <= Len(mem.txs) /\ mem'.txsBytes = Len(mem'.txs)
         /\ Pooled' \subseteq Pooled /\ Indexed' /\ evicted' \subseteq Txs
         /\ d.tx \notin evicted' => \A e \in Pooled' : e.tx # d.tx
         /\ \A t \in Txs \ evicted' : t # d.tx /\ t \in Known => t \in Known'
         /\ d.ok => d.tx \in Known'
         /\ evicted \subseteq evicted'
  <1>1. d.tx \in Txs /\ d.ok \in BOOLEAN
    BY DEF Deliveries
  <1>2. /\ mem \in CListMempool /\ mem.cache \in Seq(Txs) /\ Distinct(mem.cache) /\ Sorted(mem.txs)
        /\ Len(mem.cache) <= CacheSize /\ mem.txsBytes = Len(mem.txs)
        /\ mem.txsMap \in [Txs -> Elements \cup {Nil}]
        /\ Len(mem.cache) \in Nat /\ Len(mem.txs) \in Nat /\ CacheSize \in Nat
    BY InvTypes, MemType, MempoolAssumption DEF MempoolInv, Bounded, Ordered
  <1> DEFINE c == IF d.ok THEN Push(mem.cache, d.tx)
                  ELSE IF config.KeepInvalidTxsInCache THEN mem.cache
                  ELSE Without(mem.cache, d.tx)
             seen == [mem EXCEPT !.cache = c]
  <1>3. mem' = IF mem.txsMap[d.tx] = Nil THEN seen
               ELSE removeTx(seen, mem.txsMap[d.tx], FALSE)
    BY DEF Delivered
  <1>4. /\ c \in Seq(Txs) /\ Distinct(c) /\ Len(c) <= CacheSize
        /\ \A t \in Txs \ evicted' : t # d.tx /\ t \in Known => t \in ToSet(c)
        /\ d.ok => d.tx \in ToSet(c)
        /\ evicted \subseteq evicted' /\ evicted' \subseteq Txs
    <2>1. CASE d.ok
      <3>1. /\ c \in Seq(Txs) /\ Distinct(c) /\ Len(c) <= CacheSize
            /\ d.tx \in ToSet(c) /\ ToSet(c) \subseteq Known \cup {d.tx}
            /\ d.tx \in Known => ToSet(c) = Known
        BY <1>1, <1>2, <2>1, CachePush DEF Known
      <3>2. Evicted(d.tx) = IF d.tx \in Known THEN {} ELSE Known \ ToSet(c)
        BY <1>2, <2>1, ContainsIs DEF Evicted, Known
      <3> HIDE DEF c, seen
      <3> QED  BY <2>1, <3>1, <3>2, InvTypes DEF MempoolInv, TypeOK
    <2>2. CASE ~d.ok
      <3>1. /\ c \in Seq(Txs) /\ Distinct(c) /\ Len(c) <= Len(mem.cache)
            /\ ToSet(c) \in {Known, Known \ {d.tx}}
        BY <1>2, <2>2, CacheRemove DEF Known
      <3> HIDE DEF c, seen
      <3>2. Len(c) \in Nat
        BY <3>1, LenProperties
      <3>3. Len(c) <= CacheSize
        BY <1>2, <3>1, <3>2
      <3>4. evicted' = evicted /\ evicted \subseteq Txs
        BY <2>2 DEF MempoolInv, TypeOK
      <3> QED  BY <2>2, <3>1, <3>3, <3>4
    <2> QED  BY <1>1, <2>1, <2>2
  <1>5. seen \in CListMempool
        /\ seen.txs = mem.txs /\ seen.txsMap = mem.txsMap /\ seen.txsBytes = mem.txsBytes
        /\ seen.cache = c /\ seen.cursor = mem.cursor /\ seen.end = mem.end
        /\ seen.notified = mem.notified /\ seen.token = mem.token /\ seen.panic = mem.panic
    BY <1>2, <1>4, CacheSet
  <1> HIDE DEF c, seen
  <1>6. CASE mem.txsMap[d.tx] = Nil
    <2>1. mem' = seen
      BY <1>3, <1>6
    <2>2. Pooled' = Pooled /\ Known' = ToSet(c)
      BY <1>5, <2>1 DEF Pooled, Known
    <2>3. \A e \in Pooled : e.tx = d.tx => e.tx \in evicted
      BY <1>6, InvTypes DEF MempoolInv, Indexed
    <2>4. Indexed'
      BY <1>4, <1>5, <2>1, <2>2 DEF MempoolInv, Indexed
    <2> QED  BY <1>2, <1>4, <1>5, <2>1, <2>2, <2>3, <2>4
  <1>7. CASE mem.txsMap[d.tx] # Nil
    <2> DEFINE e == mem.txsMap[d.tx]
    <2>1. e \in Pooled /\ e.tx = d.tx
      BY <1>1, <1>7 DEF MempoolInv, Indexed
    <2>2. mem' = Taken(seen, e, seen.cache)
      BY <1>3, <1>7 DEF removeTx, Taken
    <2> HIDE DEF e
    <2>3. /\ e \in ToSet(seen.txs) /\ Sorted(seen.txs) /\ seen.cache \in Seq(Txs)
          /\ seen \in CListMempool
      BY <1>2, <1>4, <1>5, <2>1 DEF Pooled
    <2>4. /\ mem' \in CListMempool /\ Sorted(mem'.txs)
          /\ ToSet(mem'.txs) = ToSet(seen.txs) \ {e}
          /\ Len(mem'.txs) = Len(seen.txs) - 1 /\ mem'.txsBytes = seen.txsBytes - 1
          /\ mem'.txsMap = [seen.txsMap EXCEPT ![e.tx] = Nil]
          /\ mem'.cache = seen.cache /\ mem'.cursor = seen.cursor
          /\ mem'.notified = seen.notified /\ mem'.token = seen.token /\ mem'.panic = seen.panic
      <3> DEFINE n == Taken(seen, e, seen.cache)
      <3>1. /\ n \in CListMempool /\ Sorted(n.txs)
            /\ ToSet(n.txs) = ToSet(seen.txs) \ {e}
            /\ n.txsMap = [seen.txsMap EXCEPT ![e.tx] = Nil]
        BY <2>3, RemoveTx
      <3>3. /\ Len(n.txs) = Len(seen.txs) - 1 /\ n.txsBytes = seen.txsBytes - 1
        BY <2>3, RemoveTx
      <3>4. /\ n.cache = seen.cache /\ n.cursor = seen.cursor
        BY <2>3, RemoveTx
      <3>5. n.notified = seen.notified /\ n.token = seen.token /\ n.panic = seen.panic
        BY <2>3, RemoveTx
      <3> HIDE DEF n
      <3>2. mem' = n
        BY <2>2 DEF n
      <3> QED  BY <3>1, <3>2, <3>3, <3>4, <3>5
    <2>5. Pooled' = Pooled \ {e} /\ Known' = ToSet(c)
      BY <1>5, <2>4 DEF Pooled, Known
    <2>6. mem'.txsMap = [mem.txsMap EXCEPT ![e.tx] = Nil]
      BY <1>5, <2>4
    <2>7. Indexed' /\ (e.tx \notin evicted => \A f \in Pooled' : f.tx # e.tx)
      BY <1>4, <2>1, <2>5, <2>6, IndexRemove
    <2>8. Len(mem'.cache) <= CacheSize /\ Len(mem'.txs) <= Len(mem.txs) /\ mem'.txsBytes = Len(mem'.txs)
      <3>1. Len(mem'.cache) \in Nat /\ Len(mem'.txs) \in Nat /\ Len(c) \in Nat
        BY <1>4, <2>4, MemType, LenProperties
      <3> QED  BY <1>2, <1>4, <1>5, <2>4, <3>1
    <2> QED  BY <1>4, <1>5, <2>1, <2>4, <2>5, <2>7, <2>8
  <1> QED  BY <1>6, <1>7

(* Update, for one transaction. *)
LEMMA StepUpdateTx == MempoolInv /\ UpdateTx => MempoolInv'
  <1> SUFFICES ASSUME MempoolInv, UpdateTx PROVE MempoolInv'
    OBVIOUS
  <1> DEFINE d == Head(commit.left)
  <1>0. /\ commit.at = "UpdateTx" /\ commit.left # <<>>
        /\ mem' = Delivered(mem, d)
        /\ committed' = IF d.ok THEN committed \cup {d.tx} ELSE committed \ {d.tx}
        /\ evicted' = IF d.ok THEN evicted \cup Evicted(d.tx) ELSE evicted
        /\ commit' = [commit EXCEPT !.left = Tail(@)]
        /\ UNCHANGED <<config, cli, armed, checks, pc, height, heard>>
    BY DEF UpdateTx
  <1>1. commit \in [at : {"UpdateTx"}, left : Seq(Deliveries)]
    BY <1>0 DEF MempoolInv, TypeOK, Idle
  <1>2. d \in Deliveries /\ Tail(commit.left) \in Seq(Deliveries)
    BY <1>0, <1>1, TailSet
  <1>3. d.tx \in Txs /\ d.ok \in BOOLEAN
    BY <1>2 DEF Deliveries
  <1>4. commit' \in [at : {"UpdateTx"}, left : Seq(Deliveries)] /\ commit'.at = "UpdateTx"
    BY <1>0, <1>1, <1>2
  <1> HIDE DEF d
  <1>5. /\ mem' \in CListMempool /\ mem'.panic = mem.panic /\ mem'.cursor = mem.cursor
        /\ mem'.notified = mem.notified /\ mem'.token = mem.token
        /\ Sorted(mem'.txs) /\ Distinct(mem'.cache) /\ Len(mem'.cache) <= CacheSize
        /\ Len(mem'.txs) <= Len(mem.txs) /\ mem'.txsBytes = Len(mem'.txs)
        /\ Pooled' \subseteq Pooled /\ Indexed' /\ evicted' \subseteq Txs
        /\ d.tx \notin evicted' => \A e \in Pooled' : e.tx # d.tx
        /\ \A t \in Txs \ evicted' : t # d.tx /\ t \in Known => t \in Known'
        /\ d.ok => d.tx \in Known'
        /\ evicted \subseteq evicted'
    BY <1>0, <1>2, DeliveredIs
  <1>6. Pipe' = Pipe /\ Waiting' = Waiting /\ Left' = Left /\ Unsent' = Unsent
    BY <1>0, <1>4 DEF Pipe, Waiting, Left, Unsent
  <1>7. Pipe = <<>> /\ ~cli.timer /\ mem.cursor = Nil /\ Waiting = {} /\ Unsent = {}
    BY <1>0 DEF MempoolInv, Locked, Waiting, Unsent, Left, ToSet
  <1>8. TypeOK'
    BY <1>0, <1>3, <1>4, <1>5 DEF MempoolInv, TypeOK
  <1>9. NoPanic' /\ Announcing'
    BY <1>0, <1>4, <1>5 DEF MempoolInv, NoPanic, Announcing
  <1>10. Bounded'
    <2>1. Len(mem'.txs) \in Nat /\ Len(mem.txs) \in Nat /\ Size \in Nat /\ MaxTxsBytes \in Nat
      BY <1>5, InvTypes, MemType, MempoolAssumption
    <2>2. Len(mem.txs) <= Size /\ Len(mem.txs) <= MaxTxsBytes
      BY DEF MempoolInv, Bounded
    <2>3. Len(mem'.txs) <= Size /\ mem'.txsBytes <= MaxTxsBytes
      BY <1>5, <2>1, <2>2
    <2> QED  BY <1>0, <1>5, <2>3 DEF MempoolInv, Bounded
  <1>11. Ordered'
    BY <1>0, <1>5, <1>6, <1>7 DEF MempoolInv, Ordered
  <1>12. Rechecking'
    BY <1>5, <1>6, <1>7 DEF Rechecking
  <1>13. commit # Idle /\ \A c \in Callers : pc[c] = Idle
    BY <1>0 DEF MempoolInv, Locked, Idle
  <1>14. Locked'
    BY <1>0, <1>4, <1>5, <1>6, <1>7, <1>13 DEF Locked
  <1>15. Single'
    <2>1. \A c \in Callers, t \in Txs : ~Asks(c, t)'
      BY <1>0, <1>13 DEF Asks, Idle
    <2> QED  BY <1>0, <1>3, <1>5, <1>6, <1>7, <2>1 DEF MempoolInv, Single
  <1> QED  BY <1>5, <1>8, <1>9, <1>10, <1>11, <1>12, <1>14, <1>15 DEF MempoolInv

(* The end of Update: recheckTxs starts at the first element, or what is   *)
(* left is announced.                                                      *)
LEMMA StepUpdateEnds == MempoolInv /\ UpdateEnds => MempoolInv'
  <1> SUFFICES ASSUME MempoolInv, UpdateEnds PROVE MempoolInv'
    OBVIOUS
  <1> DEFINE recheck == mem.txs # <<>> /\ config.Recheck
  <1>0. /\ commit.at = "UpdateTx"
        /\ mem' = IF mem.txs = <<>> THEN mem
                  ELSE IF recheck THEN [mem EXCEPT !.cursor = Head(mem.txs), !.end = Last(mem.txs)]
                  ELSE notifyTxsAvailable(mem)
        /\ commit' = IF recheck THEN [at |-> "recheckTxs", left |-> mem.txs] ELSE Idle
        /\ UNCHANGED <<config, cli, armed, checks, pc, height, heard, committed, evicted>>
    BY DEF UpdateEnds
  <1>1. /\ mem \in CListMempool /\ mem.txs \in Seq(Elements) /\ Sorted(mem.txs)
        /\ Len(mem.txs) \in Nat /\ Size \in Nat /\ mem.notified \in BOOLEAN
        /\ mem.token \in BOOLEAN
    BY InvTypes, MemType, MempoolAssumption DEF MempoolInv, Ordered
  <1>2. Pipe = <<>> /\ ~cli.timer /\ mem.cursor = Nil /\ Waiting = {} /\ Left = <<>>
    BY <1>0 DEF MempoolInv, Locked, Waiting, Left, ToSet
  <1>3. Pipe' = Pipe /\ Waiting' = Waiting
    BY <1>0 DEF Pipe, Waiting
  <1>4. InOrder(Pipe)'
    BY <1>3 DEF MempoolInv, Ordered
  <1>5. commit # Idle /\ \A c \in Callers : pc[c] = Idle
    BY <1>0 DEF MempoolInv, Locked, Idle
  <1>6. CASE recheck
    <2> DEFINE h == Head(mem.txs)
               l == Last(mem.txs)
    <2>0. /\ mem' = [mem EXCEPT !.cursor = h, !.end = l]
          /\ commit' = [at |-> "recheckTxs", left |-> mem.txs]
      BY <1>0, <1>6
    <2>1. /\ h \in Pooled /\ l \in Pooled
          /\ \A e \in Pooled : h.req <= e.req /\ e.req <= l.req
      BY <1>1, <1>6, SortedEnds DEF Pooled
    <2>2. h \in Elements /\ l \in Elements /\ h # Nil
      BY <2>1, InvTypes
    <2> HIDE DEF h, l
    <2>3. /\ mem' \in CListMempool
          /\ mem'.txs = mem.txs /\ mem'.txsMap = mem.txsMap /\ mem'.txsBytes = mem.txsBytes
          /\ mem'.cache = mem.cache /\ mem'.cursor = h /\ mem'.end = l
          /\ mem'.notified = mem.notified /\ mem'.token = mem.token /\ mem'.panic = mem.panic
      BY <1>1, <2>0, <2>2 DEF CListMempool
    <2>4. commit'.at = "recheckTxs" /\ Left' = mem.txs
      BY <2>0 DEF Left
    <2>5. Pooled' = Pooled /\ Known' = Known /\ Unsent' = Pooled
      BY <2>3, <2>4 DEF Pooled, Known, Unsent
    <2>6. TypeOK'
      <3>1. commit' \in [at : {"recheckTxs"}, left : Seq(Elements)]
        BY <1>1, <2>0
      <3> QED  BY <1>0, <2>3, <3>1 DEF MempoolInv, TypeOK
    <2>7. NoPanic' /\ Bounded' /\ Announcing'
      BY <1>0, <2>2, <2>3 DEF MempoolInv, NoPanic, Bounded, Announcing
    <2>8. Indexed'
      BY <1>0, <2>3, <2>5 DEF MempoolInv, Indexed
    <2>9. Ordered'
      BY <1>0, <1>2, <1>3, <1>4, <2>3, <2>4, <2>5 DEF MempoolInv, Ordered
    <2>10. Rechecking'
      BY <1>2, <1>3, <2>1, <2>2, <2>3, <2>5 DEF Rechecking
    <2>11. Locked'
      <3>1. Len(Left') <= Size /\ Len(Left') \in Nat
        BY <1>1, <2>4 DEF MempoolInv, Bounded
      <3>2. cli.reqQueue = <<>>
        BY <1>2, InvTypes, PipeType DEF Pipe
      <3>3. Slots' = 0
        BY <1>0, <1>2, <3>2 DEF Slots
      <3>4. Slots' + 2 * Len(Left') <= 2 * Size
        BY <1>1, <3>1, <3>3
      <3> QED  BY <1>0, <1>2, <1>3, <1>5, <2>4, <3>4 DEF Locked
    <2>12. Single'
      BY <1>0, <1>3, <2>5 DEF MempoolInv, Single, Asks
    <2> QED  BY <2>6, <2>7, <2>8, <2>9, <2>10, <2>11, <2>12 DEF MempoolInv
  <1>7. CASE ~recheck
    <2>0. commit' = Idle /\ commit'.at = "idle"
      BY <1>0, <1>7 DEF Idle
    <2>1. Left' = Left
      BY <1>2, <2>0 DEF Left
    <2>2. /\ mem' \in CListMempool
          /\ mem'.txs = mem.txs /\ mem'.txsMap = mem.txsMap /\ mem'.txsBytes = mem.txsBytes
          /\ mem'.cache = mem.cache /\ mem'.cursor = mem.cursor /\ mem'.end = mem.end
          /\ mem'.panic = mem.panic
          /\ mem'.notified => mem'.token \/ heard
          /\ mem.txs # <<>> => mem'.notified
      <3>1. CASE mem.txs = <<>>
        BY <1>0, <1>1, <3>1 DEF MempoolInv, Announcing
      <3>2. CASE mem.txs # <<>>
        <4>1. mem' = notifyTxsAvailable(mem)
          BY <1>0, <1>7, <3>2
        <4>2. /\ mem' \in CListMempool
              /\ mem'.txs = mem.txs /\ mem'.txsMap = mem.txsMap /\ mem'.txsBytes = mem.txsBytes
              /\ mem'.cache = mem.cache /\ mem'.cursor = mem.cursor /\ mem'.end = mem.end
              /\ mem'.notified /\ mem'.token = (mem.token \/ ~mem.notified)
              /\ mem'.panic = mem.panic
          BY <1>1, <3>2, <4>1, Notify
        <4> QED  BY <1>1, <4>2 DEF MempoolInv, Announcing
      <3> QED  BY <3>1, <3>2
    <2>3. Indexed' /\ Ordered' /\ Rechecking' /\ Single'
      BY <1>0, <1>3, <1>4, <2>1, <2>2, Frame
    <2>4. TypeOK'
      BY <1>0, <2>0, <2>2 DEF MempoolInv, TypeOK
    <2>5. NoPanic' /\ Bounded' /\ Announcing'
      BY <1>0, <2>2 DEF MempoolInv, NoPanic, Bounded, Announcing
    <2>6. Locked'
      BY <1>2, <1>3, <2>0 DEF Locked
    <2> QED  BY <2>3, <2>4, <2>5, <2>6 DEF MempoolInv
  <1> QED  BY <1>6, <1>7

(* A recheck is sent: there is room for it. *)
LEMMA StepRecheckTx ==
  ASSUME RoomForRecheck, MempoolInv, RecheckTx PROVE MempoolInv'
  <1> DEFINE h == Head(commit.left)
             r == [type |-> "Recheck", tx |-> h.tx, req |-> h.req]
  <1>0. /\ commit.at = "recheckTxs" /\ commit.left # <<>>
        /\ commit' = [commit EXCEPT !.left = Tail(@)]
        /\ cli' = IF HasRoom(cli.reqQueue) THEN Queued(r) ELSE cli
        /\ UNCHANGED <<config, mem, armed, checks, pc, height, heard, committed, evicted>>
    BY DEF RecheckTx
  <1>1. commit \in [at : {"recheckTxs"}, left : Seq(Elements)]
    BY <1>0 DEF MempoolInv, TypeOK, Idle
  <1>2. Left = commit.left /\ Left \in Seq(Elements) /\ Left # <<>> /\ Sorted(Left)
    BY <1>0, <1>1 DEF Left, MempoolInv, Ordered
  <1>3. /\ Tail(Left) \in Seq(Elements) /\ Sorted(Tail(Left))
        /\ Len(Tail(Left)) = Len(Left) - 1 /\ Len(Left) \in Nat \ {0}
        /\ h \in Elements /\ h \in Unsent
        /\ Unsent = ToSet(Tail(Left)) \cup {h}
        /\ \A e \in ToSet(Tail(Left)) : h.req < e.req
    BY <1>2, SortedTail DEF Unsent
  <1> HIDE DEF h
  <1>4. /\ commit' \in [at : {"recheckTxs"}, left : Seq(Elements)]
        /\ commit'.at = "recheckTxs" /\ Left' = Tail(Left)
    BY <1>0, <1>1, <1>2, <1>3 DEF Left
  <1>5. Unsent' = ToSet(Tail(Left))
    BY <1>4 DEF Unsent
  <1>6. /\ r \in Requests /\ r.type = "Recheck" /\ r.req = h.req /\ r.tx = h.tx
        /\ [tx |-> r.tx, req |-> r.req] = h /\ IsCheck(r)
    BY <1>3 DEF Requests, Elements, IsCheck
  <1> HIDE DEF r
  <1>7. /\ Slots \in Nat /\ Size \in Nat /\ reqQueueSize \in Nat /\ Len(cli.reqQueue) \in Nat
        /\ Len(cli.reqQueue) <= Slots
        /\ Slots + 2 * Len(Left) <= 2 * Size
    <2>1. Size \in Nat /\ reqQueueSize \in Nat
      BY MempoolAssumption
    <2>2. Len(cli.reqQueue) \in Nat /\ cli.timer \in BOOLEAN
      BY InvTypes, PipeType
    <2>3. Slots \in Nat /\ Len(cli.reqQueue) <= Slots
      BY <2>2 DEF Slots
    <2> QED  BY <1>0, <2>1, <2>2, <2>3 DEF MempoolInv, Locked
  <1>8. HasRoom(cli.reqQueue)
    <2>1. 2 * Size <= reqQueueSize + 1
      BY DEF RoomForRecheck
    <2> QED  BY <1>3, <1>7, <2>1 DEF HasRoom
  <1>9. /\ cli' \in socketClient /\ Pipe' = Append(Pipe, r)
        /\ Len(cli'.reqQueue) = Len(cli.reqQueue) + 1 /\ Len(cli'.reqQueue) <= reqQueueSize
        /\ cli'.written <= Len(cli'.reqSent) /\ cli'.timer
    <2>1. cli' = Queued(r)
      BY <1>0, <1>8
    <2> QED  BY <1>6, <1>8, <2>1, InvTypes, QueuedPipe DEF MempoolInv, Bounded
  <1>10. /\ mem.cursor # Nil /\ mem.cursor.req <= h.req /\ h \in Pooled
         /\ \A q \in Waiting : q.type = "Recheck" => q.req < h.req
         /\ \A q \in Waiting : q.type # "CheckTx"
    BY <1>0, <1>3 DEF MempoolInv, Rechecking, Locked
  <1>11. \A q \in Waiting : Precedes(q, r)
    BY <1>6, <1>10 DEF Precedes, IsCheck
  <1>12. InOrder(Pipe)' /\ Waiting' = Waiting \cup {r}
    <2>1. Pipe \in Seq(Requests) /\ InOrder(Pipe)
      BY InvTypes DEF MempoolInv, Ordered
    <2>2. InOrder(Append(Pipe, r)) /\ ToSet(Append(Pipe, r)) = ToSet(Pipe) \cup {r}
      BY <1>6, <1>11, <2>1, PipeAppend DEF Waiting
    <2> QED  BY <1>9, <2>2 DEF Waiting
  <1>13. Pooled' = Pooled /\ Known' = Known
    BY <1>0 DEF Pooled, Known
  <1>14. TypeOK'
    BY <1>0, <1>4, <1>9 DEF MempoolInv, TypeOK
  <1>15. NoPanic' /\ Bounded' /\ Announcing'
    BY <1>0, <1>4, <1>9 DEF MempoolInv, NoPanic, Bounded, Announcing
  <1>16. Indexed'
    BY <1>0, <1>13 DEF MempoolInv, Indexed
  <1>17. Ordered'
    BY <1>0, <1>3, <1>4, <1>6, <1>12, <1>13 DEF MempoolInv, Ordered
  <1>18. Rechecking'
    <2>1. \A q \in Waiting' : q.type = "Recheck" =>
            mem.cursor # Nil /\ mem.cursor.req <= q.req /\ [tx |-> q.tx, req |-> q.req] \in Pooled
      BY <1>6, <1>10, <1>12 DEF MempoolInv, Rechecking
    <2>2. \A e \in Unsent' :
            /\ mem.cursor # Nil /\ mem.cursor.req <= e.req /\ e \in Pooled
            /\ \A q \in Waiting' : q.type = "Recheck" => q.req < e.req
      BY <1>3, <1>5, <1>6, <1>12 DEF MempoolInv, Rechecking
    <2>3. \A e \in Pooled : mem.cursor.req <= e.req =>
            e \in Unsent' \/ \E q \in Waiting' : q.type = "Recheck" /\ q.req = e.req
      BY <1>3, <1>5, <1>6, <1>10, <1>12 DEF MempoolInv, Rechecking
    <2> QED  BY <1>0, <1>13, <2>1, <2>2, <2>3 DEF MempoolInv, Rechecking
  <1>19. Locked'
    <2>1. Slots' <= Slots + 2 /\ Slots' \in Nat
      BY <1>7, <1>9 DEF Slots
    <2>2. Slots' + 2 * Len(Left') <= 2 * Size
      BY <1>3, <1>4, <1>7, <2>1
    <2>3. \A q \in Waiting' : q.type # "CheckTx" /\ q.type # "FlushSync"
      BY <1>0, <1>6, <1>12 DEF MempoolInv, Locked
    <2>4. \A c \in Callers : pc'[c] = Idle
      BY <1>0 DEF MempoolInv, Locked, Idle
    <2> QED  BY <1>4, <2>2, <2>3, <2>4 DEF Locked
  <1>20. Single'
    <2>1. \A t \in Txs : ~Checked(r, t)
      BY <1>6 DEF Checked
    <2> QED  BY <1>0, <1>12, <1>13, <2>1 DEF MempoolInv, Single, Asks
  <1> QED  BY <1>14, <1>15, <1>16, <1>17, <1>18, <1>19, <1>20 DEF MempoolInv

-----------------------------------------------------------------------------
(***************************************************************************)
(* The responses of the application.                                       *)
(***************************************************************************)
(* The response is for the oldest request of the pipe. *)
Response ==
  /\ cli.reqSent # <<>>
  /\ cli' = [cli EXCEPT !.reqSent = Tail(@), !.written = IF @ = 0 THEN 0 ELSE @ - 1]
  /\ UNCHANGED <<config, checks, pc, commit, height, committed, evicted>>

(* What a response leaves in the pipe. *)
LEMMA Received ==
  ASSUME MempoolInv, Response, NEW r, r = Head(cli.reqSent)
  PROVE  /\ r \in Requests /\ r \in Waiting /\ InOrder(Pipe)'
         /\ Waiting = Waiting' \cup {r} /\ \A q \in Waiting' : Precedes(r, q)
         /\ IsCheck(r) => r \notin Waiting'
         /\ cli' \in socketClient /\ cli'.reqQueue = cli.reqQueue
         /\ cli'.written <= Len(cli'.reqSent)
         /\ Left' = Left /\ Unsent' = Unsent /\ Locked' /\ commit.at # "UpdateTx"
  <1>0. /\ cli.reqSent # <<>>
        /\ cli' = [cli EXCEPT !.reqSent = Tail(@), !.written = IF @ = 0 THEN 0 ELSE @ - 1]
        /\ UNCHANGED <<config, checks, pc, commit, height, committed, evicted>>
    BY DEF Response
  <1>1. /\ cli \in socketClient
        /\ cli.reqSent \in Seq(Requests) /\ cli.reqQueue \in Seq(Requests)
        /\ Len(cli.reqSent) \in Nat /\ cli.written \in Nat /\ cli.written <= Len(cli.reqSent)
        /\ Pipe \in Seq(Requests) /\ InOrder(Pipe)
    BY InvTypes, PipeType DEF MempoolInv, Bounded, Ordered
  <1>2. /\ Tail(cli.reqSent) \in Seq(Requests)
        /\ Len(Tail(cli.reqSent)) = Len(cli.reqSent) - 1 /\ Len(cli.reqSent) >= 1
    BY <1>0, <1>1, TailSet
  <1>3. Pipe # <<>> /\ Head(Pipe) = r /\ Tail(cli.reqSent) \o cli.reqQueue = Tail(Pipe)
    BY <1>0, <1>1, ConcatTail DEF Pipe
  <1> DEFINE w == IF cli.written = 0 THEN 0 ELSE cli.written - 1
  <1>4. w \in Nat /\ w <= Len(cli.reqSent) - 1
    BY <1>1, <1>2
  <1>5. /\ cli' \in socketClient
        /\ cli'.reqQueue = cli.reqQueue /\ cli'.reqSent = Tail(cli.reqSent)
        /\ cli'.timer = cli.timer /\ cli'.written = w
    <2>1. cli' = [cli EXCEPT !.reqSent = Tail(cli.reqSent), !.written = w]
      BY <1>0
    <2> HIDE DEF w
    <2> QED  BY <1>1, <1>2, <1>4, <2>1 DEF socketClient
  <1> HIDE DEF w
  <1>6. Pipe' = Tail(Pipe)
    BY <1>3, <1>5 DEF Pipe
  <1>7. /\ InOrder(Tail(Pipe)) /\ r \in Requests /\ r \in ToSet(Pipe)
        /\ ToSet(Pipe) = ToSet(Tail(Pipe)) \cup {r}
        /\ \A q \in ToSet(Tail(Pipe)) : Precedes(r, q)
        /\ Tail(Pipe) # <<>> => Tail(Pipe)[Len(Tail(Pipe))] = Pipe[Len(Pipe)]
    BY <1>1, <1>3, PipeTail
  <1>8. /\ r \in Waiting /\ InOrder(Pipe)' /\ Waiting = Waiting' \cup {r}
        /\ \A q \in Waiting' : Precedes(r, q)
    BY <1>6, <1>7 DEF Waiting
  <1>9. IsCheck(r) => r \notin Waiting'
    <2>1. IsCheck(r) => r.req \in Nat
      BY <1>8, InvTypes
    <2> QED  BY <1>8, <2>1 DEF Precedes
  <1>10. Left' = Left /\ Unsent' = Unsent
    BY <1>0 DEF Left, Unsent
  <1>11. commit.at # "UpdateTx"
    BY <1>3 DEF MempoolInv, Locked
  <1>12. Locked'
    <2>1. Slots' = Slots
      BY <1>5 DEF Slots
    <2>2. commit.at = "Update" => Pipe' = <<>> \/ Pipe'[Len(Pipe')].type = "FlushSync"
      BY <1>3, <1>6, <1>7 DEF MempoolInv, Locked
    <2> QED  BY <1>0, <1>5, <1>8, <1>10, <1>11, <2>1, <2>2 DEF MempoolInv, Locked
  <1> QED  BY <1>2, <1>4, <1>5, <1>7, <1>8, <1>9, <1>10, <1>11, <1>12

(* A flush is answered. *)
LEMMA StepFlushed ==
  ASSUME MempoolInv, Response, ~IsCheck(Head(cli.reqSent)),
         mem' = mem, armed' = armed, heard' = heard
  PROVE  MempoolInv'
  <1> DEFINE r == Head(cli.reqSent)
  <1>1. /\ InOrder(Pipe)' /\ Waiting = Waiting' \cup {r}
        /\ cli' \in socketClient /\ cli'.reqQueue = cli.reqQueue
        /\ cli'.written <= Len(cli'.reqSent) /\ Left' = Left /\ Locked'
    BY Received
  <1>2. ~IsCheck(r)
    OBVIOUS
  <1> HIDE DEF r
  <1>3. UNCHANGED <<config, checks, pc, commit, height, committed, evicted>>
    BY DEF Response
  <1>4. Indexed' /\ Ordered' /\ Rechecking' /\ Single'
    BY <1>1, <1>2, <1>3, Frame
  <1>5. TypeOK' /\ NoPanic' /\ Bounded' /\ Announcing'
    BY <1>1, <1>3 DEF MempoolInv, TypeOK, NoPanic, Bounded, Announcing
  <1> QED  BY <1>1, <1>4, <1>5 DEF MempoolInv

(* The oldest request is a recheck: it is that of the cursor. *)
LEMMA RecheckHead ==
  ASSUME MempoolInv, NEW r \in Waiting, r.type = "Recheck",
         \A q \in Waiting : q = r \/ Precedes(r, q)
  PROVE  /\ mem.cursor # Nil /\ mem.cursor \in Pooled /\ mem.end \in Pooled
         /\ mem.cursor.req = r.req /\ mem.cursor.tx = r.tx
  <1>1. /\ mem.cursor # Nil /\ mem.cursor.req <= r.req /\ [tx |-> r.tx, req |-> r.req] \in Pooled
    BY DEF MempoolInv, Rechecking
  <1>2. mem.cursor \in Pooled /\ mem.end \in Pooled
    BY <1>1 DEF MempoolInv, Rechecking
  <1>3. /\ mem.cursor.req \in Nat /\ r.req \in Nat /\ r.tx \in Txs
    BY <1>2, InvTypes DEF IsCheck
  <1>4. mem.cursor \notin Unsent
    <2>1. mem.cursor \in Unsent => r.req < mem.cursor.req
      BY DEF MempoolInv, Rechecking
    <2> QED  BY <1>1, <1>3, <2>1
  <1>5. PICK q \in Waiting : q.type = "Recheck" /\ q.req = mem.cursor.req
    BY <1>1, <1>2, <1>3, <1>4 DEF MempoolInv, Rechecking
  <1>6. mem.cursor.req = r.req
    <2>1. CASE q = r
      BY <1>5, <2>1
    <2>2. CASE Precedes(r, q)
      <3>1. r.req < q.req
        BY <1>5, <2>2 DEF Precedes, IsCheck
      <3> QED  BY <1>1, <1>3, <1>5, <3>1
    <2> QED  BY <2>1, <2>2
  <1> DEFINE e == [tx |-> r.tx, req |-> r.req]
  <1>7. e.req = r.req /\ e.tx = r.tx /\ e \in Pooled
    BY <1>1
  <1> HIDE DEF e
  <1>8. mem.txs \in Seq(Elements) /\ Sorted(mem.txs)
    BY InvTypes, MemType DEF MempoolInv, Ordered
  <1>9. e = mem.cursor
    BY <1>2, <1>6, <1>7, <1>8, SortedUnique DEF Pooled
  <1> QED  BY <1>1, <1>2, <1>6, <1>7, <1>9

(* Where the cursor goes: to the next element, or away at the last one. *)
Moved == IF mem.cursor = mem.end THEN Nil ELSE Next_(mem.txs, mem.cursor)

(* The cursor moves to the next element in the order of the requests. *)
LEMMA CursorMoves ==
  ASSUME MempoolInv, mem.cursor # Nil
  PROVE  /\ Moved = Nil => \A e \in Pooled : e.req <= mem.cursor.req
         /\ Moved # Nil =>
              /\ Moved \in Pooled /\ mem.cursor.req < Moved.req
              /\ mem.end \in Pooled /\ mem.end # mem.cursor
              /\ \A e \in Pooled : mem.cursor.req < e.req => Moved.req <= e.req
         /\ Moved \in Elements \cup {Nil}
  <1>1. /\ mem.cursor \in Pooled /\ mem.end \in Pooled
        /\ \A e \in Pooled : e.req <= mem.end.req
    BY DEF MempoolInv, Rechecking
  <1>2. CASE mem.cursor = mem.end
    <2>1. Moved = Nil
      BY <1>2 DEF Moved
    <2> QED  BY <1>1, <1>2, <2>1
  <1>3. CASE mem.cursor # mem.end
    <2>1. mem.txs \in Seq(Elements) /\ Sorted(mem.txs)
      BY InvTypes, MemType DEF MempoolInv, Ordered
    <2>2. mem.cursor.req # mem.end.req
      BY <1>1, <1>3, <2>1, SortedUnique DEF Pooled
    <2>3. mem.cursor.req \in Nat /\ mem.end.req \in Nat
      BY <1>1, InvTypes
    <2>4. mem.cursor.req < mem.end.req
      BY <1>1, <2>2, <2>3
    <2>5. Moved = Next_(mem.txs, mem.cursor)
      BY <1>3 DEF Moved
    <2>6. /\ Moved \in Pooled /\ mem.cursor.req < Moved.req
          /\ \A e \in Pooled : mem.cursor.req < e.req => Moved.req <= e.req
      BY <1>1, <2>1, <2>4, <2>5, NextElement DEF Pooled
    <2>7. Moved # Nil /\ Moved \in Elements
      BY <2>6, InvTypes
    <2> QED  BY <1>1, <1>3, <2>6, <2>7
  <1> QED  BY <1>2, <1>3

(* What resCbRecheck does for the transaction under the cursor. *)
LEMMA RecheckMem ==
  ASSUME MempoolInv, mem.cursor # Nil, mem.cursor \in Pooled, NEW ok \in BOOLEAN,
         mem' = resCbRecheck(mem, mem.cursor.tx, ok)
  PROVE  /\ mem' \in CListMempool /\ mem'.panic = mem.panic
         /\ mem'.cursor = Moved /\ mem'.end = mem.end
         /\ Sorted(mem'.txs) /\ Distinct(mem'.cache) /\ Len(mem'.cache) <= Len(mem.cache)
         /\ Len(mem'.txs) <= Len(mem.txs) /\ mem'.txsBytes = Len(mem'.txs)
         /\ \/ Pooled' = Pooled /\ mem'.txsMap = mem.txsMap /\ Known' = Known
            \/ /\ Pooled' = Pooled \ {mem.cursor}
               /\ mem'.txsMap = [mem.txsMap EXCEPT ![mem.cursor.tx] = Nil]
               /\ Known \ {mem.cursor.tx} \subseteq Known'
         /\ \/ mem'.notified /\ (mem.notified => mem'.token = mem.token)
                             /\ (~mem.notified => mem'.token)
            \/ /\ mem'.notified = mem.notified /\ mem'.token = mem.token
               /\ Moved # Nil \/ mem'.txs = <<>>
  <1>1. /\ mem \in CListMempool /\ Sorted(mem.txs) /\ mem.cursor \in ToSet(mem.txs)
        /\ mem.cache \in Seq(Txs) /\ Distinct(mem.cache) /\ mem.txsBytes = Len(mem.txs)
        /\ Len(mem.cache) \in Nat /\ Len(mem.txs) \in Nat
        /\ mem.notified \in BOOLEAN /\ mem.token \in BOOLEAN
    BY InvTypes, MemType DEF MempoolInv, Ordered, Bounded, Pooled
  <1>2. Moved \in Elements \cup {Nil}
    BY CursorMoves
  <1> DEFINE cache == IF ~config.KeepInvalidTxsInCache THEN Without(mem.cache, mem.cursor.tx)
                      ELSE mem.cache
             kept == IF ok THEN mem ELSE Taken(mem, mem.cursor, cache)
             moved == [kept EXCEPT !.cursor = Moved]
  <1>3. /\ cache \in Seq(Txs) /\ Distinct(cache) /\ Len(cache) <= Len(mem.cache)
        /\ ToSet(cache) \in {Known, Known \ {mem.cursor.tx}}
    BY <1>1, CacheRemove DEF Known
  <1>4. kept = IF ok THEN mem ELSE removeTx(mem, mem.cursor, ~config.KeepInvalidTxsInCache)
    BY DEF removeTx, Taken
  <1> HIDE DEF cache
  <1>5. /\ kept \in CListMempool /\ Sorted(kept.txs) /\ kept.panic = mem.panic
        /\ kept.cursor = mem.cursor /\ kept.end = mem.end
        /\ kept.notified = mem.notified /\ kept.token = mem.token
        /\ Distinct(kept.cache) /\ Len(kept.cache) <= Len(mem.cache)
        /\ Len(kept.txs) <= Len(mem.txs) /\ kept.txsBytes = Len(kept.txs)
        /\ \/ ToSet(kept.txs) = Pooled /\ kept.txsMap = mem.txsMap /\ ToSet(kept.cache) = Known
           \/ /\ ToSet(kept.txs) = Pooled \ {mem.cursor}
              /\ kept.txsMap = [mem.txsMap EXCEPT ![mem.cursor.tx] = Nil]
              /\ Known \ {mem.cursor.tx} \subseteq ToSet(kept.cache)
    <2>1. CASE ok
      <3>1. kept = mem
        BY <2>1
      <3> HIDE DEF kept
      <3> QED  BY <1>1, <3>1 DEF Pooled, Known
    <2>2. CASE ~ok
      <3> DEFINE n == Taken(mem, mem.cursor, cache)
      <3>0. /\ mem \in CListMempool /\ Sorted(mem.txs) /\ mem.cursor \in ToSet(mem.txs)
            /\ cache \in Seq(Txs)
        BY <1>1, <1>3
      <3>1. /\ n \in CListMempool /\ Sorted(n.txs)
            /\ ToSet(n.txs) = ToSet(mem.txs) \ {mem.cursor}
            /\ n.txsMap = [mem.txsMap EXCEPT ![mem.cursor.tx] = Nil]
        BY <3>0, RemoveTx
      <3>2. /\ Len(n.txs) = Len(mem.txs) - 1 /\ n.txsBytes = mem.txsBytes - 1
        BY <3>0, RemoveTx
      <3>3. /\ n.cache = cache /\ n.cursor = mem.cursor /\ n.end = mem.end
        BY <3>0, RemoveTx
      <3>4. n.notified = mem.notified /\ n.token = mem.token /\ n.panic = mem.panic
        BY <3>0, RemoveTx
      <3>5. kept = n
        BY <2>2
      <3> HIDE DEF kept, n
      <3>6. Len(n.txs) <= Len(mem.txs) /\ n.txsBytes = Len(n.txs)
        BY <1>1, <3>2
      <3>7. Distinct(n.cache) /\ Len(n.cache) <= Len(mem.cache)
            /\ Known \ {mem.cursor.tx} \subseteq ToSet(n.cache)
        BY <1>3, <3>3
      <3> QED  BY <3>1, <3>3, <3>4, <3>5, <3>6, <3>7 DEF Pooled
    <2> QED  BY <2>1, <2>2
  <1> HIDE DEF kept
  <1>6. /\ moved \in CListMempool
        /\ moved.txs = kept.txs /\ moved.txsMap = kept.txsMap /\ moved.txsBytes = kept.txsBytes
        /\ moved.cache = kept.cache /\ moved.cursor = Moved /\ moved.end = kept.end
        /\ moved.notified = kept.notified /\ moved.token = kept.token
        /\ moved.panic = kept.panic
    BY <1>2, <1>5, CursorSet
  <1>7. mem' = IF moved.cursor = Nil /\ moved.txs # <<>> THEN notifyTxsAvailable(moved) ELSE moved
    <2>1. moved = [kept EXCEPT !.cursor = IF @ = mem.end THEN Nil ELSE Next_(mem.txs, @)]
      BY <1>5 DEF Moved
    <2> HIDE DEF moved
    <2> QED  BY <1>4, <2>1 DEF resCbRecheck
  <1> HIDE DEF moved
  <1>8. /\ mem' \in CListMempool
        /\ mem'.txs = kept.txs /\ mem'.txsMap = kept.txsMap /\ mem'.txsBytes = kept.txsBytes
        /\ mem'.cache = kept.cache /\ mem'.cursor = Moved /\ mem'.end = kept.end
        /\ mem'.panic = kept.panic
        /\ \/ mem'.notified /\ mem'.token = (mem.token \/ ~mem.notified)
           \/ /\ mem'.notified = mem.notified /\ mem'.token = mem.token
              /\ Moved # Nil \/ mem'.txs = <<>>
    <2>1. CASE moved.cursor = Nil /\ moved.txs # <<>>
      <3>1. mem' = notifyTxsAvailable(moved)
        BY <1>7, <2>1
      <3>2. /\ mem' \in CListMempool
            /\ mem'.txs = moved.txs /\ mem'.txsMap = moved.txsMap /\ mem'.txsBytes = moved.txsBytes
            /\ mem'.cache = moved.cache /\ mem'.cursor = moved.cursor /\ mem'.end = moved.end
            /\ mem'.notified /\ mem'.token = (moved.token \/ ~moved.notified)
            /\ mem'.panic = moved.panic
        BY <1>6, <2>1, <3>1, Notify
      <3> QED  BY <1>5, <1>6, <3>2
    <2>2. CASE ~(moved.cursor = Nil /\ moved.txs # <<>>)
      <3>1. mem' = moved
        BY <1>7, <2>2
      <3> QED  BY <1>5, <1>6, <2>2, <3>1
    <2> QED  BY <2>1, <2>2
  <1>9. Pooled' = ToSet(kept.txs) /\ Known' = ToSet(kept.cache)
    BY <1>8 DEF Pooled, Known
  <1>10. \/ mem'.notified /\ (mem.notified => mem'.token = mem.token)
                          /\ (~mem.notified => mem'.token)
         \/ /\ mem'.notified = mem.notified /\ mem'.token = mem.token
            /\ Moved # Nil \/ mem'.txs = <<>>
    BY <1>1, <1>8
  <1> QED  BY <1>5, <1>8, <1>9, <1>10

(* A recheck is answered. *)
LEMMA StepRechecked ==
  ASSUME MempoolInv, Response, NEW r, r = Head(cli.reqSent), r.type = "Recheck",
         NEW ok \in BOOLEAN, mem' = resCbRecheck(mem, r.tx, ok), armed' = armed,
         heard' = (heard /\ (mem'.notified => mem.notified))
  PROVE  MempoolInv'
  <1>1. /\ r \in Waiting /\ InOrder(Pipe)'
        /\ Waiting = Waiting' \cup {r} /\ \A q \in Waiting' : Precedes(r, q)
        /\ cli' \in socketClient /\ cli'.reqQueue = cli.reqQueue
        /\ cli'.written <= Len(cli'.reqSent)
        /\ Left' = Left /\ Unsent' = Unsent /\ Locked' /\ commit.at # "UpdateTx"
    BY Received
  <1>2. UNCHANGED <<config, checks, pc, commit, height, committed, evicted>>
    BY DEF Response
  <1>3. /\ mem.cursor # Nil /\ mem.cursor \in Pooled /\ mem.end \in Pooled
        /\ mem.cursor.req = r.req /\ mem.cursor.tx = r.tx
    BY <1>1, RecheckHead
  <1> DEFINE k == mem.cursor
  <1>4. /\ mem' \in CListMempool /\ mem'.panic = mem.panic
        /\ mem'.cursor = Moved /\ mem'.end = mem.end
        /\ Sorted(mem'.txs) /\ Distinct(mem'.cache) /\ Len(mem'.cache) <= Len(mem.cache)
        /\ Len(mem'.txs) <= Len(mem.txs) /\ mem'.txsBytes = Len(mem'.txs)
        /\ \/ Pooled' = Pooled /\ mem'.txsMap = mem.txsMap /\ Known' = Known
           \/ /\ Pooled' = Pooled \ {k}
              /\ mem'.txsMap = [mem.txsMap EXCEPT ![k.tx] = Nil]
              /\ Known \ {k.tx} \subseteq Known'
        /\ \/ mem'.notified /\ (mem.notified => mem'.token = mem.token)
                            /\ (~mem.notified => mem'.token)
           \/ /\ mem'.notified = mem.notified /\ mem'.token = mem.token
              /\ Moved # Nil \/ mem'.txs = <<>>
    <2>1. mem' = resCbRecheck(mem, mem.cursor.tx, ok)
      BY <1>3
    <2> QED  BY <1>3, <2>1, RecheckMem
  <1>5. /\ Moved = Nil => \A e \in Pooled : e.req <= k.req
        /\ Moved # Nil =>
             /\ Moved \in Pooled /\ k.req < Moved.req
             /\ mem.end \in Pooled /\ mem.end # k
             /\ \A e \in Pooled : k.req < e.req => Moved.req <= e.req
    BY <1>3, CursorMoves
  <1>6. /\ \A q \in Waiting' : q.type = "Recheck" => k.req < q.req
        /\ \A e \in Unsent : k.req < e.req
    BY <1>1, <1>3 DEF MempoolInv, Rechecking, Precedes, IsCheck
  <1>7. \A e \in Pooled : e.req \in Nat
    BY InvTypes
  <1> HIDE DEF k
  <1>8. Pooled' \subseteq Pooled /\ \A e \in Pooled : e # k => e \in Pooled'
    BY <1>4
  <1>9. TypeOK'
    <2>1. heard' \in BOOLEAN
      OBVIOUS
    <2> QED  BY <1>1, <1>2, <1>4, <2>1 DEF MempoolInv, TypeOK
  <1>10. NoPanic'
    BY <1>4 DEF MempoolInv, NoPanic
  <1>11. Bounded'
    <2>1. /\ Len(mem'.txs) \in Nat /\ Len(mem.txs) \in Nat /\ Size \in Nat /\ MaxTxsBytes \in Nat
          /\ Len(mem'.cache) \in Nat /\ Len(mem.cache) \in Nat /\ CacheSize \in Nat
      BY <1>4, InvTypes, MemType, MempoolAssumption
    <2>2. Len(mem.txs) <= Size /\ Len(mem.txs) <= MaxTxsBytes /\ Len(mem.cache) <= CacheSize
      BY DEF MempoolInv, Bounded
    <2>3. Len(mem'.txs) <= Size /\ mem'.txsBytes <= MaxTxsBytes /\ Len(mem'.cache) <= CacheSize
      BY <1>4, <2>1, <2>2
    <2> QED  BY <1>1, <1>4, <2>3 DEF MempoolInv, Bounded
  <1>12. Indexed' /\ (Known' = Known \/ (k.tx \notin evicted => \A f \in Pooled' : f.tx # k.tx))
    <2>1. CASE Pooled' = Pooled /\ mem'.txsMap = mem.txsMap /\ Known' = Known
      BY <1>2, <2>1 DEF MempoolInv, Indexed
    <2>2. CASE Pooled' = Pooled \ {k} /\ mem'.txsMap = [mem.txsMap EXCEPT ![k.tx] = Nil]
      <3>1. k \in Pooled /\ evicted \subseteq evicted'
        BY <1>2, <1>3 DEF k
      <3> QED  BY <2>2, <3>1, IndexRemove
    <2> QED  BY <1>4, <2>1, <2>2
  <1>13. Ordered'
    BY <1>1, <1>2, <1>4, <1>8 DEF MempoolInv, Ordered
  <1>14. Rechecking'
    <2>1. ASSUME NEW q \in Waiting', q.type = "Recheck"
          PROVE  Moved # Nil /\ Moved.req <= q.req /\ [tx |-> q.tx, req |-> q.req] \in Pooled'
      <3> DEFINE e == [tx |-> q.tx, req |-> q.req]
      <3>1. e \in Pooled /\ e.req = q.req
        BY <1>1, <2>1 DEF MempoolInv, Rechecking
      <3>2. k.req < q.req
        BY <1>6, <2>1
      <3> HIDE DEF e
      <3>3. k \in Pooled /\ k.req \in Nat /\ e.req \in Nat
        BY <1>3, <1>7, <3>1 DEF k
      <3>4. e # k /\ ~(e.req <= k.req)
        BY <3>1, <3>2, <3>3
      <3>5. e \in Pooled' /\ Moved # Nil /\ Moved.req <= q.req
        BY <1>5, <1>8, <3>1, <3>2, <3>4
      <3> QED  BY <3>5 DEF e
    <2>2. ASSUME NEW e \in Unsent
          PROVE  /\ Moved # Nil /\ Moved.req <= e.req /\ e \in Pooled'
                 /\ \A q \in Waiting' : q.type = "Recheck" => q.req < e.req
      <3>1. e \in Pooled /\ \A q \in Waiting' : q.type = "Recheck" => q.req < e.req
        BY <1>1 DEF MempoolInv, Rechecking
      <3>2. k.req < e.req
        BY <1>6
      <3>3. k \in Pooled /\ k.req \in Nat /\ e.req \in Nat
        BY <1>3, <1>7, <3>1 DEF k
      <3>4. e # k /\ ~(e.req <= k.req)
        BY <3>2, <3>3
      <3> QED  BY <1>5, <1>8, <3>1, <3>2, <3>4
    <2>3. ASSUME Moved # Nil
          PROVE  /\ Moved \in Pooled' /\ mem.end \in Pooled'
                 /\ \A e \in Pooled' :
                      /\ e.req <= mem.end.req
                      /\ Moved.req <= e.req =>
                           e \in Unsent \/ \E q \in Waiting' : q.type = "Recheck" /\ q.req = e.req
      <3>1. k \in Pooled /\ k.req \in Nat /\ Moved.req \in Nat
        BY <1>3, <1>5, <1>7, <2>3 DEF k
      <3>2. Moved # k
        BY <1>5, <2>3, <3>1
      <3>3. Moved \in Pooled' /\ mem.end \in Pooled'
        BY <1>5, <1>8, <2>3, <3>2
      <3>4. \A e \in Pooled' : e.req <= mem.end.req
        BY <1>3, <1>8 DEF MempoolInv, Rechecking
      <3>5. ASSUME NEW e \in Pooled', Moved.req <= e.req
            PROVE  e \in Unsent \/ \E q \in Waiting' : q.type = "Recheck" /\ q.req = e.req
        <4>1. e \in Pooled /\ e.req \in Nat
          BY <1>7, <1>8
        <4>2. k.req <= e.req /\ e.req # k.req
          BY <1>5, <2>3, <3>1, <3>5, <4>1
        <4>3. e \in Unsent \/ \E q \in Waiting : q.type = "Recheck" /\ q.req = e.req
          BY <1>3, <4>1, <4>2 DEF MempoolInv, Rechecking, k
        <4>4. r.req # e.req
          BY <1>3, <4>2 DEF k
        <4> QED  BY <1>1, <4>3, <4>4
      <3> QED  BY <3>3, <3>4, <3>5
    <2> QED  BY <1>1, <1>4, <2>1, <2>2, <2>3 DEF Rechecking
  <1>15. Single'
    <2>1. Waiting' \subseteq Waiting
      BY <1>1
    <2>2. \A t \in Txs : t # k.tx /\ t \in Known => t \in Known'
      BY <1>4 DEF k
    <2>3. \A c \in Callers, t \in Txs : Asks(c, t)' = Asks(c, t)
      BY <1>2 DEF Asks
    <2>4. k \in Pooled /\ k.tx \in Txs
      BY <1>3, InvTypes DEF k
    <2>5. \A t \in Txs \ evicted : \A e \in Pooled' : e.tx = t => t \in Known'
      BY <1>8, <1>12, <2>2, <2>4 DEF MempoolInv, Single
    <2>6. k.tx \notin evicted => k.tx \notin committed
      BY <2>4 DEF MempoolInv, Single
    <2> QED  BY <1>2, <1>8, <2>1, <2>2, <2>3, <2>4, <2>5, <2>6 DEF MempoolInv, Single
  <1>16. Announcing'
    <2>1. heard \in BOOLEAN /\ mem.notified \in BOOLEAN /\ mem'.notified \in BOOLEAN
          /\ mem.token \in BOOLEAN /\ mem'.token \in BOOLEAN
      BY <1>4, InvTypes, MemType DEF MempoolInv, TypeOK
    <2>2. mem.notified => mem.token \/ heard
      BY DEF MempoolInv, Announcing
    <2>3. mem'.notified => mem'.token \/ heard'
      BY <1>4, <2>1, <2>2
    <2>4. mem'.cursor = Nil /\ mem'.txs # <<>> => mem'.notified
      BY <1>4
    <2> QED  BY <2>3, <2>4 DEF Announcing
  <1> QED  BY <1>1, <1>9, <1>10, <1>11, <1>12, <1>13, <1>14, <1>15, <1>16 DEF MempoolInv

(* The oldest request is a first check: no recheck is under way. *)
LEMMA CheckHead ==
  ASSUME MempoolInv, NEW r \in Waiting, r.type = "CheckTx",
         \A q \in Waiting : q = r \/ Precedes(r, q)
  PROVE  mem.cursor = Nil
  <1>1. ASSUME mem.cursor # Nil PROVE FALSE
    <2>1. mem.cursor \in Pooled
      BY <1>1 DEF MempoolInv, Rechecking
    <2>2. mem.cursor.req \in Nat
      BY <2>1, InvTypes
    <2>3. mem.cursor \in Unsent \/ \E q \in Waiting : q.type = "Recheck" /\ q.req = mem.cursor.req
      BY <1>1, <2>1, <2>2 DEF MempoolInv, Rechecking
    <2>4. mem.cursor \notin Unsent
      <3>1. commit.at # "recheckTxs"
        BY DEF MempoolInv, Locked
      <3> QED  BY <3>1 DEF Unsent, Left, ToSet
    <2>5. \A q \in Waiting : q.type # "Recheck"
      BY DEF Precedes, IsCheck
    <2> QED  BY <2>3, <2>4, <2>5
  <1> QED  BY <1>1

(* A first check whose transaction is not added. *)
LEMMA StepCheckedOut ==
  ASSUME MempoolInv, Response, NEW r, r = Head(cli.reqSent), r.type = "CheckTx",
         NEW c \in Seq(Txs), Distinct(c), Len(c) <= CacheSize,
         ToSet(c) \in {Known, Known \ {r.tx}},
         mem' = [mem EXCEPT !.cache = c], armed' \subseteq armed, heard' = heard
  PROVE  MempoolInv'
  <1>1. /\ r \in Waiting /\ InOrder(Pipe)'
        /\ Waiting = Waiting' \cup {r} /\ \A q \in Waiting' : Precedes(r, q)
        /\ IsCheck(r) => r \notin Waiting'
        /\ cli' \in socketClient /\ cli'.reqQueue = cli.reqQueue
        /\ cli'.written <= Len(cli'.reqSent)
        /\ Left' = Left /\ Unsent' = Unsent /\ Locked' /\ commit.at # "UpdateTx"
    BY Received
  <1>2. UNCHANGED <<config, checks, pc, commit, height, committed, evicted>>
    BY DEF Response
  <1>3. /\ mem' \in CListMempool
        /\ mem'.txs = mem.txs /\ mem'.txsMap = mem.txsMap /\ mem'.txsBytes = mem.txsBytes
        /\ mem'.cache = c /\ mem'.cursor = mem.cursor /\ mem'.end = mem.end
        /\ mem'.notified = mem.notified /\ mem'.token = mem.token /\ mem'.panic = mem.panic
    BY InvTypes, CacheSet
  <1>4. Pooled' = Pooled /\ Known' \in {Known, Known \ {r.tx}}
    BY <1>3 DEF Pooled, Known
  <1>5. TypeOK'
    BY <1>1, <1>2, <1>3 DEF MempoolInv, TypeOK
  <1>6. NoPanic' /\ Bounded' /\ Announcing'
    BY <1>1, <1>2, <1>3 DEF MempoolInv, NoPanic, Bounded, Announcing
  <1>7. Indexed'
    BY <1>2, <1>3, <1>4 DEF MempoolInv, Indexed
  <1>8. Ordered'
    BY <1>1, <1>2, <1>3, <1>4 DEF MempoolInv, Ordered
  <1>9. Rechecking'
    BY <1>1, <1>3, <1>4 DEF MempoolInv, Rechecking
  <1>10. Single'
    <2>1. r.tx \in Txs /\ Checked(r, r.tx) /\ r \notin Waiting'
      BY <1>1, InvTypes DEF IsCheck, Checked
    <2>2. \A d \in Callers, t \in Txs : Asks(d, t)' = Asks(d, t)
      BY <1>2 DEF Asks
    <2>3. r.tx \notin evicted =>
            /\ r.tx \notin committed
            /\ \A d \in Callers : ~Asks(d, r.tx)
            /\ \A q \in Waiting' : ~Checked(q, r.tx)
            /\ \A e \in Pooled : e.tx # r.tx
      BY <1>1, <2>1 DEF MempoolInv, Single
    <2>4. Waiting' \subseteq Waiting
      BY <1>1
    <2>5. \A t \in Txs : t # r.tx /\ t \in Known => t \in Known'
      BY <1>4
    <2> QED  BY <1>2, <1>4, <2>2, <2>3, <2>4, <2>5 DEF MempoolInv, Single
  <1> QED  BY <1>1, <1>5, <1>6, <1>7, <1>8, <1>9, <1>10 DEF MempoolInv

(* A first check whose transaction is added. *)
LEMMA StepCheckedIn ==
  ASSUME MempoolInv, Response, NEW r, r = Head(cli.reqSent), r.type = "CheckTx",
         ~isFull(mem), mem.cursor = Nil,
         mem' = notifyTxsAvailable(addTx(mem, [tx |-> r.tx, req |-> r.req])),
         armed' \subseteq armed, heard' = (heard /\ (mem'.notified => mem.notified))
  PROVE  MempoolInv'
  <1>1. /\ r \in Waiting /\ InOrder(Pipe)'
        /\ Waiting = Waiting' \cup {r} /\ \A q \in Waiting' : Precedes(r, q)
        /\ IsCheck(r) => r \notin Waiting'
        /\ cli' \in socketClient /\ cli'.reqQueue = cli.reqQueue
        /\ cli'.written <= Len(cli'.reqSent)
        /\ Left' = Left /\ Unsent' = Unsent /\ Locked' /\ commit.at # "UpdateTx"
    BY Received
  <1>2. UNCHANGED <<config, checks, pc, commit, height, committed, evicted>>
    BY DEF Response
  <1>3. r.tx \in Txs /\ r.req \in Nat /\ IsCheck(r) /\ Checked(r, r.tx)
    BY <1>1, InvTypes DEF IsCheck, Checked
  <1> DEFINE e == [tx |-> r.tx, req |-> r.req]
             a == addTx(mem, e)
  <1>4. e \in Elements /\ e.tx = r.tx /\ e.req = r.req
    BY <1>3 DEF Elements
  <1>5. mem' = notifyTxsAvailable(a)
    OBVIOUS
  <1> HIDE DEF e
  <1>6. /\ mem \in CListMempool /\ Sorted(mem.txs) /\ \A f \in ToSet(mem.txs) : f.req < e.req
        /\ mem.txsMap \in [Txs -> Elements \cup {Nil}]
        /\ Len(mem.txs) \in Nat /\ mem.txsBytes = Len(mem.txs)
    BY <1>1, <1>4, InvTypes, MemType DEF MempoolInv, Ordered, Bounded, Pooled
  <1>7. /\ a \in CListMempool /\ Sorted(a.txs)
        /\ ToSet(a.txs) = Pooled \cup {e}
        /\ Len(a.txs) = Len(mem.txs) + 1 /\ a.txsBytes = mem.txsBytes + 1
        /\ a.txsMap = [mem.txsMap EXCEPT ![e.tx] = e]
        /\ a.cache = mem.cache /\ a.cursor = mem.cursor /\ a.end = mem.end
        /\ a.notified = mem.notified /\ a.token = mem.token /\ a.panic = mem.panic
    BY <1>4, <1>6, AddTx DEF Pooled
  <1> HIDE DEF a
  <1>8. a.txs # <<>>
    BY <1>7 DEF ToSet
  <1>9. /\ mem' \in CListMempool
        /\ mem'.txs = a.txs /\ mem'.txsMap = a.txsMap /\ mem'.txsBytes = a.txsBytes
        /\ mem'.cache = a.cache /\ mem'.cursor = a.cursor /\ mem'.end = a.end
        /\ mem'.notified /\ mem'.token = (a.token \/ ~a.notified) /\ mem'.panic = a.panic
    BY <1>5, <1>7, <1>8, Notify
  <1>10. Pooled' = Pooled \cup {e} /\ Known' = Known
    BY <1>7, <1>9 DEF Pooled, Known
  <1>11. TypeOK'
    <2>1. heard' \in BOOLEAN
      OBVIOUS
    <2> QED  BY <1>1, <1>2, <1>9, <2>1 DEF MempoolInv, TypeOK
  <1>12. NoPanic'
    BY <1>7, <1>9 DEF MempoolInv, NoPanic
  <1>13. Bounded'
    <2>1. Size \in Nat /\ MaxTxsBytes \in Nat
      BY MempoolAssumption
    <2>2. Len(mem.txs) + 1 <= Size /\ mem.txsBytes + 1 <= MaxTxsBytes
      BY <1>6, <2>1 DEF isFull
    <2> QED  BY <1>1, <1>6, <1>7, <1>9, <2>2 DEF MempoolInv, Bounded
  <1>14. r.tx \notin evicted =>
           /\ r.tx \in Known /\ r.tx \notin committed
           /\ \A d \in Callers : ~Asks(d, r.tx)
           /\ \A q \in Waiting' : ~Checked(q, r.tx)
           /\ \A f \in Pooled : f.tx # r.tx
    BY <1>1, <1>3 DEF MempoolInv, Single
  <1>15. Indexed'
    <2>1. \A t \in Txs : mem'.txsMap[t] = IF t = e.tx THEN e ELSE mem.txsMap[t]
      BY <1>6, <1>7, <1>9
    <2>2. \A f \in Pooled : f.tx \in Txs
      BY InvTypes
    <2> QED  BY <1>2, <1>3, <1>4, <1>10, <1>14, <2>1, <2>2 DEF MempoolInv, Indexed
  <1>16. Ordered'
    <2>1. r.req <= checks
      BY <1>1 DEF MempoolInv, Ordered
    <2>2. \A q \in Waiting' : q.type = "CheckTx" => r.req < q.req
      BY <1>1, <1>3 DEF Precedes, IsCheck
    <2> QED  BY <1>1, <1>2, <1>4, <1>7, <1>9, <1>10, <2>1, <2>2 DEF MempoolInv, Ordered
  <1>17. Rechecking'
    <2>1. mem'.cursor = Nil
      BY <1>7, <1>9
    <2>2. (\A q \in Waiting : q.type # "Recheck") /\ Unsent = {}
      BY DEF MempoolInv, Rechecking
    <2> QED  BY <1>1, <2>1, <2>2 DEF Rechecking
  <1>18. Single'
    <2>1. \A d \in Callers, t \in Txs : Asks(d, t)' = Asks(d, t)
      BY <1>2 DEF Asks
    <2>2. Waiting' \subseteq Waiting
      BY <1>1
    <2> QED  BY <1>2, <1>4, <1>10, <1>14, <2>1, <2>2 DEF MempoolInv, Single
  <1>19. Announcing'
    <2>1. heard \in BOOLEAN /\ mem.notified \in BOOLEAN /\ mem.token \in BOOLEAN
      BY InvTypes, MemType DEF MempoolInv, TypeOK
    <2>2. mem.notified => mem.token \/ heard
      BY DEF MempoolInv, Announcing
    <2>3. mem'.token \/ heard'
      BY <1>7, <1>9, <2>1, <2>2
    <2> QED  BY <1>9, <2>3 DEF Announcing
  <1> QED  BY <1>1, <1>11, <1>12, <1>13, <1>15, <1>16, <1>17, <1>18, <1>19 DEF MempoolInv

(* The callbacks of didRecvResponse. *)
LEMMA StepReceiveResponse == MempoolInv /\ ReceiveResponse => MempoolInv'
  <1> SUFFICES ASSUME MempoolInv, ReceiveResponse PROVE MempoolInv'
    OBVIOUS
  <1> DEFINE r == Head(cli.reqSent)
             called == r.type = "CheckTx" /\ r.req \in armed
  <1>0. Response /\ heard' = (heard /\ (mem'.notified => mem.notified))
    BY DEF ReceiveResponse, Response
  <1>1. PICK ok \in (IF r.type \in {"CheckTx", "Recheck"} THEN BOOLEAN ELSE {TRUE}) :
          /\ mem' = IF called THEN reqResCb(globalCb(mem, r, ok), r, ok) ELSE globalCb(mem, r, ok)
          /\ armed' = IF called THEN armed \ {r.req} ELSE armed
    BY DEF ReceiveResponse
  <1>2. ok \in BOOLEAN
    OBVIOUS
  <1>3. /\ r \in Requests /\ r \in Waiting
        /\ \A q \in Waiting : q = r \/ Precedes(r, q)
    BY <1>0, Received
  <1>4. /\ heard \in BOOLEAN /\ mem.notified \in BOOLEAN /\ mem \in CListMempool
        /\ mem.cache \in Seq(Txs) /\ Distinct(mem.cache) /\ Len(mem.cache) <= CacheSize
        /\ Len(mem.cache) \in Nat /\ CacheSize \in Nat
    BY InvTypes, MemType, MempoolAssumption DEF MempoolInv, TypeOK, Bounded
  <1> HIDE DEF r
  <1>5. CASE ~IsCheck(r)
    <2>1. mem' = mem /\ armed' = armed
      BY <1>1, <1>5 DEF globalCb, IsCheck
    <2>2. heard' = heard
      BY <1>0, <1>4, <2>1
    <2> QED  BY <1>0, <1>5, <2>1, <2>2, StepFlushed DEF r
  <1>6. CASE r.type = "Recheck"
    <2>1. mem.cursor # Nil
      BY <1>3, <1>6, RecheckHead
    <2>2. mem' = resCbRecheck(mem, r.tx, ok) /\ armed' = armed
      BY <1>1, <1>6, <2>1 DEF globalCb
    <2> QED  BY <1>0, <1>2, <1>6, <2>2, StepRechecked DEF r
  <1>7. CASE r.type = "CheckTx"
    <2>1. mem.cursor = Nil
      BY <1>3, <1>7, CheckHead
    <2>2. globalCb(mem, r, ok) = mem
      BY <2>1 DEF globalCb
    <2>3. armed' \subseteq armed
      BY <1>1
    <2>4. mem = [mem EXCEPT !.cache = mem.cache]
      BY <1>4 DEF CListMempool
    <2> DEFINE w == Without(mem.cache, r.tx)
    <2>5. w \in Seq(Txs) /\ Distinct(w) /\ Len(w) <= CacheSize /\ ToSet(w) = Known \ {r.tx}
      <3>1. w \in Seq(Txs) /\ Distinct(w) /\ Len(w) <= Len(mem.cache) /\ ToSet(w) = Known \ {r.tx}
        BY <1>4, CacheRemove DEF Known
      <3>2. Len(w) \in Nat
        BY <3>1, LenProperties
      <3> QED  BY <1>4, <3>1, <3>2
    <2>6. \/ mem' = mem \/ mem' = [mem EXCEPT !.cache = w]
          \/ /\ ~isFull(mem)
             /\ mem' = notifyTxsAvailable(addTx(mem, [tx |-> r.tx, req |-> r.req]))
      BY <1>1, <1>2, <2>1, <2>2 DEF reqResCb, resCbFirstTime
    <2> HIDE DEF w
    <2>7. CASE mem' = mem
      <3>1. heard' = heard
        BY <1>0, <1>4, <2>7
      <3>2. mem' = [mem EXCEPT !.cache = mem.cache] /\ ToSet(mem.cache) = Known
        BY <2>4, <2>7 DEF Known
      <3> QED  BY <1>0, <1>4, <1>7, <2>3, <3>1, <3>2, StepCheckedOut DEF r
    <2>8. CASE mem' = [mem EXCEPT !.cache = w]
      <3>1. mem'.notified = mem.notified
        BY <1>4, <2>5, <2>8, CacheSet
      <3>2. heard' = heard
        BY <1>0, <1>4, <3>1
      <3> QED  BY <1>0, <1>7, <2>3, <2>5, <2>8, <3>2, StepCheckedOut DEF r
    <2>9. CASE /\ ~isFull(mem)
               /\ mem' = notifyTxsAvailable(addTx(mem, [tx |-> r.tx, req |-> r.req]))
      BY <1>0, <1>7, <2>1, <2>3, <2>9, StepCheckedIn DEF r
    <2> QED  BY <2>6, <2>7, <2>8, <2>9
  <1> QED  BY <1>5, <1>6, <1>7 DEF IsCheck

-----------------------------------------------------------------------------
(***************************************************************************)
(* The theorems.                                                           *)
(***************************************************************************)
(* The initial states satisfy the invariant. *)
LEMMA InitInv == Init => MempoolInv
  <1> SUFFICES ASSUME Init PROVE MempoolInv
    OBVIOUS
  <1>1. /\ config \in Configs
        /\ mem = [txs |-> <<>>, txsMap |-> [t \in Txs |-> Nil], txsBytes |-> 0,
                  cache |-> <<>>, cursor |-> Nil, end |-> Nil,
                  notified |-> FALSE, token |-> FALSE, panic |-> FALSE]
        /\ cli = [reqQueue |-> <<>>, reqSent |-> <<>>, written |-> 0, timer |-> FALSE]
        /\ armed = {} /\ checks = 0 /\ height = 0
        /\ pc = [c \in Callers |-> Idle] /\ commit = Idle
        /\ heard = FALSE /\ committed = {} /\ evicted = {}
    BY DEF Init
  <1>2. /\ mem.txs = <<>> /\ mem.txsBytes = 0 /\ mem.cache = <<>> /\ mem.cursor = Nil
        /\ ~mem.notified /\ ~mem.panic /\ \A t \in Txs : mem.txsMap[t] = Nil
    BY <1>1
  <1>3. cli.reqQueue = <<>> /\ cli.reqSent = <<>> /\ cli.written = 0
    BY <1>1
  <1>4. commit.at = "idle" /\ Left = <<>>
    BY <1>1 DEF Left, Idle
  <1>5. Pipe = <<>>
    <2>1. <<>> \in Seq(Requests)
      BY EmptySeq
    <2> QED  BY <1>3, <2>1 DEF Pipe
  <1>6. Waiting = {} /\ Unsent = {} /\ Pooled = {} /\ Known = {}
    BY <1>2, <1>4, <1>5 DEF Waiting, Unsent, Pooled, Known, ToSet
  <1>7. TypeOK
    <2>1. mem \in CListMempool
      BY <1>1 DEF CListMempool
    <2>2. cli \in socketClient
      BY <1>1 DEF socketClient
    <2> QED  BY <1>1, <2>1, <2>2 DEF TypeOK
  <1>8. NoPanic /\ Announcing
    BY <1>2 DEF NoPanic, Announcing
  <1>9. Bounded
    <2>1. Size \in Nat /\ MaxTxsBytes \in Nat /\ CacheSize \in Nat /\ reqQueueSize \in Nat
      BY MempoolAssumption
    <2> QED  BY <1>2, <1>3, <2>1 DEF Bounded, Distinct
  <1>10. Indexed
    BY <1>2, <1>6 DEF Indexed
  <1>11. Ordered
    BY <1>2, <1>4, <1>5, <1>6 DEF Ordered, Sorted, InOrder
  <1>12. Rechecking
    BY <1>2, <1>6 DEF Rechecking
  <1>13. Locked
    BY <1>1, <1>4, <1>6 DEF Locked
  <1>14. Single
    <2>1. \A c \in Callers, t \in Txs : ~Asks(c, t)
      BY <1>1 DEF Asks, Idle
    <2> QED  BY <1>1, <1>6, <2>1 DEF Single
  <1> QED  BY <1>7, <1>8, <1>9, <1>10, <1>11, <1>12, <1>13, <1>14 DEF MempoolInv

(* A step that changes nothing. *)
LEMMA StutterInv == MempoolInv /\ UNCHANGED vars => MempoolInv'
  <1> SUFFICES ASSUME MempoolInv, UNCHANGED vars PROVE MempoolInv'
    OBVIOUS
  <1>1. UNCHANGED <<config, mem, cli, armed, checks, pc, commit, height, heard, committed, evicted>>
    BY DEF vars
  <1>2. Pipe' = Pipe /\ Waiting' = Waiting /\ Left' = Left /\ Slots' = Slots
    BY <1>1 DEF Pipe, Waiting, Left, Slots
  <1>3. InOrder(Pipe)'
    BY <1>2 DEF MempoolInv, Ordered
  <1>4. Indexed' /\ Ordered' /\ Rechecking' /\ Single'
    BY <1>1, <1>2, <1>3, Frame
  <1>5. TypeOK' /\ NoPanic' /\ Bounded' /\ Announcing'
    BY <1>1 DEF MempoolInv, TypeOK, NoPanic, Bounded, Announcing
  <1>6. Locked'
    BY <1>1, <1>2 DEF MempoolInv, Locked
  <1> QED  BY <1>4, <1>5, <1>6 DEF MempoolInv

(* Every action keeps the invariant. *)
LEMMA NextInv == ASSUME RoomForRecheck PROVE MempoolInv /\ [Next]_vars => MempoolInv'
  <1> SUFFICES ASSUME MempoolInv, [Next]_vars PROVE MempoolInv'
    OBVIOUS
  <1>1. CASE UNCHANGED vars
    BY <1>1, StutterInv
  <1>2. CASE Next
    <2>1. CASE SendRequest
      BY <2>1, StepSendRequest
    <2>2. CASE FlushTimer
      BY <2>2, StepFlushTimer
    <2>3. CASE ReceiveResponse
      BY <2>3, StepReceiveResponse
    <2>4. ASSUME NEW c \in Callers, NEW t \in Txs, CheckTx(c, t) PROVE MempoolInv'
      BY <2>4, StepCheckTx
    <2>5. ASSUME NEW c \in Callers, CheckTxAsync(c) PROVE MempoolInv'
      BY <2>5, StepCheckTxAsync
    <2>6. ASSUME NEW c \in Callers, CheckTxAsyncFails(c) PROVE MempoolInv'
      BY <2>6, StepCheckTxAsyncFails
    <2>7. ASSUME NEW c \in Callers, SetCallback(c) PROVE MempoolInv'
      BY <2>7, StepSetCallback
    <2>8. CASE FlushAppConn
      BY <2>8, StepFlushAppConn
    <2>9. CASE Update
      BY <2>9, StepUpdate
    <2>10. CASE UpdateTx
      BY <2>10, StepUpdateTx
    <2>11. CASE UpdateEnds
      BY <2>11, StepUpdateEnds
    <2>12. CASE RecheckTx
      BY <2>12, StepRecheckTx
    <2>13. CASE FlushAsync
      BY <2>13, StepFlushAsync
    <2>14. CASE TxsAvailable
      BY <2>14, StepTxsAvailable
    <2> QED  BY <1>2, <2>1, <2>2, <2>3, <2>4, <2>5, <2>6, <2>7, <2>8, <2>9, <2>10, <2>11,
                <2>12, <2>13, <2>14 DEF Next
  <1> QED  BY <1>1, <1>2

(* The invariant of the mempool holds when the queue of the client has     *)
(* room for the rechecks of recheckTxs.                                    *)
THEOREM MempoolInvariant == ASSUME RoomForRecheck PROVE Spec => []MempoolInv
  <1>1. Init => MempoolInv
    BY InitInv
  <1>2. MempoolInv /\ [Next]_vars => MempoolInv'
    BY NextInv
  <1> QED  BY <1>1, <1>2, PTL DEF Spec

(* No response ever makes the callbacks of the mempool panic: the head of  *)
(* the pipe is a recheck of the element under the cursor while a recheck   *)
(* is under way, and else what removeTx removes is in the list and         *)
(* notifyTxsAvailable is called with transactions.                         *)
THEOREM MempoolNeverPanics == ASSUME RoomForRecheck PROVE Spec => []NoPanic
  <1>1. MempoolInv => NoPanic
    BY DEF MempoolInv
  <1> QED  BY <1>1, MempoolInvariant, PTL

(* The index, the list, the size and the limits of CListMempool agree      *)
(* after any sequence of first checks, rechecks and blocks.                *)
THEOREM MempoolIndexed == ASSUME RoomForRecheck PROVE Spec => []IndexMatches
  <1>1. ASSUME MempoolInv PROVE IndexMatches
    <2>1. mem.txs \in Seq(Elements)
      BY <1>1, InvTypes, MemType
    <2>2. \A e \in Pooled : Contains(mem.txs, e)
      BY <2>1, ContainsIs DEF Pooled
    <2>3. \A i \in DOMAIN mem.txs : mem.txs[i] \in Pooled
      BY DEF Pooled, ToSet
    <2>4. \A i \in DOMAIN mem.txs :
            mem.txs[i].tx \in evicted \/ mem.txsMap[mem.txs[i].tx] = mem.txs[i]
      BY <1>1, <2>3 DEF MempoolInv, Indexed
    <2>5. \A t \in Txs : mem.txsMap[t] # Nil =>
            mem.txsMap[t].tx = t /\ Contains(mem.txs, mem.txsMap[t])
      BY <1>1, <2>2 DEF MempoolInv, Indexed
    <2> QED  BY <1>1, <2>4, <2>5 DEF IndexMatches, MempoolInv, Bounded
  <1>2. MempoolInv => IndexMatches
    BY <1>1
  <1> QED  BY <1>2, MempoolInvariant, PTL

(* A transaction that a block has delivered does not come back while the   *)
(* cache has not forgotten it.                                             *)
THEOREM MempoolCommittedStaysOut == ASSUME RoomForRecheck PROVE Spec => []CommittedStaysOut
  <1>1. ASSUME MempoolInv, NEW i \in DOMAIN mem.txs
        PROVE  mem.txs[i].tx \notin committed \ evicted
    <2>1. mem.txs[i] \in Pooled
      BY DEF Pooled, ToSet
    <2>2. mem.txs[i].tx \in Txs
      BY <1>1, <2>1, InvTypes
    <2> QED  BY <1>1, <2>1, <2>2 DEF MempoolInv, Single
  <1>2. MempoolInv => CommittedStaysOut
    BY <1>1 DEF CommittedStaysOut
  <1> QED  BY <1>2, MempoolInvariant, PTL

(* A mempool with transactions has announced them to consensus once Update *)
(* and the recheck are over.                                               *)
THEOREM MempoolAnnounces == ASSUME RoomForRecheck PROVE Spec => []Announced
  <1>1. MempoolInv => Announced
    BY DEF MempoolInv, Announcing, Announced, Idle
  <1> QED  BY <1>1, MempoolInvariant, PTL

=============================================================================
