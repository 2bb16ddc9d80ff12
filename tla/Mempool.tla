------------------------------- MODULE Mempool -------------------------------
(***************************************************************************)
(* The mempool of a Tendermint node (CListMempool) and the socket client   *)
(* through which it asks the application about every transaction.  Five    *)
(* kinds of goroutines meet here: callers of CheckTx (the RPC, the         *)
(* reactor), the client's sendRequestsRoutine and recvResponseRoutine,     *)
(* which runs the callbacks of the mempool, the consensus routine, which   *)
(* commits a block under the mempool's write lock, and the application,    *)
(* which answers in the order of the requests and is otherwise free.       *)
(*                                                                         *)
(* Every transaction has one unit of size.  The limit on a single          *)
(* transaction, preCheck, postCheck and the mempool's own WAL only reject  *)
(* a transaction as the application may, and are left out.                 *)
(***************************************************************************)
EXTENDS Integers, Sequences, FiniteSets, SequencesExt

CONSTANTS
  Txs, Nil,
  Callers,
  Configs,      \* the values of [Recheck, KeepInvalidTxsInCache] to start with
  Size, MaxTxsBytes, CacheSize,
  reqQueueSize, \* capacity of the client's request queue
  MaxChecks,    \* bound: requests of CheckTx
  MaxHeight,    \* bound: committed blocks
  MaxBlockTxs   \* bound: transactions of a block

ASSUME MempoolAssumption ==
  /\ Nil \notin [tx : Txs, req : Nat]
  /\ Configs \subseteq [Recheck : BOOLEAN, KeepInvalidTxsInCache : BOOLEAN]
  /\ {Size, MaxTxsBytes, CacheSize, reqQueueSize} \subseteq Nat \ {0}
  /\ {MaxChecks, MaxHeight, MaxBlockTxs} \subseteq Nat

VARIABLES
  config,   \* MempoolConfig
  mem,      \* CListMempool
  cli,      \* socketClient
  armed,    \* the requests whose callback has been set and has not run
  checks,   \* requests of CheckTx so far; each is the name of its request
  pc,       \* of each caller: where it is, its transaction, its request
  commit,   \* of the consensus routine: where it is, what is left to recheck
  height,   \* committed blocks
  heard,    \* history: consensus took a token after the last announcement
  committed,\* history: transactions whose last delivery succeeded
  evicted   \* history: transactions that the LRU cache has forgotten

vars == <<config, mem, cli, armed, checks, pc, commit, height, heard, committed, evicted>>

(* A CElement: its transaction and the request that brought it. *)
Elements == [tx : Txs, req : Nat]
(* A request carries a transaction only; req tells which request of CheckTx *)
(* it is, or for which element a recheck was made.                          *)
Requests == [type : {"CheckTx", "Recheck"}, tx : Txs, req : Nat]
              \cup [type : {"Flush", "FlushSync"}]
Idle == [at |-> "idle"]
Deliveries == [tx : Txs, ok : BOOLEAN]

CListMempool ==
  [txs : Seq(Elements), txsMap : [Txs -> Elements \cup {Nil}], txsBytes : Int,
   cache : Seq(Txs), cursor : Elements \cup {Nil}, end : Elements \cup {Nil},
   notified : BOOLEAN, token : BOOLEAN, panic : BOOLEAN]
socketClient ==
  [reqQueue : Seq(Requests), reqSent : Seq(Requests), written : Nat, timer : BOOLEAN]

TypeOK ==
  /\ config \in Configs
  /\ mem \in CListMempool /\ cli \in socketClient
  /\ pc \in [Callers -> {Idle} \cup [at : {"CheckTxAsync"}, tx : Txs]
                         \cup [at : {"SetCallback"}, req : Nat]]
  /\ commit \in {Idle} \cup [at : {"Update"}] \cup [at : {"UpdateTx"}, left : Seq(Deliveries)]
                \cup [at : {"recheckTxs"}, left : Seq(Elements)]
  /\ armed \subseteq Nat /\ checks \in Nat /\ height \in Nat
  /\ heard \in BOOLEAN /\ committed \subseteq Txs /\ evicted \subseteq Txs

Init ==
  /\ config \in Configs
  /\ mem = [txs |-> <<>>, txsMap |-> [t \in Txs |-> Nil], txsBytes |-> 0,
            cache |-> <<>>, cursor |-> Nil, end |-> Nil,
            notified |-> FALSE, token |-> FALSE, panic |-> FALSE]
  /\ cli = [reqQueue |-> <<>>, reqSent |-> <<>>, written |-> 0, timer |-> FALSE]
  /\ armed = {} /\ checks = 0 /\ height = 0
  /\ pc = [c \in Callers |-> Idle] /\ commit = Idle
  /\ heard = FALSE /\ committed = {} /\ evicted = {}

-----------------------------------------------------------------------------
(* The lists of the cache and of the mempool hold a value once at most:    *)
(* its place, and the list once it is removed there.                       *)
Place(s, x) == CHOOSE i \in DOMAIN s : s[i] = x
Without(s, x) == IF Contains(s, x) THEN RemoveAt(s, Place(s, x)) ELSE s

(* mapTxCache: the least recently pushed transaction is at the front. *)

Push(cache, t) ==
  Append(IF ~Contains(cache, t) /\ Len(cache) >= CacheSize THEN Tail(cache)
         ELSE Without(cache, t), t)

(* CListMempool, as functions of its state m. *)

isFull(m) == Len(m.txs) >= Size \/ 1 + m.txsBytes > MaxTxsBytes

addTx(m, e) ==
  [m EXCEPT !.txs = Append(@, e), !.txsMap[e.tx] = e, !.txsBytes = @ + 1]

\* Mutant of removeTx: the index keeps the removed element.
removeTxUnindexed(m, e, removeFromCache) ==
  [m EXCEPT !.txs = Without(@, e), !.txsBytes = @ - 1,
            !.cache = IF removeFromCache THEN Without(@, e.tx) ELSE @]

removeTx(m, e, removeFromCache) ==
  [m EXCEPT !.txs = Without(@, e), !.txsMap[e.tx] = Nil, !.txsBytes = @ - 1,
            !.cache = IF removeFromCache THEN Without(@, e.tx) ELSE @,
            !.panic = @ \/ ~Contains(m.txs, e)]

notifyTxsAvailable(m) ==
  [m EXCEPT !.panic = @ \/ m.txs = <<>>, !.notified = TRUE, !.token = @ \/ ~m.notified]

(* CElement.Next; an element keeps its successor when it is removed. *)
Next_(txs, e) ==
  IF Place(txs, e) = Len(txs) THEN Nil ELSE txs[Place(txs, e) + 1]

resCbFirstTime(m, r, ok) ==
  CASE ~ok       -> IF config.KeepInvalidTxsInCache THEN m ELSE [m EXCEPT !.cache = Without(@, r.tx)]
    [] ok /\ isFull(m)  -> [m EXCEPT !.cache = Without(@, r.tx)]
    [] ok /\ ~isFull(m) -> notifyTxsAvailable(addTx(m, [tx |-> r.tx, req |-> r.req]))

reqResCb(m, r, ok) ==
  IF m.cursor # Nil THEN [m EXCEPT !.panic = TRUE] ELSE resCbFirstTime(m, r, ok)

\* Mutants of resCbRecheck: the end of the recheck is announced when nothing
\* is left too, or never.
resCbRecheckAlways(m, t, ok) ==
  LET kept == IF ok THEN m ELSE removeTx(m, m.cursor, ~config.KeepInvalidTxsInCache)
      moved == [kept EXCEPT !.cursor = IF @ = m.end THEN Nil ELSE Next_(m.txs, @)]
  IN  IF moved.cursor = Nil THEN notifyTxsAvailable(moved) ELSE moved

resCbRecheckSilent(m, t, ok) ==
  LET kept == IF ok THEN m ELSE removeTx(m, m.cursor, ~config.KeepInvalidTxsInCache)
  IN  IF t # m.cursor.tx THEN [m EXCEPT !.panic = TRUE]
      ELSE [kept EXCEPT !.cursor = IF @ = m.end THEN Nil ELSE Next_(m.txs, @)]

resCbRecheck(m, t, ok) ==
  IF t # m.cursor.tx THEN [m EXCEPT !.panic = TRUE] ELSE
  LET kept == IF ok THEN m ELSE removeTx(m, m.cursor, ~config.KeepInvalidTxsInCache)
      moved == [kept EXCEPT !.cursor = IF @ = m.end THEN Nil ELSE Next_(m.txs, @)]
  IN  IF moved.cursor = Nil /\ moved.txs # <<>> THEN notifyTxsAvailable(moved) ELSE moved

globalCb(m, r, ok) ==
  IF m.cursor = Nil \/ r.type \notin {"CheckTx", "Recheck"} THEN m ELSE resCbRecheck(m, r.tx, ok)

(* Update, for one transaction of the block and its DeliverTx result. *)
Delivered(m, d) ==
  LET seen == [m EXCEPT !.cache = IF d.ok THEN Push(@, d.tx)
                                  ELSE IF config.KeepInvalidTxsInCache THEN @
                                  ELSE Without(@, d.tx)]
  IN  IF m.txsMap[d.tx] = Nil THEN seen ELSE removeTx(seen, m.txsMap[d.tx], FALSE)

-----------------------------------------------------------------------------
(* socketClient *)

HasRoom(q) == Len(q) < reqQueueSize

(* queueRequest, when there is room for the request. *)
Queued(r) ==
  [cli EXCEPT !.reqQueue = Append(@, r), !.timer = r.type \notin {"Flush", "FlushSync"}]

InFlight == ToSet(cli.reqQueue) \cup ToSet(cli.reqSent)

\* Mutant of SendRequest: a flush stays in the buffer too.
SendUnwritten ==
  /\ cli.reqQueue # <<>>
  /\ cli' = [cli EXCEPT !.reqQueue = Tail(@), !.reqSent = Append(@, Head(cli.reqQueue))]
  /\ UNCHANGED <<config, mem, armed, checks, pc, commit, height, heard, committed, evicted>>

(* sendRequestsRoutine: a request goes to a buffered writer, and a flush   *)
(* writes the buffer out.                                                  *)
SendRequest ==
  /\ cli.reqQueue # <<>>
  /\ LET r == Head(cli.reqQueue)
         sent == Append(cli.reqSent, r)
     IN  cli' = [cli EXCEPT !.reqQueue = Tail(@), !.reqSent = sent,
                            !.written = IF r.type \in {"Flush", "FlushSync"} THEN Len(sent) ELSE @]
  /\ UNCHANGED <<config, mem, armed, checks, pc, commit, height, heard, committed, evicted>>

FlushTimer ==
  /\ cli.timer
  /\ cli' = [cli EXCEPT !.timer = FALSE,
                        !.reqQueue = IF HasRoom(@) THEN Append(@, [type |-> "Flush"]) ELSE @]
  /\ UNCHANGED <<config, mem, armed, checks, pc, commit, height, heard, committed, evicted>>

(* didRecvResponse: the application answers the oldest request, and the    *)
(* global and then the request's own callback run in the receive routine.  *)
(* The writer may also have written a full buffer without a flush.         *)
ReceiveResponse ==
  /\ cli.reqSent # <<>>
  /\ LET r == Head(cli.reqSent)
     IN  \E ok \in (IF r.type \in {"CheckTx", "Recheck"} THEN BOOLEAN ELSE {TRUE}) :
           LET called == r.type = "CheckTx" /\ r.req \in armed
               global == globalCb(mem, r, ok)
           IN  /\ mem' = IF called THEN reqResCb(global, r, ok) ELSE global
               /\ armed' = IF called THEN armed \ {r.req} ELSE armed
  /\ cli' = [cli EXCEPT !.reqSent = Tail(@), !.written = IF @ = 0 THEN 0 ELSE @ - 1]
  /\ heard' = (heard /\ (mem'.notified => mem.notified))
  /\ UNCHANGED <<config, checks, pc, commit, height, committed, evicted>>

-----------------------------------------------------------------------------
(* CheckTx: the caller holds the read lock from its first step to its last. *)

Evicted(t) == IF Contains(mem.cache, t) THEN {} ELSE ToSet(mem.cache) \ ToSet(Push(mem.cache, t))

CheckTx(c, t) ==
  /\ pc[c] = Idle /\ commit = Idle
  /\ checks + Cardinality({d \in Callers : pc[d].at = "CheckTxAsync"}) < MaxChecks
  /\ ~isFull(mem)
  /\ mem' = [mem EXCEPT !.cache = Push(@, t)]
  /\ evicted' = evicted \cup Evicted(t)
  /\ pc' = IF Contains(mem.cache, t) THEN pc
           ELSE [pc EXCEPT ![c] = [at |-> "CheckTxAsync", tx |-> t]]
  /\ UNCHANGED <<config, cli, armed, checks, commit, height, heard, committed>>

CheckTxAsync(c) ==
  /\ pc[c].at = "CheckTxAsync"
  /\ HasRoom(cli.reqQueue)
  /\ checks' = checks + 1
  /\ cli' = Queued([type |-> "CheckTx", tx |-> pc[c].tx, req |-> checks'])
  /\ pc' = [pc EXCEPT ![c] = [at |-> "SetCallback", req |-> checks']]
  /\ UNCHANGED <<config, mem, armed, commit, height, heard, committed, evicted>>

(* "buffer is full" *)
CheckTxAsyncFails(c) ==
  /\ pc[c].at = "CheckTxAsync"
  /\ ~HasRoom(cli.reqQueue)
  /\ mem' = [mem EXCEPT !.cache = Without(@, pc[c].tx)]
  /\ pc' = [pc EXCEPT ![c] = Idle]
  /\ UNCHANGED <<config, cli, armed, checks, commit, height, heard, committed, evicted>>

(* The socket client never marks a request as done, so that a callback     *)
(* that is set after the response is only stored.                          *)
SetCallback(c) ==
  /\ pc[c].at = "SetCallback"
  /\ armed' = armed \cup {pc[c].req}
  /\ pc' = [pc EXCEPT ![c] = Idle]
  /\ UNCHANGED <<config, mem, cli, checks, commit, height, heard, committed, evicted>>

-----------------------------------------------------------------------------
(* The consensus routine: Commit of the BlockExecutor, and TxsAvailable. *)

(* Lock and the blocking send of FlushSync. *)
FlushAppConn ==
  /\ commit = Idle /\ height < MaxHeight
  /\ \A c \in Callers : pc[c] = Idle
  /\ HasRoom(cli.reqQueue)
  /\ cli' = Queued([type |-> "FlushSync"])
  /\ commit' = [at |-> "Update"]
  /\ UNCHANGED <<config, mem, armed, checks, pc, height, heard, committed, evicted>>

Blocks == {b \in SeqOf(Deliveries, MaxBlockTxs) :
             \A i, j \in DOMAIN b : b[i].tx = b[j].tx => i = j}

\* Mutant of Flushed: the flush is not waited for.
NotAwaited == TRUE

Flushed == [type |-> "FlushSync"] \notin InFlight

(* Update: the height and the block, which it goes through transaction by  *)
(* transaction; then what is left is rechecked or announced.               *)
Update ==
  /\ commit.at = "Update"
  /\ Flushed
  /\ \E b \in Blocks : commit' = [at |-> "UpdateTx", left |-> b]
  /\ mem' = [mem EXCEPT !.notified = FALSE]
  /\ heard' = FALSE
  /\ height' = height + 1
  /\ UNCHANGED <<config, cli, armed, checks, pc, committed, evicted>>

UpdateTx ==
  /\ commit.at = "UpdateTx" /\ commit.left # <<>>
  /\ LET d == Head(commit.left)
     IN  /\ mem' = Delivered(mem, d)
         /\ committed' = IF d.ok THEN committed \cup {d.tx} ELSE committed \ {d.tx}
         /\ evicted' = IF d.ok THEN evicted \cup Evicted(d.tx) ELSE evicted
  /\ commit' = [commit EXCEPT !.left = Tail(@)]
  /\ UNCHANGED <<config, cli, armed, checks, pc, height, heard>>

UpdateEnds ==
  /\ commit.at = "UpdateTx" /\ commit.left = <<>>
  /\ LET recheck == mem.txs # <<>> /\ config.Recheck
     IN  /\ mem' = IF mem.txs = <<>> THEN mem
                   ELSE IF recheck THEN [mem EXCEPT !.cursor = Head(mem.txs), !.end = Last(mem.txs)]
                   ELSE notifyTxsAvailable(mem)
         /\ commit' = IF recheck THEN [at |-> "recheckTxs", left |-> mem.txs] ELSE Idle
  /\ UNCHANGED <<config, cli, armed, checks, pc, height, heard, committed, evicted>>

(* recheckTxs: a request that finds the queue full is skipped. *)
RecheckTx ==
  /\ commit.at = "recheckTxs" /\ commit.left # <<>>
  /\ commit' = [commit EXCEPT !.left = Tail(@)]
  /\ cli' = IF HasRoom(cli.reqQueue)
            THEN Queued([type |-> "Recheck", tx |-> Head(commit.left).tx,
                         req |-> Head(commit.left).req]) ELSE cli
  /\ UNCHANGED <<config, mem, armed, checks, pc, height, heard, committed, evicted>>

(* FlushAsync at the end of recheckTxs, and Unlock. *)
FlushAsync ==
  /\ commit.at = "recheckTxs" /\ commit.left = <<>>
  /\ commit' = Idle
  /\ cli' = IF HasRoom(cli.reqQueue) THEN Queued([type |-> "Flush"]) ELSE cli
  /\ UNCHANGED <<config, mem, armed, checks, pc, height, heard, committed, evicted>>

TxsAvailable ==
  /\ commit = Idle
  /\ mem.token
  /\ mem' = [mem EXCEPT !.token = FALSE]
  /\ heard' = TRUE
  /\ UNCHANGED <<config, cli, armed, checks, pc, commit, height, committed, evicted>>

-----------------------------------------------------------------------------
Next ==
  /\ ~mem.panic
  /\ \/ SendRequest \/ FlushTimer \/ ReceiveResponse
     \/ \E c \in Callers :
          \/ \E t \in Txs : CheckTx(c, t)
          \/ CheckTxAsync(c) \/ CheckTxAsyncFails(c) \/ SetCallback(c)
     \/ FlushAppConn \/ Update \/ UpdateTx \/ UpdateEnds \/ RecheckTx \/ FlushAsync \/ TxsAvailable

(* The routines of the client and the consensus routine inside Commit do   *)
(* not stop; the application answers what has been written to it.          *)
Spec ==
  /\ Init /\ [][Next]_vars
  /\ WF_vars(SendRequest) /\ WF_vars(FlushTimer)
  /\ WF_vars(cli.written > 0 /\ ReceiveResponse)
  /\ WF_vars(RecheckTx) /\ WF_vars(FlushAsync)

-----------------------------------------------------------------------------
(* No response reaches the mempool in an order it panics at: while         *)
(* recheckCursor is set only the rechecks of recheckTxs are answered, each *)
(* for the transaction under the cursor, no element is removed twice, and  *)
(* notifyTxsAvailable is never called on an empty mempool.                 *)
NoPanic == ~mem.panic

(* The index, the list and the size agree after any sequence of first      *)
(* checks, rechecks and blocks, within the limits that CheckTx tests long  *)
(* before it adds the transaction.  Only a transaction that the LRU cache  *)
(* forgot while it was in the mempool can be there twice.                  *)
IndexMatches ==
  /\ TypeOK
  /\ Len(mem.txs) <= Size /\ mem.txsBytes <= MaxTxsBytes
  /\ mem.txsBytes = Len(mem.txs)
  /\ Len(mem.cache) <= CacheSize /\ Len(cli.reqQueue) <= reqQueueSize
  /\ cli.written <= Len(cli.reqSent)
  /\ \A t \in Txs : mem.txsMap[t] # Nil => mem.txsMap[t].tx = t /\ Contains(mem.txs, mem.txsMap[t])
  /\ \A i \in DOMAIN mem.txs : LET e == mem.txs[i] IN e.tx \in evicted \/ mem.txsMap[e.tx] = e

(* A transaction that a block has delivered does not come back: every      *)
(* check of it that was on its way when the block was committed has ended  *)
(* before Update removes it, and the cache turns away the later ones.      *)
CommittedStaysOut ==
  \A i \in DOMAIN mem.txs : mem.txs[i].tx \notin committed \ evicted

(* Transactions are never left unannounced: once Update and the recheck    *)
(* are over, a mempool with transactions has told consensus so at this     *)
(* height, and the token is still in the channel or was taken since.       *)
Announced ==
  commit = Idle /\ mem.cursor = Nil /\ mem.txs # <<>> => mem.notified /\ (mem.token \/ heard)

(* Every recheck comes to its end, without which no transaction could be   *)
(* added again.                                                            *)
RecheckEnds == mem.cursor # Nil ~> mem.cursor = Nil
=============================================================================
