---------------------------- MODULE TestExecution ----------------------------
(***************************************************************************)
(* A run of netrix's TestingServer: the main goroutine (execute) that runs *)
(* the test cases one after the other, the pollEvents goroutine that steps *)
(* the current test case with the events of the replicas, one goroutine    *)
(* per step that dispatches the messages the step returned, the handlers   *)
(* of the API server, and the replicas, which are external.                *)
(*                                                                         *)
(* The event queue is used by what Multicast says of it: an event that was *)
(* added is queued, Flush erases what is queued, and what was handed over  *)
(* (to a sending goroutine or to the channel) survives Flush and arrives   *)
(* in any order.  Conditions and filters are user code: what they decide   *)
(* is a nondeterministic choice among the actions of testlib/actions.go.   *)
(* Every event is the MessageSend event of a message; it carries the       *)
(* message.  life, the number of restarts of the sender when it sent the   *)
(* message, is not in the code: the properties speak of it.                *)
(***************************************************************************)
EXTENDS Integers, Sequences, FiniteSets

CONSTANTS Replicas,   \* the replicas; NumReplicas of the configuration is their number
          TestCases,  \* srv.testCases
          Filters,    \* what the filters of the test cases may do
          MaxPosts,   \* bound: messages posted by one replica
          MaxCrafts,  \* bound: messages crafted by one Context
          MayFail,    \* may a request to a replica fail?
          MayQuit     \* may Stop be called?

FilterKinds == {"deliver", "drop", "store", "deliverAll", "craft", "end"}

ASSUME ExecutionAssumption ==
  /\ IsFiniteSet(Replicas) /\ IsFiniteSet(TestCases)
  /\ Filters \subseteq FilterKinds
  /\ MaxPosts \in Nat /\ MaxCrafts \in Nat
  /\ MayFail \in BOOLEAN /\ MayQuit \in BOOLEAN

NoTestCase == "nil"
ASSUME NilAssumption == NoTestCase \notin TestCases

IDs == ({"post"} \X Replicas \X (1 .. MaxPosts)) \cup
       ({"change"} \X Replicas \X (1 .. MaxCrafts))
Messages == [id : IDs, life : Nat]

VARIABLES
  pc,         \* where execute is
  left,       \* test cases its range loop has still to visit
  cur,        \* its testcase
  driver,     \* executionState.testcaseDriver
  allow,      \* executionState.allowEvents
  machine,    \* current state of each test case's state machine
  ended,      \* test cases whose doneCh is closed
  verdict,    \* what execute logged for each test case
  held,       \* message set kept by the Context of each test case
  counter,    \* Context.counter of each test case
  poll,       \* pollEvents: where it is, its e and its testcaseDriver
  queued,     \* events in the slice of the event queue
  handed,     \* events handed over to the subscriber testingServer
  pool,       \* RootContext.MessageStore
  outbox,     \* goroutines in dispatchMessages
  dispatched, \* Dispatcher.dispatchedMessages
  sent,       \* number of requests made to a replica with each ID
  rejected,   \* messages refused with ErrDuplicateDispatch
  store,      \* ReplicaStore: "unknown", "registered" or "ready"
  life,       \* number of restarts of each replica
  posts,      \* number of messages posted by each replica
  posting,    \* message whose MessageSend event the replica has still to post
  directive,  \* RESTART request of RestartAll to each replica
  late,       \* events received from eventCh since Block
  quit        \* QuitCh() is closed

mainVars == <<pc, left, cur, verdict>>
stateVars == <<driver, allow>>
caseVars == <<machine, ended, held, counter>>
dispatchVars == <<outbox, dispatched, sent, rejected>>
replicaVars == <<store, life, posts, posting, directive>>
vars == <<mainVars, stateVars, caseVars, poll, queued, handed, pool,
          dispatchVars, replicaVars, late, quit>>

Idle == [at |-> "check", e |-> <<>>, d |-> NoTestCase]

Init ==
  /\ pc = "connect" /\ left = TestCases /\ cur = NoTestCase
  /\ verdict = [t \in TestCases |-> "none"]
  /\ driver = NoTestCase /\ allow = FALSE
  /\ machine = [t \in TestCases |-> "start"]
  /\ ended = {}
  /\ held = [t \in TestCases |-> {}]
  /\ counter = [t \in TestCases |-> 0]
  /\ poll = [Idle EXCEPT !.at = "off"]
  /\ queued = {} /\ handed = {} /\ pool = {}
  /\ outbox = {} /\ dispatched = {}
  /\ sent = [i \in IDs |-> 0]
  /\ rejected = {}
  /\ store = [r \in Replicas |-> "unknown"]
  /\ life = [r \in Replicas |-> 0]
  /\ posts = [r \in Replicas |-> 0]
  /\ posting = [r \in Replicas |-> <<>>]
  /\ directive = [r \in Replicas |-> "none"]
  /\ late = 0
  /\ quit = FALSE

(***************************************************************************)
(* types.ReplicaStore.                                                     *)
(***************************************************************************)
Count == Cardinality({r \in Replicas : store[r] # "unknown"})
NumReady == Cardinality({r \in Replicas : store[r] = "ready"})
NumReplicas == Cardinality(Replicas)

(***************************************************************************)
(* TestingServer.execute.                                                  *)
(***************************************************************************)
\* Mutant of Connected: the goroutines start with events allowed.
ConnectedUnblocked ==
  /\ pc = "connect"
  /\ Count = NumReplicas
  /\ pc' = "next"
  /\ poll' = Idle
  /\ allow' = TRUE
  /\ UNCHANGED <<left, cur, verdict, driver, caseVars, queued, handed, pool,
                 dispatchVars, replicaVars, late, quit>>

Connected ==
  /\ pc = "connect"
  /\ Count = NumReplicas
  /\ pc' = "next"
  /\ poll' = Idle
  /\ UNCHANGED <<left, cur, verdict, stateVars, caseVars, queued, handed, pool,
                 dispatchVars, replicaVars, late, quit>>

ConnectQuit ==
  /\ pc = "connect"
  /\ quit
  /\ pc' = "returned"
  /\ UNCHANGED <<left, cur, verdict, stateVars, caseVars, poll, queued, handed, pool,
                 dispatchVars, replicaVars, late, quit>>

\* The replicas are ready; executionState.NewTestCase makes a driver with a
\* fresh Context.
NewTestCase(t) ==
  /\ pc = "next"
  /\ t \in left
  /\ NumReady = NumReplicas
  /\ left' = left \ {t}
  /\ cur' = t
  /\ driver' = t
  /\ pc' = "unblock"
  /\ UNCHANGED <<verdict, allow, caseVars, poll, queued, handed, pool,
                 dispatchVars, replicaVars, late, quit>>

Unblock ==
  /\ pc = "unblock"
  /\ allow' = TRUE
  /\ late' = 0
  /\ pc' = "wait"
  /\ UNCHANGED <<left, cur, verdict, driver, caseVars, poll, queued, handed, pool,
                 dispatchVars, replicaVars, quit>>

\* Mutant of Complete: a test case that ended is not finalized.
CompleteUnfinalized ==
  /\ pc = "wait"
  /\ cur \in ended
  /\ pc' = "restart"
  /\ UNCHANGED <<left, cur, verdict, stateVars, caseVars, poll, queued, handed, pool,
                 dispatchVars, replicaVars, late, quit>>

\* The select: doneCh is closed, or the timeout of the test case fires.
Complete ==
  /\ pc = "wait"
  /\ cur \in ended
  /\ pc' = "block"
  /\ UNCHANGED <<left, cur, verdict, stateVars, caseVars, poll, queued, handed, pool,
                 dispatchVars, replicaVars, late, quit>>

\* Mutant of Timeout: the select has no case for the timer.
NoTimeout == FALSE /\ UNCHANGED vars

Timeout ==
  /\ pc = "wait"
  /\ pc' = "block"
  /\ UNCHANGED <<left, cur, verdict, stateVars, caseVars, poll, queued, handed, pool,
                 dispatchVars, replicaVars, late, quit>>

WaitQuit ==
  /\ pc = "wait"
  /\ quit
  /\ pc' = "finish"
  /\ UNCHANGED <<left, cur, verdict, stateVars, caseVars, poll, queued, handed, pool,
                 dispatchVars, replicaVars, late, quit>>

Block ==
  /\ pc = "block"
  /\ allow' = FALSE
  /\ pc' = "assert"
  /\ UNCHANGED <<left, cur, verdict, driver, caseVars, poll, queued, handed, pool,
                 dispatchVars, replicaVars, late, quit>>

assert ==
  /\ pc = "assert"
  /\ verdict' = [verdict EXCEPT ![cur] =
                   IF machine[cur] = "success" THEN "succeed" ELSE "fail"]
  /\ pc' = "restart"
  /\ UNCHANGED <<left, cur, stateVars, caseVars, poll, queued, handed, pool,
                 dispatchVars, replicaVars, late, quit>>

(***************************************************************************)
(* Dispatcher.RestartAll: one goroutine per replica sends the directive;   *)
(* the results are collected until the first error.                        *)
(***************************************************************************)
RestartAll ==
  /\ pc = "restart"
  /\ directive' = [r \in Replicas |-> "sent"]
  /\ pc' = "collect"
  /\ UNCHANGED <<left, cur, verdict, stateVars, caseVars, poll, queued, handed, pool,
                 dispatchVars, store, life, posts, posting, late, quit>>

\* Mutant of CollectAll: one reply is enough.
CollectOne ==
  /\ pc = "collect"
  /\ \E r \in Replicas : directive[r] = "ok"
  /\ pc' = "flush"
  /\ UNCHANGED <<left, cur, verdict, stateVars, caseVars, poll, queued, handed, pool,
                 dispatchVars, replicaVars, late, quit>>

CollectAll ==
  /\ pc = "collect"
  /\ \A r \in Replicas : directive[r] = "ok"
  /\ pc' = "flush"
  /\ UNCHANGED <<left, cur, verdict, stateVars, caseVars, poll, queued, handed, pool,
                 dispatchVars, replicaVars, late, quit>>

CollectError ==
  /\ pc = "collect"
  /\ \E r \in Replicas : directive[r] = "failed"
  /\ pc' = "finish"
  /\ UNCHANGED <<left, cur, verdict, stateVars, caseVars, poll, queued, handed, pool,
                 dispatchVars, replicaVars, late, quit>>

\* RootContext.Reset: the queues are flushed, then the stores are emptied.
ResetFlush ==
  /\ pc = "flush"
  /\ queued' = {}
  /\ pc' = "clear"
  /\ UNCHANGED <<left, cur, verdict, stateVars, caseVars, poll, handed, pool,
                 dispatchVars, replicaVars, late, quit>>

ResetRemoveAll ==
  /\ pc = "clear"
  /\ pool' = {}
  /\ pc' = "next"
  /\ UNCHANGED <<left, cur, verdict, stateVars, caseVars, poll, queued, handed,
                 dispatchVars, replicaVars, late, quit>>

\* close(srv.doneCh): the loop ended or was left.
CloseDone ==
  /\ pc = "finish" \/ (pc = "next" /\ left = {})
  /\ pc' = "done"
  /\ UNCHANGED <<left, cur, verdict, stateVars, caseVars, poll, queued, handed, pool,
                 dispatchVars, replicaVars, late, quit>>

execute ==
  \/ Connected \/ ConnectQuit
  \/ \E t \in TestCases : NewTestCase(t)
  \/ Unblock \/ Complete \/ Timeout \/ WaitQuit \/ Block \/ assert
  \/ RestartAll \/ CollectAll \/ CollectError
  \/ ResetFlush \/ ResetRemoveAll \/ CloseDone

(***************************************************************************)
(* pollEvents.                                                             *)
(***************************************************************************)
\* Mutant of PollCheck: the test is for a driver, not for the flag of Block.
PollUnchecked ==
  /\ poll.at = "check"
  /\ driver # NoTestCase
  /\ poll' = [poll EXCEPT !.at = "select"]
  /\ UNCHANGED <<mainVars, stateVars, caseVars, queued, handed, pool,
                 dispatchVars, replicaVars, late, quit>>

\* IsBlocked is read; the goroutine then waits in the select.
PollCheck ==
  /\ poll.at = "check"
  /\ allow
  /\ poll' = [poll EXCEPT !.at = "select"]
  /\ UNCHANGED <<mainVars, stateVars, caseVars, queued, handed, pool,
                 dispatchVars, replicaVars, late, quit>>

PollReceive(e) ==
  /\ poll.at = "select"
  /\ e \in handed
  /\ handed' = handed \ {e}
  /\ poll' = [poll EXCEPT !.at = "load", !.e = e]
  /\ late' = IF allow THEN late ELSE late + 1
  /\ UNCHANGED <<mainVars, stateVars, caseVars, queued, pool,
                 dispatchVars, replicaVars, quit>>

PollQuit ==
  /\ poll.at = "select"
  /\ quit
  /\ poll' = [Idle EXCEPT !.at = "off"]
  /\ UNCHANGED <<mainVars, stateVars, caseVars, queued, handed, pool,
                 dispatchVars, replicaVars, late, quit>>

PollLoad ==
  /\ poll.at = "load"
  /\ poll' = [poll EXCEPT !.at = "machine", !.d = driver]
  /\ UNCHANGED <<mainVars, stateVars, caseVars, queued, handed, pool,
                 dispatchVars, replicaVars, late, quit>>

\* The first filter is the state machine: a condition of the start state may
\* move it to the success or the fail state, which have no transitions; in
\* the fail state the test case is aborted (TestCase.once: doneCh is closed
\* once).
StepMachine(to) ==
  /\ poll.at = "machine"
  /\ to = machine[poll.d] \/ machine[poll.d] = "start"
  /\ machine' = [machine EXCEPT ![poll.d] = to]
  /\ ended' = IF to = "fail" THEN ended \cup {poll.d} ELSE ended
  /\ poll' = [poll EXCEPT !.at = "filter"]
  /\ UNCHANGED <<mainVars, stateVars, held, counter, queued, handed, pool,
                 dispatchVars, replicaVars, late, quit>>

\* MessageStore.Get of the message of event e.
PoolGet(e) == {m \in pool : m.id = e.id}

\* Driver.Step adds the returned messages to the pool unless their ID is
\* there, and pollEvents starts a goroutine that dispatches them one by one
\* (the order of a message set is that of a map, hence arbitrary).
StepReturns(msgs) ==
  /\ pool' = pool \cup {m \in msgs : PoolGet(m) = {}}
  /\ outbox' = outbox \cup {[by |-> poll.e, todo |-> msgs, now |-> <<>>]}
  /\ poll' = Idle
  /\ UNCHANGED <<mainVars, stateVars, machine, queued, handed, dispatched, sent,
                 rejected, replicaVars, late, quit>>

DeliverMessage ==
  /\ "deliver" \in Filters
  /\ StepReturns(PoolGet(poll.e))
  /\ UNCHANGED <<ended, held, counter>>

DropMessage ==
  /\ "drop" \in Filters
  /\ StepReturns({})
  /\ UNCHANGED <<ended, held, counter>>

\* Alone, or followed by DeliverMessage in the same Then(...).
Store ==
  /\ "store" \in Filters
  /\ held' = [held EXCEPT ![poll.d] = @ \cup PoolGet(poll.e)]
  /\ StepReturns({}) \/ StepReturns(PoolGet(poll.e))
  /\ UNCHANGED <<ended, counter>>

DeliverAll ==
  /\ "deliverAll" \in Filters
  /\ StepReturns(held[poll.d])
  /\ held' = [held EXCEPT ![poll.d] = {}]
  /\ UNCHANGED <<ended, counter>>

\* Context.NewMessage: sender and receiver of the message and the next value
\* of the Context's counter make up the ID.
NewMessage ==
  /\ "craft" \in Filters
  /\ counter[poll.d] < MaxCrafts
  /\ counter' = [counter EXCEPT ![poll.d] = @ + 1]
  /\ StepReturns({[id   |-> <<"change", poll.e.id[2], counter[poll.d] + 1>>,
                   life |-> poll.e.life]})
  /\ UNCHANGED <<ended, held>>

\* Context.EndTestCase or Context.Abort.
EndTestCase ==
  /\ "end" \in Filters
  /\ ended' = ended \cup {poll.d}
  /\ StepReturns({})
  /\ UNCHANGED <<held, counter>>

StepFilters ==
  /\ poll.at = "filter"
  /\ \/ DeliverMessage \/ DropMessage \/ Store \/ DeliverAll
     \/ NewMessage \/ EndTestCase

pollEvents ==
  \/ PollCheck \/ PollQuit \/ PollLoad \/ StepFilters
  \/ \E e \in handed : PollReceive(e)
  \/ \E to \in {"start", "success", "fail"} : StepMachine(to)

(***************************************************************************)
(* dispatchMessages.  DispatchMessage checks and marks the ID under the    *)
(* lock and makes the request after releasing it.                          *)
(***************************************************************************)
\* Mutant of MarkMessage: the ID is marked without being looked up.
MarkUnchecked(g, m) ==
  /\ m \in g.todo
  /\ g.now = <<>>
  /\ dispatched' = dispatched \cup {m.id}
  /\ outbox' = (outbox \ {g}) \cup {[g EXCEPT !.todo = @ \ {m}, !.now = m]}
  /\ UNCHANGED <<mainVars, stateVars, caseVars, poll, queued, handed, pool, sent,
                 rejected, replicaVars, late, quit>>

MarkMessage(g, m) ==
  /\ m \in g.todo
  /\ g.now = <<>>
  /\ m.id \notin dispatched
  /\ dispatched' = dispatched \cup {m.id}
  /\ outbox' = (outbox \ {g}) \cup {[g EXCEPT !.todo = @ \ {m}, !.now = m]}
  /\ UNCHANGED <<mainVars, stateVars, caseVars, poll, queued, handed, pool, sent,
                 rejected, replicaVars, late, quit>>

ErrDuplicateDispatch(g, m) ==
  /\ m \in g.todo
  /\ g.now = <<>>
  /\ m.id \in dispatched
  /\ rejected' = rejected \cup {m}
  /\ outbox' = (outbox \ {g}) \cup {[g EXCEPT !.todo = @ \ {m}]}
  /\ UNCHANGED <<mainVars, stateVars, caseVars, poll, queued, handed, pool,
                 dispatched, sent, replicaVars, late, quit>>

\* sendReq: the replica gets the message, or the request fails; the result
\* is ignored by dispatchMessages.
SendMessage(g) ==
  /\ g.now # <<>>
  /\ sent' = [sent EXCEPT ![g.now.id] = @ + 1]
  /\ outbox' = (outbox \ {g}) \cup {[g EXCEPT !.now = <<>>]}
  /\ UNCHANGED <<mainVars, stateVars, caseVars, poll, queued, handed, pool,
                 dispatched, rejected, replicaVars, late, quit>>

SendFails(g) ==
  /\ MayFail
  /\ g.now # <<>>
  /\ outbox' = (outbox \ {g}) \cup {[g EXCEPT !.now = <<>>]}
  /\ UNCHANGED <<mainVars, stateVars, caseVars, poll, queued, handed, pool,
                 dispatched, sent, rejected, replicaVars, late, quit>>

\* Mutant of DispatchReturns: the goroutine waits until the message of its
\* event has reached the replica.
ReturnsWhenSent(g) ==
  /\ g.todo = {} /\ g.now = <<>>
  /\ sent[g.by.id] > 0
  /\ outbox' = outbox \ {g}
  /\ UNCHANGED <<mainVars, stateVars, caseVars, poll, queued, handed, pool,
                 dispatched, sent, rejected, replicaVars, late, quit>>

DispatchReturns(g) ==
  /\ g.todo = {} /\ g.now = <<>>
  /\ outbox' = outbox \ {g}
  /\ UNCHANGED <<mainVars, stateVars, caseVars, poll, queued, handed, pool,
                 dispatched, sent, rejected, replicaVars, late, quit>>

dispatchMessages ==
  \E g \in outbox :
    \/ \E m \in g.todo : MarkMessage(g, m) \/ ErrDuplicateDispatch(g, m)
    \/ SendMessage(g) \/ SendFails(g) \/ DispatchReturns(g)

(***************************************************************************)
(* Requests of the replicas, and their handlers in apiserver/routes.go.    *)
(***************************************************************************)
\* A replica registers with ready = false and then posts ready = true.
HandleReplicaPost(r) ==
  /\ store' = [store EXCEPT ![r] = IF @ = "unknown" THEN "registered" ELSE "ready"]
  /\ store[r] # "ready"
  /\ UNCHANGED <<mainVars, stateVars, caseVars, poll, queued, handed, pool,
                 dispatchVars, life, posts, posting, directive, late, quit>>

\* A message is posted first and its MessageSend event after the reply.
HandleMessage(r) ==
  /\ store[r] = "ready"
  /\ posting[r] = <<>>
  /\ posts[r] < MaxPosts
  /\ posts' = [posts EXCEPT ![r] = @ + 1]
  /\ LET m == [id |-> <<"post", r, posts[r] + 1>>, life |-> life[r]] IN
       /\ pool' = pool \cup {m}
       /\ posting' = [posting EXCEPT ![r] = m]
  /\ UNCHANGED <<mainVars, stateVars, caseVars, poll, queued, handed,
                 dispatchVars, store, life, directive, late, quit>>

HandleEvent(r) ==
  /\ posting[r] # <<>>
  /\ queued' = queued \cup {posting[r]}
  /\ posting' = [posting EXCEPT ![r] = <<>>]
  /\ UNCHANGED <<mainVars, stateVars, caseVars, poll, handed, pool,
                 dispatchVars, store, life, posts, directive, late, quit>>

\* The replica restarts and replies; or the request fails, before or after
\* the replica restarted.
HandleDirective(r, reply) ==
  /\ directive[r] = "sent"
  /\ directive' = [directive EXCEPT ![r] = reply]
  /\ \/ life' = [life EXCEPT ![r] = @ + 1]
     \/ reply = "failed" /\ UNCHANGED life
  /\ reply = "failed" => MayFail
  /\ UNCHANGED <<mainVars, stateVars, caseVars, poll, queued, handed, pool,
                 dispatchVars, store, posts, posting, late, quit>>

\* The dispatch loop of the event queue.
HandOver(e) ==
  /\ e \in queued
  /\ queued' = queued \ {e}
  /\ handed' = handed \cup {e}
  /\ UNCHANGED <<mainVars, stateVars, caseVars, poll, pool,
                 dispatchVars, replicaVars, late, quit>>

\* A dispatch loop that was between its critical sections when Flush ran
\* removes an event that it never handed over.
Overlook(e) ==
  /\ pc \in {"clear", "next", "unblock", "wait"}
  /\ \E t \in TestCases : verdict[t] # "none"
  /\ e \in queued
  /\ queued' = queued \ {e}
  /\ UNCHANGED <<mainVars, stateVars, caseVars, poll, handed, pool,
                 dispatchVars, replicaVars, late, quit>>

\* TestingServer.Stop.
StopRunning ==
  /\ MayQuit
  /\ ~quit
  /\ quit' = TRUE
  /\ UNCHANGED <<mainVars, stateVars, caseVars, poll, queued, handed, pool,
                 dispatchVars, replicaVars, late>>

environment ==
  \/ StopRunning
  \/ \E r \in Replicas :
       \/ HandleReplicaPost(r) \/ HandleMessage(r) \/ HandleEvent(r)
       \/ \E reply \in {"ok", "failed"} : HandleDirective(r, reply)
  \/ \E e \in queued : HandOver(e) \/ Overlook(e)

Next == execute \/ pollEvents \/ dispatchMessages \/ environment

Spec == Init /\ [][Next]_vars

\* Go's scheduler runs every goroutine that can run, the timer of the select
\* fires (WF of execute, of which Timeout is a disjunct), and a
\* request to a replica is answered or fails.  Nothing is assumed of Stop,
\* and the replicas need not send anything once they are ready.
Fairness ==
  /\ WF_vars(execute)
  /\ WF_vars(pollEvents)
  /\ WF_vars(dispatchMessages)
  /\ \A r \in Replicas :
       /\ WF_vars(HandleReplicaPost(r))
       /\ WF_vars(\E reply \in {"ok", "failed"} : HandleDirective(r, reply))

FairSpec == Spec /\ Fairness

(***************************************************************************)
(* Properties.                                                             *)
(***************************************************************************)
MainTypes ==
  /\ pc \in {"connect", "next", "unblock", "wait", "block", "assert", "restart",
             "collect", "flush", "clear", "finish", "done", "returned"}
  /\ left \subseteq TestCases
  /\ cur \in TestCases \cup {NoTestCase}
  /\ verdict \in [TestCases -> {"none", "succeed", "fail"}]
  /\ driver \in TestCases \cup {NoTestCase}
  /\ allow \in BOOLEAN
  /\ machine \in [TestCases -> {"start", "success", "fail"}]
  /\ ended \subseteq TestCases
  /\ late \in Nat
  /\ quit \in BOOLEAN

PollTypes ==
  /\ held \in [TestCases -> SUBSET Messages]
  /\ counter \in [TestCases -> 0 .. MaxCrafts]
  /\ poll \in [at : {"off", "check", "select", "load", "machine", "filter"},
               e  : Messages \cup {<<>>},
               d  : TestCases \cup {NoTestCase}]
  /\ queued \subseteq Messages
  /\ handed \subseteq Messages
  /\ pool \subseteq Messages

DispatchTypes ==
  /\ outbox \subseteq [by : Messages, todo : SUBSET Messages, now : Messages \cup {<<>>}]
  /\ dispatched \subseteq IDs
  /\ sent \in [IDs -> Nat]
  /\ rejected \subseteq Messages

ReplicaTypes ==
  /\ store \in [Replicas -> {"unknown", "registered", "ready"}]
  /\ life \in [Replicas -> Nat]
  /\ posts \in [Replicas -> 0 .. MaxPosts]
  /\ posting \in [Replicas -> Messages \cup {<<>>}]
  /\ directive \in [Replicas -> {"none", "sent", "ok", "failed"}]

\* The types of the variables.
TypeOK == MainTypes /\ PollTypes /\ DispatchTypes /\ ReplicaTypes

\* "DispatchMessage sends a message with a particular ID only once": however
\* many steps return a message and however their dispatch goroutines
\* interleave, at most one request with its ID is made.
SentOnce == \A i \in IDs : sent[i] <= 1

\* Between two test cases every replica restarts: while the n-th test case
\* runs, every replica has been restarted exactly n - 1 times.
RestartedBetween ==
  pc \in {"unblock", "wait", "block"} =>
    \A r \in Replicas :
      life[r] = Cardinality({t \in TestCases : verdict[t] # "none"})

\* pollEvents never steps with a nil driver, and never with the driver of a
\* test case that has not started.
DriverStarted ==
  poll.at \in {"machine", "filter"} => poll.d \in TestCases \ left

\* After Block, pollEvents receives at most one more event before the next
\* Unblock: the one for which it was already waiting in the select.
AtMostOneLate == late <= 1

\* When doneCh is closed every test case has a verdict, unless Stop was
\* called or a replica could not be restarted.
VerdictsComplete ==
  pc = "done" =>
    \/ \A t \in TestCases : verdict[t] # "none"
    \/ quit
    \/ \E r \in Replicas : directive[r] = "failed"

\* execute finishes: whatever the filters do and whatever the replicas send,
\* doneCh is closed (or execute returns because Stop was called while the
\* replicas were connecting).
Finishes == <>(pc \in {"done", "returned"})

\* Every message that a step returned is eventually dispatched or refused:
\* no dispatch goroutine stays behind.
DispatchEnds == []<>(outbox = {})

=============================================================================
