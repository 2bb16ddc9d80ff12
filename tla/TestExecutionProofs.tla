------------------------- MODULE TestExecutionProofs -------------------------
(***************************************************************************)
(* Proofs about TestExecution: its types, that pollEvents never steps a    *)
(* nil driver, that at most one event is received after Block, that the    *)
(* dispatcher makes at most one request with each message ID, that the     *)
(* replicas restart between two test cases and that no verdict is missing. *)
(***************************************************************************)
EXTENDS TestExecution, FiniteSetTheorems, TLAPS

\* pollEvents waits in the select only after it has seen allow, and allow is
\* set only after NewTestCase: the driver that it reads belongs to a test
\* case that has started.
DriverInv ==
  /\ pc = "unblock" \/ allow \/ poll.at \in {"select", "load"}
       => driver \in TestCases \ left
  /\ poll.at \in {"load", "machine", "filter"} => poll.e \in Messages
  /\ DriverStarted

\* Nothing is late while events are allowed or while pollEvents waits.
LateInv ==
  /\ allow \/ poll.at = "select" => late = 0
  /\ late \in {0, 1}

\* A request that is under way has its ID marked, is the only one with that
\* ID, and none was made before it.
DispatchInv ==
  /\ \A g \in outbox :
       g.now # <<>> => g.now.id \in dispatched /\ sent[g.now.id] = 0
  /\ \A g, h \in outbox :
       g.now # <<>> /\ h.now # <<>> /\ g.now.id = h.now.id => g = h
  /\ \A i \in IDs : sent[i] = 0 \/ (sent[i] = 1 /\ i \in dispatched)

ExecInv == TypeOK /\ DriverInv /\ LateInv /\ DispatchInv

-----------------------------------------------------------------------------
LEMMA EmptyIsNoMessage == <<>> \notin Messages
  BY DEF Messages

LEMMA IDTypes ==
  /\ \A r \in Replicas, n \in 1 .. MaxPosts : <<"post", r, n>> \in IDs
  /\ \A r \in Replicas, n \in 1 .. MaxCrafts : <<"change", r, n>> \in IDs
  /\ \A i \in IDs : i[2] \in Replicas
  BY DEF IDs

LEMMA ExecInit == Init => ExecInv
  <1> SUFFICES ASSUME Init PROVE ExecInv
    OBVIOUS
  <1>1. TypeOK
    <2>1. MainTypes
      BY DEF Init, MainTypes
    <2>2. PollTypes
      BY ExecutionAssumption DEF Init, PollTypes, Idle
    <2>3. DispatchTypes
      BY DEF Init, DispatchTypes
    <2>4. ReplicaTypes
      BY ExecutionAssumption DEF Init, ReplicaTypes
    <2> QED  BY <2>1, <2>2, <2>3, <2>4 DEF TypeOK
  <1>2. DriverInv /\ LateInv
    BY DEF Init, DriverInv, LateInv, DriverStarted, Idle
  <1>3. DispatchInv
    BY DEF Init, DispatchInv
  <1> QED  BY <1>1, <1>2, <1>3 DEF ExecInv

-----------------------------------------------------------------------------
(***************************************************************************)
(* What each process leaves alone.                                         *)
(***************************************************************************)
LEMMA ExecuteFrame ==
  ASSUME execute
  PROVE  /\ UNCHANGED <<caseVars, handed, dispatchVars, quit>>
         /\ UNCHANGED <<store, life, posts, posting>>
         /\ queued' \in {queued, {}} /\ pool' \in {pool, {}}
         /\ poll' = poll \/ (pc = "connect" /\ poll' = Idle)
  <1>1. CASE Connected \/ ConnectQuit \/ \E t \in TestCases : NewTestCase(t)
    BY <1>1 DEF Connected, ConnectQuit, NewTestCase, replicaVars
  <1>2. CASE Unblock \/ Complete \/ Timeout \/ WaitQuit \/ Block \/ assert
    BY <1>2 DEF Unblock, Complete, Timeout, WaitQuit, Block, assert, replicaVars
  <1>3. CASE RestartAll \/ CollectAll \/ CollectError
    BY <1>3 DEF RestartAll, CollectAll, CollectError, replicaVars
  <1>4. CASE ResetFlush \/ ResetRemoveAll \/ CloseDone
    BY <1>4 DEF ResetFlush, ResetRemoveAll, CloseDone, replicaVars
  <1> QED  BY <1>1, <1>2, <1>3, <1>4 DEF execute

LEMMA FiltersFrame ==
  ASSUME StepFilters
  PROVE  /\ poll.at = "filter" /\ poll' = Idle
         /\ UNCHANGED <<mainVars, stateVars, machine, queued, handed, dispatched, sent,
                        rejected, replicaVars, late, quit>>
  BY DEF StepFilters, DeliverMessage, DropMessage, Store, DeliverAll, NewMessage,
         EndTestCase, StepReturns

LEMMA PollFrame ==
  ASSUME pollEvents
  PROVE  UNCHANGED <<mainVars, stateVars, queued, dispatched, sent, rejected,
                     replicaVars, quit>>
  <1>1. CASE StepFilters
    BY <1>1, FiltersFrame
  <1>2. CASE PollCheck \/ PollQuit \/ PollLoad
    BY <1>2 DEF PollCheck, PollQuit, PollLoad, dispatchVars
  <1>3. CASE \E e \in handed : PollReceive(e)
    BY <1>3 DEF PollReceive, dispatchVars
  <1>4. CASE \E to \in {"start", "success", "fail"} : StepMachine(to)
    BY <1>4 DEF StepMachine, dispatchVars
  <1> QED  BY <1>1, <1>2, <1>3, <1>4 DEF pollEvents

LEMMA DispatchFrame ==
  ASSUME dispatchMessages
  PROVE  UNCHANGED <<mainVars, stateVars, caseVars, poll, queued, handed, pool,
                     replicaVars, late, quit>>
  BY DEF dispatchMessages, MarkMessage, ErrDuplicateDispatch, SendMessage, SendFails,
         DispatchReturns

LEMMA EnvironmentFrame ==
  ASSUME environment
  PROVE  UNCHANGED <<mainVars, stateVars, caseVars, poll, dispatchVars, late>>
  BY DEF environment, StopRunning, HandleReplicaPost, HandleMessage, HandleEvent,
         HandleDirective, HandOver, Overlook

-----------------------------------------------------------------------------
(***************************************************************************)
(* Every step preserves the types.                                         *)
(***************************************************************************)
LEMMA MainTypesStep ==
  ASSUME TypeOK, DriverInv, Next
  PROVE  MainTypes'
  <1> USE DEF mainVars, stateVars, caseVars, MainTypes
  <1>0. MainTypes
    BY DEF TypeOK
  <1>1. CASE execute
    <2>0. machine' = machine /\ ended' = ended /\ quit' = quit
      BY <1>1, ExecuteFrame
    <2>1. CASE Connected \/ ConnectQuit \/ Complete \/ Timeout \/ WaitQuit
      BY <2>1, <2>0, <1>0 DEF Connected, ConnectQuit, Complete, Timeout, WaitQuit
    <2>2. CASE \E t \in TestCases : NewTestCase(t)
      BY <2>2, <2>0, <1>0 DEF NewTestCase
    <2>3. CASE Unblock \/ Block
      <3>1. allow' \in BOOLEAN
        BY <2>3 DEF Unblock, Block
      <3>2. /\ pc' \in {"wait", "assert"} /\ late' \in {late, 0}
            /\ UNCHANGED <<left, cur, verdict, driver>>
        BY <2>3 DEF Unblock, Block
      <3> QED  BY <2>0, <1>0, <3>1, <3>2
    <2>4. CASE assert
      BY <2>4, <2>0, <1>0 DEF assert
    <2>5. CASE RestartAll \/ CollectAll \/ CollectError
      BY <2>5, <2>0, <1>0 DEF RestartAll, CollectAll, CollectError
    <2>6. CASE ResetFlush \/ ResetRemoveAll \/ CloseDone
      BY <2>6, <2>0, <1>0 DEF ResetFlush, ResetRemoveAll, CloseDone
    <2> QED  BY <1>1, <2>1, <2>2, <2>3, <2>4, <2>5, <2>6 DEF execute
  <1>2. CASE pollEvents
    <2>0. UNCHANGED <<mainVars, stateVars, quit>>
      BY <1>2, PollFrame
    <2>1. CASE PollCheck \/ PollQuit \/ PollLoad
      BY <2>1, <2>0, <1>0 DEF PollCheck, PollQuit, PollLoad
    <2>2. CASE \E e \in handed : PollReceive(e)
      BY <2>2, <2>0, <1>0 DEF PollReceive
    <2>3. CASE \E to \in {"start", "success", "fail"} : StepMachine(to)
      <3>1. poll.at = "machine" => poll.d \in TestCases
        BY DEF DriverInv, DriverStarted
      <3> QED  BY <2>3, <2>0, <1>0, <3>1 DEF StepMachine
    <2>4. CASE StepFilters
      <3>1. poll.at = "filter" => poll.d \in TestCases
        BY DEF DriverInv, DriverStarted
      <3>2. machine' = machine /\ late' = late /\ poll.at = "filter"
        BY <2>4, FiltersFrame
      <3>3. ended' = ended \/ ended' = ended \cup {poll.d}
        BY <2>4 DEF StepFilters, DeliverMessage, DropMessage, Store, DeliverAll,
                    NewMessage, EndTestCase
      <3> QED  BY <2>0, <1>0, <3>1, <3>2, <3>3
    <2> QED  BY <1>2, <2>1, <2>2, <2>3, <2>4 DEF pollEvents
  <1>3. CASE dispatchMessages
    BY <1>3, <1>0, DispatchFrame
  <1>4. CASE environment
    <2>1. quit' \in BOOLEAN
      BY <1>4, <1>0 DEF environment, StopRunning, HandleReplicaPost, HandleMessage,
                        HandleEvent, HandleDirective, HandOver, Overlook
    <2> QED  BY <1>4, <1>0, <2>1, EnvironmentFrame
  <1> QED  BY <1>1, <1>2, <1>3, <1>4 DEF Next

LEMMA ReplicaTypesStep ==
  ASSUME TypeOK, Next
  PROVE  ReplicaTypes'
  <1> USE DEF replicaVars, ReplicaTypes
  <1>0. ReplicaTypes
    BY DEF TypeOK
  <1>1. CASE execute
    <2>1. directive' \in [Replicas -> {"none", "sent", "ok", "failed"}]
      BY <1>1, <1>0 DEF execute, Connected, ConnectQuit, NewTestCase, Unblock, Complete,
           Timeout, WaitQuit, Block, assert, RestartAll, CollectAll, CollectError,
           ResetFlush, ResetRemoveAll, CloseDone
    <2> QED  BY <1>1, <1>0, <2>1, ExecuteFrame
  <1>2. CASE pollEvents
    BY <1>2, <1>0, PollFrame
  <1>3. CASE dispatchMessages
    BY <1>3, <1>0, DispatchFrame
  <1>4. CASE environment
    <2>1. CASE StopRunning \/ \E e \in queued : HandOver(e) \/ Overlook(e)
      BY <2>1, <1>0 DEF StopRunning, HandOver, Overlook
    <2>2. ASSUME NEW r \in Replicas, HandleReplicaPost(r)
          PROVE  ReplicaTypes'
      BY <2>2, <1>0 DEF HandleReplicaPost
    <2>3. ASSUME NEW r \in Replicas, HandleMessage(r)
          PROVE  ReplicaTypes'
      <3> DEFINE m == [id |-> <<"post", r, posts[r] + 1>>, life |-> life[r]]
      <3>1. posts[r] + 1 \in 1 .. MaxPosts
        BY <2>3, <1>0, ExecutionAssumption DEF HandleMessage
      <3>2. m \in Messages
        BY <3>1, <1>0, IDTypes DEF Messages
      <3>3. posting' = [posting EXCEPT ![r] = m] /\ posts' = [posts EXCEPT ![r] = @ + 1]
            /\ UNCHANGED <<store, life, directive>>
        BY <2>3 DEF HandleMessage
      <3> HIDE DEF m
      <3> QED  BY <3>1, <3>2, <3>3, <1>0, ExecutionAssumption
    <2>4. ASSUME NEW r \in Replicas, HandleEvent(r)
          PROVE  ReplicaTypes'
      BY <2>4, <1>0 DEF HandleEvent
    <2>5. ASSUME NEW r \in Replicas, NEW reply \in {"ok", "failed"},
                 HandleDirective(r, reply)
          PROVE  ReplicaTypes'
      BY <2>5, <1>0 DEF HandleDirective
    <2> QED  BY <1>4, <2>1, <2>2, <2>3, <2>4, <2>5 DEF environment
  <1> QED  BY <1>1, <1>2, <1>3, <1>4 DEF Next

\* What the filters return are messages, taken from the pool, from the
\* message set or crafted.
LEMMA FiltersReturn ==
  ASSUME TypeOK, DriverInv, StepFilters
  PROVE  /\ \E msgs \in SUBSET Messages :
              /\ pool' = pool \cup {m \in msgs : PoolGet(m) = {}}
              /\ outbox' = outbox \cup {[by |-> poll.e, todo |-> msgs, now |-> <<>>]}
         /\ held' \in [TestCases -> SUBSET Messages]
         /\ counter' \in [TestCases -> 0 .. MaxCrafts]
  <1> USE DEF PollTypes
  <1>0. /\ PollTypes
        /\ poll.d \in TestCases /\ poll.e \in Messages
    BY DEF TypeOK, DriverInv, DriverStarted, StepFilters
  <1>1. PoolGet(poll.e) \in SUBSET Messages
    BY <1>0 DEF PoolGet
  <1>2. held[poll.d] \in SUBSET Messages
    BY <1>0
  <1>3. CASE DeliverMessage \/ DropMessage \/ EndTestCase
    BY <1>0, <1>1, <1>3 DEF DeliverMessage, DropMessage, EndTestCase, StepReturns
  <1>4. CASE Store
    <2>1. held' \in [TestCases -> SUBSET Messages]
      BY <1>0, <1>1, <1>2, <1>4 DEF Store
    <2> QED  BY <1>0, <1>1, <1>4, <2>1 DEF Store, StepReturns
  <1>5. CASE DeliverAll
    BY <1>0, <1>2, <1>5 DEF DeliverAll, StepReturns
  <1>6. CASE NewMessage
    <2> DEFINE m == [id   |-> <<"change", poll.e.id[2], counter[poll.d] + 1>>,
                     life |-> poll.e.life]
    <2>1. counter[poll.d] + 1 \in 1 .. MaxCrafts
      BY <1>0, <1>6, ExecutionAssumption DEF NewMessage
    <2>2. poll.e.id[2] \in Replicas /\ poll.e.life \in Nat
      BY <1>0, IDTypes DEF Messages
    <2>3. m \in Messages
      BY <2>1, <2>2, IDTypes DEF Messages
    <2>4. counter' \in [TestCases -> 0 .. MaxCrafts]
      BY <1>0, <1>6, <2>1, ExecutionAssumption DEF NewMessage
    <2>5. StepReturns({m}) /\ held' = held
      BY <1>6 DEF NewMessage
    <2> HIDE DEF m
    <2> QED  BY <1>0, <2>3, <2>4, <2>5 DEF StepReturns
  <1> QED  BY <1>3, <1>4, <1>5, <1>6 DEF StepFilters

LEMMA PollTypesStep ==
  ASSUME TypeOK, DriverInv, Next
  PROVE  PollTypes'
  <1> USE DEF caseVars, PollTypes
  <1>0. PollTypes /\ MainTypes /\ ReplicaTypes
    BY DEF TypeOK
  <1>1. CASE execute
    BY <1>1, <1>0, ExecuteFrame DEF Idle
  <1>2. CASE pollEvents
    <2>0. queued' = queued
      BY <1>2, PollFrame
    <2>1. CASE PollCheck \/ PollQuit
      BY <2>1, <2>0, <1>0 DEF PollCheck, PollQuit, Idle
    <2>2. CASE PollLoad
      BY <2>2, <2>0, <1>0 DEF PollLoad, MainTypes
    <2>3. CASE \E e \in handed : PollReceive(e)
      BY <2>3, <2>0, <1>0 DEF PollReceive
    <2>4. CASE \E to \in {"start", "success", "fail"} : StepMachine(to)
      BY <2>4, <2>0, <1>0 DEF StepMachine
    <2>5. CASE StepFilters
      BY <2>5, <2>0, <1>0, FiltersFrame, FiltersReturn DEF Idle
    <2> QED  BY <1>2, <2>1, <2>2, <2>3, <2>4, <2>5 DEF pollEvents
  <1>3. CASE dispatchMessages
    BY <1>3, <1>0, DispatchFrame
  <1>4. CASE environment
    <2>0. UNCHANGED <<held, counter, poll>>
      BY <1>4, EnvironmentFrame
    <2>1. CASE StopRunning \/ \E e \in queued : HandOver(e) \/ Overlook(e)
      BY <2>1, <2>0, <1>0 DEF StopRunning, HandOver, Overlook
    <2>2. ASSUME NEW r \in Replicas, HandleReplicaPost(r)
          PROVE  PollTypes'
      BY <2>2, <2>0, <1>0 DEF HandleReplicaPost
    <2>3. ASSUME NEW r \in Replicas, HandleMessage(r)
          PROVE  PollTypes'
      <3>1. posts[r] + 1 \in 1 .. MaxPosts /\ life[r] \in Nat
        BY <2>3, <1>0, ExecutionAssumption DEF HandleMessage, ReplicaTypes
      <3>2. [id |-> <<"post", r, posts[r] + 1>>, life |-> life[r]] \in Messages
        BY <3>1, IDTypes DEF Messages
      <3> QED  BY <2>3, <2>0, <1>0, <3>2 DEF HandleMessage
    <2>4. ASSUME NEW r \in Replicas, HandleEvent(r)
          PROVE  PollTypes'
      BY <2>4, <2>0, <1>0 DEF HandleEvent, ReplicaTypes
    <2>5. ASSUME NEW r \in Replicas, NEW reply \in {"ok", "failed"},
                 HandleDirective(r, reply)
          PROVE  PollTypes'
      BY <2>5, <2>0, <1>0 DEF HandleDirective
    <2> QED  BY <1>4, <2>1, <2>2, <2>3, <2>4, <2>5 DEF environment
  <1> QED  BY <1>1, <1>2, <1>3, <1>4 DEF Next

LEMMA DispatchTypesStep ==
  ASSUME TypeOK, DriverInv, Next
  PROVE  DispatchTypes'
  <1> USE DEF dispatchVars, DispatchTypes
  <1>0. DispatchTypes
    BY DEF TypeOK
  <1>1. CASE execute
    BY <1>1, <1>0, ExecuteFrame
  <1>2. CASE pollEvents
    <2>0. UNCHANGED <<dispatched, sent, rejected>>
      BY <1>2, PollFrame
    <2>1. CASE StepFilters
      <3>1. poll.e \in Messages
        BY <2>1 DEF DriverInv, StepFilters
      <3> QED  BY <2>1, <2>0, <1>0, <3>1, FiltersReturn
    <2>2. CASE ~StepFilters
      BY <1>2, <2>2, <2>0, <1>0 DEF pollEvents, PollCheck, PollQuit, PollLoad,
                                    PollReceive, StepMachine
    <2> QED  BY <2>1, <2>2
  <1>3. CASE dispatchMessages
    <2> PICK g \in outbox :
          \/ \E m \in g.todo : MarkMessage(g, m) \/ ErrDuplicateDispatch(g, m)
          \/ SendMessage(g) \/ SendFails(g) \/ DispatchReturns(g)
      BY <1>3 DEF dispatchMessages
    <2>0. g \in [by : Messages, todo : SUBSET Messages, now : Messages \cup {<<>>}]
      BY <1>0
    <2>1. ASSUME NEW m \in g.todo, MarkMessage(g, m)
          PROVE  DispatchTypes'
      <3>1. m \in Messages /\ m.id \in IDs
        BY <2>0 DEF Messages
      <3> QED  BY <2>1, <2>0, <1>0, <3>1 DEF MarkMessage
    <2>2. ASSUME NEW m \in g.todo, ErrDuplicateDispatch(g, m)
          PROVE  DispatchTypes'
      <3>1. m \in Messages
        BY <2>0
      <3> QED  BY <2>2, <2>0, <1>0, <3>1 DEF ErrDuplicateDispatch
    <2>3. CASE SendMessage(g)
      <3>1. g.now \in Messages /\ g.now.id \in IDs
        BY <2>3, <2>0 DEF SendMessage, Messages
      <3>2. sent' \in [IDs -> Nat]
        BY <2>3, <1>0, <3>1 DEF SendMessage
      <3> QED  BY <2>3, <2>0, <1>0, <3>2 DEF SendMessage
    <2>4. CASE SendFails(g) \/ DispatchReturns(g)
      BY <2>4, <2>0, <1>0 DEF SendFails, DispatchReturns
    <2> QED  BY <2>1, <2>2, <2>3, <2>4
  <1>4. CASE environment
    BY <1>4, <1>0, EnvironmentFrame
  <1> QED  BY <1>1, <1>2, <1>3, <1>4 DEF Next

-----------------------------------------------------------------------------
(***************************************************************************)
(* Every step preserves the other parts of the invariant.                  *)
(***************************************************************************)
LEMMA DriverInvStep ==
  ASSUME TypeOK, DriverInv, Next
  PROVE  DriverInv'
  <1> USE DEF mainVars, stateVars, DriverInv, DriverStarted
  <1>0. PollTypes
    BY DEF TypeOK
  <1>1. CASE execute
    <2>0. poll' = poll \/ poll' = Idle
      BY <1>1, ExecuteFrame
    <2>1. CASE \E t \in TestCases : NewTestCase(t)
      BY <2>0, <2>1 DEF NewTestCase, Idle
    <2>2. CASE Unblock
      BY <2>0, <2>2 DEF Unblock, Idle
    <2>3. CASE Block
      BY <2>0, <2>3 DEF Block, Idle
    <2>4. CASE /\ UNCHANGED <<driver, left, allow>>
               /\ pc' # "unblock"
      BY <2>0, <2>4 DEF Idle
    <2>5. \/ \E t \in TestCases : NewTestCase(t)
          \/ Unblock \/ Block
          \/ UNCHANGED <<driver, left, allow>> /\ pc' # "unblock"
      BY <1>1 DEF execute, Connected, ConnectQuit, Complete, Timeout, WaitQuit, assert,
           RestartAll, CollectAll, CollectError, ResetFlush, ResetRemoveAll, CloseDone
    <2> QED  BY <2>1, <2>2, <2>3, <2>4, <2>5
  <1>2. CASE pollEvents
    <2>0. UNCHANGED <<pc, left, driver, allow>>
      BY <1>2, PollFrame
    <2>1. CASE PollCheck \/ PollQuit \/ PollLoad
      BY <2>0, <2>1, <1>0 DEF PollCheck, PollQuit, PollLoad, PollTypes, Idle
    <2>2. CASE \E e \in handed : PollReceive(e)
      BY <2>0, <2>2, <1>0 DEF PollReceive, PollTypes
    <2>3. CASE \E to \in {"start", "success", "fail"} : StepMachine(to)
      BY <2>0, <2>3, <1>0 DEF StepMachine, PollTypes
    <2>4. CASE StepFilters
      BY <2>0, <2>4, FiltersFrame DEF Idle
    <2> QED  BY <1>2, <2>1, <2>2, <2>3, <2>4 DEF pollEvents
  <1>3. CASE dispatchMessages
    BY <1>3, DispatchFrame
  <1>4. CASE environment
    BY <1>4, EnvironmentFrame
  <1> QED  BY <1>1, <1>2, <1>3, <1>4 DEF Next

LEMMA LateInvStep ==
  ASSUME TypeOK, LateInv, Next
  PROVE  LateInv'
  <1> USE DEF stateVars, LateInv
  <1>0. PollTypes
    BY DEF TypeOK
  <1>1. CASE execute
    <2>0. poll' = poll \/ poll' = Idle
      BY <1>1, ExecuteFrame
    <2>1. CASE Unblock \/ Block
      BY <2>0, <2>1 DEF Unblock, Block, Idle
    <2>2. CASE UNCHANGED <<allow, late>>
      BY <2>0, <2>2 DEF Idle
    <2>3. Unblock \/ Block \/ UNCHANGED <<allow, late>>
      BY <1>1 DEF execute, Connected, ConnectQuit, NewTestCase, Complete, Timeout, WaitQuit,
           assert, RestartAll, CollectAll, CollectError, ResetFlush, ResetRemoveAll, CloseDone
    <2> QED  BY <2>1, <2>2, <2>3
  <1>2. CASE pollEvents
    <2>0. allow' = allow
      BY <1>2, PollFrame
    <2>1. CASE PollCheck \/ PollQuit \/ PollLoad
      BY <2>0, <2>1, <1>0 DEF PollCheck, PollQuit, PollLoad, PollTypes, Idle
    <2>2. CASE \E e \in handed : PollReceive(e)
      BY <2>0, <2>2, <1>0 DEF PollReceive, PollTypes
    <2>3. CASE \E to \in {"start", "success", "fail"} : StepMachine(to)
      BY <2>0, <2>3, <1>0 DEF StepMachine, PollTypes
    <2>4. CASE StepFilters
      BY <2>0, <2>4, FiltersFrame DEF Idle
    <2> QED  BY <1>2, <2>1, <2>2, <2>3, <2>4 DEF pollEvents
  <1>3. CASE dispatchMessages
    BY <1>3, DispatchFrame
  <1>4. CASE environment
    BY <1>4, EnvironmentFrame
  <1> QED  BY <1>1, <1>2, <1>3, <1>4 DEF Next

LEMMA DispatchInvStep ==
  ASSUME TypeOK, DriverInv, DispatchInv, Next
  PROVE  DispatchInv'
  <1> USE DEF dispatchVars, DispatchInv
  <1>0. DispatchTypes
    BY DEF TypeOK
  <1>1. CASE execute
    BY <1>1, ExecuteFrame
  <1>2. CASE pollEvents
    <2>0. UNCHANGED <<dispatched, sent>>
      BY <1>2, PollFrame
    <2>1. CASE StepFilters
      <3>1. PICK msgs \in SUBSET Messages :
              outbox' = outbox \cup {[by |-> poll.e, todo |-> msgs, now |-> <<>>]}
        BY <2>1, FiltersReturn
      <3>2. \A g \in outbox' : g \in outbox \/ g.now = <<>>
        BY <3>1
      <3> QED  BY <2>0, <3>2
    <2>2. CASE ~StepFilters
      BY <1>2, <2>2, <2>0 DEF pollEvents, PollCheck, PollQuit, PollLoad,
                              PollReceive, StepMachine
    <2> QED  BY <2>1, <2>2
  <1>3. CASE dispatchMessages
    <2> PICK g \in outbox :
          \/ \E m \in g.todo : MarkMessage(g, m) \/ ErrDuplicateDispatch(g, m)
          \/ SendMessage(g) \/ SendFails(g) \/ DispatchReturns(g)
      BY <1>3 DEF dispatchMessages
    <2>0. g \in [by : Messages, todo : SUBSET Messages, now : Messages \cup {<<>>}]
      BY <1>0 DEF DispatchTypes
    <2>1. ASSUME NEW m \in g.todo, MarkMessage(g, m)
          PROVE  DispatchInv'
      <3> DEFINE h == [g EXCEPT !.todo = @ \ {m}, !.now = m]
      <3>1. m \in Messages /\ m.id \in IDs
        BY <2>0 DEF Messages
      <3>2. /\ outbox' = (outbox \ {g}) \cup {h}
            /\ dispatched' = dispatched \cup {m.id} /\ sent' = sent
            /\ m.id \notin dispatched
        BY <2>1 DEF MarkMessage
      <3>3. h.now = m
        BY <2>0
      <3>4. sent[m.id] = 0
        BY <3>1, <3>2
      <3> HIDE DEF h
      <3> QED  BY <3>1, <3>2, <3>3, <3>4
    <2>2. ASSUME NEW m \in g.todo, ErrDuplicateDispatch(g, m)
          PROVE  DispatchInv'
      <3> DEFINE h == [g EXCEPT !.todo = @ \ {m}]
      <3>1. /\ outbox' = (outbox \ {g}) \cup {h}
            /\ dispatched' = dispatched /\ sent' = sent /\ g.now = <<>>
        BY <2>2 DEF ErrDuplicateDispatch
      <3>2. h.now = g.now
        BY <2>0
      <3> HIDE DEF h
      <3> QED  BY <3>1, <3>2
    <2>3. CASE SendMessage(g)
      <3> DEFINE h == [g EXCEPT !.now = <<>>]
      <3>1. g.now \in Messages /\ g.now.id \in IDs
        BY <2>3, <2>0 DEF SendMessage, Messages
      <3>2. /\ outbox' = (outbox \ {g}) \cup {h}
            /\ dispatched' = dispatched /\ sent' = [sent EXCEPT ![g.now.id] = @ + 1]
            /\ g.now # <<>>
        BY <2>3 DEF SendMessage
      <3>3. h.now = <<>>
        BY <2>0
      <3>4. /\ sent'[g.now.id] = 1
            /\ \A i \in IDs : i # g.now.id => sent'[i] = sent[i]
        BY <1>0, <3>1, <3>2 DEF DispatchTypes
      <3> HIDE DEF h
      <3>5. ASSUME NEW k \in outbox', k.now # <<>>
            PROVE  k \in outbox /\ k # g /\ k.now.id # g.now.id /\ k.now.id \in IDs
        <4>1. k \in outbox /\ k # g
          BY <3>2, <3>3, <3>5
        <4>2. k.now.id # g.now.id
          BY <4>1, <3>2, <3>5
        <4>3. k.now.id \in IDs
          BY <4>1, <1>0, <3>5 DEF DispatchTypes, Messages
        <4> QED  BY <4>1, <4>2, <4>3
      <3>6. \A k \in outbox' :
              k.now # <<>> => k.now.id \in dispatched' /\ sent'[k.now.id] = 0
        BY <3>2, <3>4, <3>5
      <3>7. \A i \in IDs : sent'[i] = 0 \/ (sent'[i] = 1 /\ i \in dispatched')
        BY <3>1, <3>2, <3>4
      <3>8. \A k, j \in outbox' :
              k.now # <<>> /\ j.now # <<>> /\ k.now.id = j.now.id => k = j
        BY <3>5
      <3> QED  BY <3>6, <3>7, <3>8
    <2>4. CASE SendFails(g)
      <3> DEFINE h == [g EXCEPT !.now = <<>>]
      <3>1. /\ outbox' = (outbox \ {g}) \cup {h}
            /\ dispatched' = dispatched /\ sent' = sent
        BY <2>4 DEF SendFails
      <3>2. h.now = <<>>
        BY <2>0
      <3> HIDE DEF h
      <3> QED  BY <3>1, <3>2
    <2>5. CASE DispatchReturns(g)
      BY <2>5 DEF DispatchReturns
    <2> QED  BY <2>1, <2>2, <2>3, <2>4, <2>5
  <1>4. CASE environment
    BY <1>4, EnvironmentFrame
  <1> QED  BY <1>1, <1>2, <1>3, <1>4 DEF Next

-----------------------------------------------------------------------------
LEMMA ExecStutter ==
  ASSUME ExecInv, UNCHANGED vars
  PROVE  ExecInv'
  <1> USE DEF vars, mainVars, stateVars, caseVars, dispatchVars, replicaVars
  <1>1. TypeOK'
    BY DEF ExecInv, TypeOK, MainTypes, PollTypes, DispatchTypes, ReplicaTypes
  <1>2. DriverInv' /\ LateInv'
    BY DEF ExecInv, DriverInv, LateInv, DriverStarted
  <1>3. DispatchInv'
    BY DEF ExecInv, DispatchInv
  <1> QED  BY <1>1, <1>2, <1>3 DEF ExecInv

\* The invariant on which the theorems rest.
THEOREM ExecInvariant == Spec => []ExecInv
  <1>1. Init => ExecInv
    BY ExecInit
  <1>2. ExecInv /\ [Next]_vars => ExecInv'
    <2> SUFFICES ASSUME ExecInv, [Next]_vars PROVE ExecInv'
      OBVIOUS
    <2>1. CASE Next
      <3>1. TypeOK /\ DriverInv /\ LateInv /\ DispatchInv
        BY DEF ExecInv
      <3>2. TypeOK'
        BY <2>1, <3>1, MainTypesStep, PollTypesStep, DispatchTypesStep, ReplicaTypesStep
           DEF TypeOK
      <3> QED  BY <2>1, <3>1, <3>2, DriverInvStep, LateInvStep, DispatchInvStep DEF ExecInv
    <2>2. CASE UNCHANGED vars
      BY <2>2, ExecStutter
    <2> QED  BY <2>1, <2>2
  <1> QED  BY <1>1, <1>2, PTL DEF Spec

\* The variables keep their types in every reachable state of the server, for
\* any number of replicas, test cases and messages.
THEOREM TestExecutionTypes == Spec => []TypeOK
  BY ExecInvariant, PTL DEF ExecInv

\* pollEvents always has the driver of a test case that NewTestCase started:
\* its call of Step never dereferences nil.
THEOREM PollerHasDriver == Spec => []DriverStarted
  <1>1. ExecInv => DriverStarted
    BY DEF ExecInv, DriverInv
  <1> QED  BY <1>1, ExecInvariant, PTL

\* Block lets at most one event through before the next Unblock.
THEOREM BlockLetsOneThrough == Spec => []AtMostOneLate
  <1>1. ExecInv => AtMostOneLate
    BY DEF ExecInv, LateInv, AtMostOneLate
  <1> QED  BY <1>1, ExecInvariant, PTL

\* DispatchMessage makes at most one request with a message ID, for any number
\* of dispatch goroutines that run concurrently.
THEOREM DispatchedOnce == Spec => []SentOnce
  <1>1. ExecInv => SentOnce
    BY DEF ExecInv, DispatchInv, SentOnce
  <1> QED  BY <1>1, ExecInvariant, PTL

-----------------------------------------------------------------------------
(***************************************************************************)
(* The loop over the test cases: which have a verdict, and how often the   *)
(* replicas have restarted.                                                *)
(***************************************************************************)
Done == {t \in TestCases : verdict[t] # "none"}

\* The test cases that the loop has visited are the ones with a verdict, and
\* the current one until assert gives it one.
VisitInv ==
  /\ pc \in {"connect", "next", "restart", "collect", "flush", "clear"}
       => TestCases \ left = Done
  /\ pc \in {"unblock", "wait", "block", "assert"}
       => cur \in TestCases \ Done /\ TestCases \ left = Done \cup {cur}

\* A replica lags one restart behind from assert until it answers the
\* directive that RestartAll sends it; no directive is under way elsewhere,
\* except after a failure has ended the loop.
RestartInv ==
  /\ pc \in {"connect", "next", "unblock", "wait", "block", "assert", "flush", "clear"}
       => \A r \in Replicas : directive[r] # "sent" /\ life[r] = Cardinality(Done)
  /\ pc = "restart"
       => \A r \in Replicas : directive[r] # "sent" /\ life[r] + 1 = Cardinality(Done)
  /\ pc = "collect"
       => \A r \in Replicas :
            /\ directive[r] = "sent" => life[r] + 1 = Cardinality(Done)
            /\ directive[r] = "ok" => life[r] = Cardinality(Done)

\* The loop is left early only after Stop or after a failed restart.
EndInv ==
  /\ pc = "finish" => quit \/ \E r \in Replicas : directive[r] = "failed"
  /\ VerdictsComplete

RunInv == VisitInv /\ RestartInv /\ EndInv

\* Done is finite and its size a number; it changes with verdict only.
LEMMA DoneFinite ==
  /\ IsFiniteSet(Done) /\ Cardinality(Done) \in Nat
  <1>1. Done \in SUBSET TestCases
    BY DEF Done
  <1>2. IsFiniteSet(Done)
    BY <1>1, ExecutionAssumption, FS_Subset
  <1> QED  BY <1>2, FS_CardinalityType

\* In the initial state no test case has a verdict and no replica restarted.
LEMMA RunInit == Init => RunInv
  <1> SUFFICES ASSUME Init PROVE RunInv
    OBVIOUS
  <1>1. Done = {}
    BY DEF Init, Done
  <1>2. Cardinality(Done) = 0
    BY <1>1, FS_EmptySet
  <1>3. VisitInv
    BY <1>1 DEF Init, VisitInv
  <1>4. RestartInv
    BY <1>2 DEF Init, RestartInv
  <1>5. EndInv
    BY DEF Init, EndInv, VerdictsComplete
  <1> QED  BY <1>3, <1>4, <1>5 DEF RunInv

\* A step that changes none of the variables of the loop.
LEMMA RunFrame ==
  ASSUME RunInv, UNCHANGED <<mainVars, life, directive, quit>>
  PROVE  RunInv'
  <1> USE DEF mainVars
  <1>1. Done' = Done
    BY DEF Done
  <1>2. VisitInv'
    BY <1>1 DEF RunInv, VisitInv
  <1>3. RestartInv'
    BY <1>1 DEF RunInv, RestartInv
  <1>4. EndInv'
    BY DEF RunInv, EndInv, VerdictsComplete
  <1> QED  BY <1>2, <1>3, <1>4 DEF RunInv

\* The steps of execute that give no verdict and send no directive.
LEMMA RunMoves ==
  ASSUME RunInv, execute, ~assert, ~RestartAll
  PROVE  RunInv'
  <1> USE DEF RunInv
  <1>0. /\ life' = life /\ quit' = quit /\ verdict' = verdict /\ directive' = directive
    <2>1. life' = life /\ quit' = quit
      BY ExecuteFrame
    <2>2. verdict' = verdict /\ directive' = directive
      BY DEF execute, Connected, ConnectQuit, NewTestCase, Unblock, Complete, Timeout,
             WaitQuit, Block, CollectAll, CollectError, ResetFlush, ResetRemoveAll,
             CloseDone, replicaVars
    <2> QED  BY <2>1, <2>2
  <1>1. Done' = Done
    BY <1>0 DEF Done
  <1>2. VerdictsComplete' \/ pc' = "done"
    BY DEF VerdictsComplete
  <1>3. CASE Connected \/ ConnectQuit
    <2>1. pc = "connect" /\ pc' \in {"next", "returned"} /\ left' = left
      BY <1>3 DEF Connected, ConnectQuit
    <2>2. VisitInv'
      BY <1>1, <2>1 DEF VisitInv
    <2>3. RestartInv'
      BY <1>0, <1>1, <2>1 DEF RestartInv
    <2> QED  BY <1>2, <2>1, <2>2, <2>3 DEF EndInv
  <1>4. ASSUME NEW t \in TestCases, NewTestCase(t)
        PROVE  RunInv'
    <2>1. /\ pc = "next" /\ pc' = "unblock" /\ t \in left
          /\ left' = left \ {t} /\ cur' = t
      BY <1>4 DEF NewTestCase
    <2>2. TestCases \ left = Done
      BY <2>1 DEF VisitInv
    <2>3. t \in TestCases \ Done /\ TestCases \ (left \ {t}) = Done \cup {t}
      BY <2>1, <2>2
    <2>4. VisitInv'
      BY <1>1, <2>1, <2>3 DEF VisitInv
    <2>5. RestartInv'
      BY <1>0, <1>1, <2>1 DEF RestartInv
    <2> QED  BY <1>2, <2>1, <2>4, <2>5 DEF EndInv
  <1>5. CASE Unblock \/ Complete \/ Timeout \/ WaitQuit \/ Block
    <2>1. /\ pc \in {"unblock", "wait", "block"}
          /\ pc' \in {"wait", "block", "assert", "finish"}
          /\ pc' = "finish" => quit
          /\ left' = left /\ cur' = cur
      BY <1>5 DEF Unblock, Complete, Timeout, WaitQuit, Block
    <2>2. VisitInv'
      BY <1>1, <2>1 DEF VisitInv
    <2>3. RestartInv'
      BY <1>0, <1>1, <2>1 DEF RestartInv
    <2>4. EndInv'
      BY <1>0, <1>2, <2>1 DEF EndInv
    <2> QED  BY <2>2, <2>3, <2>4
  <1>6. CASE CollectAll \/ CollectError
    <2>1. /\ pc = "collect" /\ pc' \in {"flush", "finish"}
          /\ pc' = "flush" => \A r \in Replicas : directive[r] = "ok"
          /\ pc' = "finish" => \E r \in Replicas : directive[r] = "failed"
          /\ left' = left
      BY <1>6 DEF CollectAll, CollectError
    <2>2. VisitInv'
      BY <1>1, <2>1 DEF VisitInv
    <2>3. RestartInv'
      BY <1>0, <1>1, <2>1 DEF RestartInv
    <2>4. EndInv'
      BY <1>0, <1>2, <2>1 DEF EndInv
    <2> QED  BY <2>2, <2>3, <2>4
  <1>7. CASE ResetFlush \/ ResetRemoveAll
    <2>1. pc \in {"flush", "clear"} /\ pc' \in {"clear", "next"} /\ left' = left
      BY <1>7 DEF ResetFlush, ResetRemoveAll
    <2>2. VisitInv'
      BY <1>1, <2>1 DEF VisitInv
    <2>3. RestartInv'
      BY <1>0, <1>1, <2>1 DEF RestartInv
    <2> QED  BY <1>2, <2>1, <2>2, <2>3 DEF EndInv
  <1>8. CASE CloseDone
    <2>1. pc' = "done" /\ (pc = "finish" \/ (pc = "next" /\ left = {}))
      BY <1>8 DEF CloseDone
    <2>2. VisitInv' /\ RestartInv'
      BY <2>1 DEF VisitInv, RestartInv
    <2>3. CASE pc = "finish"
      BY <1>0, <2>1, <2>2, <2>3 DEF EndInv, VerdictsComplete
    <2>4. CASE pc = "next" /\ left = {}
      <3>1. TestCases = Done
        BY <2>4 DEF VisitInv
      <3>2. \A t \in TestCases : verdict[t] # "none"
        BY <3>1 DEF Done
      <3> QED  BY <1>0, <2>1, <2>2, <3>2 DEF EndInv, VerdictsComplete
    <2> QED  BY <2>1, <2>2, <2>3, <2>4 DEF EndInv
  <1> QED  BY <1>3, <1>4, <1>5, <1>6, <1>7, <1>8 DEF execute

\* assert gives the current test case its only verdict: from here on every
\* replica lags one restart behind.
LEMMA RunAssert ==
  ASSUME TypeOK, RunInv, assert
  PROVE  RunInv'
  <1> USE DEF RunInv
  <1>0. /\ pc = "assert" /\ pc' = "restart"
        /\ UNCHANGED <<left, cur, life, directive, quit>>
        /\ verdict' = [verdict EXCEPT ![cur] =
                         IF machine[cur] = "success" THEN "succeed" ELSE "fail"]
    BY DEF assert, replicaVars
  <1>1. cur \in TestCases \ Done /\ TestCases \ left = Done \cup {cur}
    BY <1>0 DEF VisitInv
  <1>2. Done' = Done \cup {cur}
    <2>1. verdict \in [TestCases -> {"none", "succeed", "fail"}]
      BY DEF TypeOK, MainTypes
    <2>2. /\ verdict'[cur] # "none"
          /\ \A t \in TestCases : t # cur => verdict'[t] = verdict[t]
      BY <1>0, <1>1, <2>1
    <2> QED  BY <1>1, <2>2 DEF Done
  <1>3. Cardinality(Done \cup {cur}) = Cardinality(Done) + 1
    BY <1>1, DoneFinite, FS_AddElement
  <1>4. \A r \in Replicas : directive[r] # "sent" /\ life[r] = Cardinality(Done)
    BY <1>0 DEF RestartInv
  <1>5. VisitInv'
    BY <1>0, <1>1, <1>2 DEF VisitInv
  <1>6. RestartInv'
    BY <1>0, <1>2, <1>3, <1>4 DEF RestartInv
  <1>7. EndInv'
    BY <1>0 DEF EndInv, VerdictsComplete
  <1> QED  BY <1>5, <1>6, <1>7

\* RestartAll sends every replica the directive that makes up for the lag.
LEMMA RunRestartAll ==
  ASSUME RunInv, RestartAll
  PROVE  RunInv'
  <1> USE DEF RunInv
  <1>0. /\ pc = "restart" /\ pc' = "collect"
        /\ UNCHANGED <<left, cur, verdict, life, quit>>
        /\ directive' = [r \in Replicas |-> "sent"]
    BY DEF RestartAll
  <1>1. Done' = Done
    BY <1>0 DEF Done
  <1>2. VisitInv'
    BY <1>0, <1>1 DEF VisitInv
  <1>3. \A r \in Replicas : life[r] + 1 = Cardinality(Done)
    BY <1>0 DEF RestartInv
  <1>4. RestartInv'
    BY <1>0, <1>1, <1>3 DEF RestartInv
  <1>5. EndInv'
    BY <1>0 DEF EndInv, VerdictsComplete
  <1> QED  BY <1>2, <1>4, <1>5

\* A replica restarts only while RestartAll collects its answer, or after the
\* loop has ended; its answer undoes no failure.
LEMMA RunDirective ==
  ASSUME TypeOK, RunInv, NEW r \in Replicas, NEW reply \in {"ok", "failed"},
         HandleDirective(r, reply)
  PROVE  RunInv'
  <1> USE DEF RunInv
  <1>0. /\ directive[r] = "sent"
        /\ UNCHANGED <<pc, left, cur, verdict, quit>>
        /\ directive' = [directive EXCEPT ![r] = reply]
        /\ life' = [life EXCEPT ![r] = @ + 1] \/ (reply = "failed" /\ life' = life)
    BY DEF HandleDirective, mainVars
  <1>1. Done' = Done
    BY <1>0 DEF Done
  <1>2. /\ life \in [Replicas -> Nat]
        /\ directive \in [Replicas -> {"none", "sent", "ok", "failed"}]
    BY DEF TypeOK, ReplicaTypes
  <1>3. /\ directive'[r] = reply
        /\ reply = "ok" => life'[r] = life[r] + 1
        /\ \A q \in Replicas : q # r => /\ directive'[q] = directive[q]
                                        /\ life'[q] = life[q]
    BY <1>0, <1>2
  <1>4. pc \in {"collect", "finish", "done", "returned"}
    <2>1. pc \in {"connect", "next", "unblock", "wait", "block", "assert", "restart",
                  "collect", "flush", "clear", "finish", "done", "returned"}
      BY DEF TypeOK, MainTypes
    <2> QED  BY <1>0, <2>1 DEF RestartInv
  <1>5. VisitInv'
    BY <1>0, <1>1 DEF VisitInv
  <1>6. RestartInv'
    <2>1. CASE pc = "collect"
      <3>1. life[r] + 1 = Cardinality(Done)
        BY <1>0, <2>1 DEF RestartInv
      <3>2. \A q \in Replicas :
              /\ directive'[q] = "sent" => life'[q] + 1 = Cardinality(Done)
              /\ directive'[q] = "ok" => life'[q] = Cardinality(Done)
        BY <1>3, <2>1, <3>1 DEF RestartInv
      <3> QED  BY <1>0, <1>1, <2>1, <3>2 DEF RestartInv
    <2>2. CASE pc # "collect"
      BY <1>0, <1>4, <2>2 DEF RestartInv
    <2> QED  BY <2>1, <2>2
  <1>7. \A q \in Replicas : directive[q] = "failed" => directive'[q] = "failed"
    BY <1>0, <1>3
  <1>8. EndInv'
    BY <1>0, <1>7 DEF EndInv, VerdictsComplete
  <1> QED  BY <1>5, <1>6, <1>8

\* Stop only adds a reason for which the loop may be left.
LEMMA RunStop ==
  ASSUME RunInv, StopRunning
  PROVE  RunInv'
  <1> USE DEF RunInv
  <1>0. UNCHANGED <<pc, left, cur, verdict, life, directive>> /\ quit' = TRUE
    BY DEF StopRunning, mainVars, replicaVars
  <1>1. Done' = Done
    BY <1>0 DEF Done
  <1>2. VisitInv'
    BY <1>0, <1>1 DEF VisitInv
  <1>3. RestartInv'
    BY <1>0, <1>1 DEF RestartInv
  <1>4. EndInv'
    BY <1>0 DEF EndInv, VerdictsComplete
  <1> QED  BY <1>2, <1>3, <1>4

\* Every step of every process preserves the invariant of the loop.
LEMMA RunStep ==
  ASSUME TypeOK, RunInv, [Next]_vars
  PROVE  RunInv'
  <1>1. CASE execute
    <2>1. CASE assert
      BY <2>1, RunAssert
    <2>2. CASE RestartAll
      BY <2>2, RunRestartAll
    <2>3. CASE ~assert /\ ~RestartAll
      BY <1>1, <2>3, RunMoves
    <2> QED  BY <2>1, <2>2, <2>3
  <1>2. CASE pollEvents
    <2>1. UNCHANGED <<mainVars, life, directive, quit>>
      BY <1>2, PollFrame DEF replicaVars
    <2> QED  BY <2>1, RunFrame
  <1>3. CASE dispatchMessages
    <2>1. UNCHANGED <<mainVars, life, directive, quit>>
      BY <1>3, DispatchFrame DEF replicaVars
    <2> QED  BY <2>1, RunFrame
  <1>4. CASE environment
    <2>1. CASE StopRunning
      BY <2>1, RunStop
    <2>2. ASSUME NEW r \in Replicas, NEW reply \in {"ok", "failed"},
                 HandleDirective(r, reply)
          PROVE  RunInv'
      BY <2>2, RunDirective
    <2>3. ASSUME NEW r \in Replicas,
                 HandleReplicaPost(r) \/ HandleMessage(r) \/ HandleEvent(r)
          PROVE  RunInv'
      <3>1. UNCHANGED <<mainVars, life, directive, quit>>
        BY <2>3 DEF HandleReplicaPost, HandleMessage, HandleEvent
      <3> QED  BY <3>1, RunFrame
    <2>4. ASSUME NEW e \in queued, HandOver(e) \/ Overlook(e)
          PROVE  RunInv'
      <3>1. UNCHANGED <<mainVars, life, directive, quit>>
        BY <2>4 DEF HandOver, Overlook, replicaVars
      <3> QED  BY <3>1, RunFrame
    <2> QED  BY <1>4, <2>1, <2>2, <2>3, <2>4 DEF environment
  <1>5. CASE UNCHANGED vars
    <2>1. UNCHANGED <<mainVars, life, directive, quit>>
      BY <1>5 DEF vars, replicaVars
    <2> QED  BY <2>1, RunFrame
  <1> QED  BY <1>1, <1>2, <1>3, <1>4, <1>5 DEF Next

\* The invariant of the loop over the test cases.
THEOREM RunInvariant == Spec => []RunInv
  <1>1. Init => RunInv
    BY RunInit
  <1>2. TypeOK /\ RunInv /\ [Next]_vars => RunInv'
    BY RunStep
  <1> QED  BY <1>1, <1>2, TestExecutionTypes, PTL DEF Spec

\* While the n-th test case runs, every replica has restarted exactly n - 1
\* times, for any number of replicas and test cases: no test case starts on
\* replicas that kept the state of the one before, whatever order the answers
\* to the directives arrive in.
THEOREM ReplicasRestarted == Spec => []RestartedBetween
  <1>1. RunInv => RestartedBetween
    BY DEF RunInv, RestartInv, RestartedBetween, Done
  <1> QED  BY <1>1, RunInvariant, PTL

\* When execute closes doneCh, every test case has its verdict unless Stop was
\* called or a replica could not be restarted.
THEOREM VerdictForEach == Spec => []VerdictsComplete
  <1>1. RunInv => VerdictsComplete
    BY DEF RunInv, EndInv
  <1> QED  BY <1>1, RunInvariant, PTL

=============================================================================
