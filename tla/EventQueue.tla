------------------------------ MODULE EventQueue ------------------------------
(***************************************************************************)
(* types.EventQueue (types/events.go).  types.ReplicaLogQueue              *)
(* (types/replica_telemetry.go) is the same code over logs.                *)
(***************************************************************************)
EXTENDS DispatchQueue

Add == Enqueue

dispatchloop ==
  \/ ReadHead
  \/ ReadEmpty
  \/ \E s \in Subs : SpawnSender(s)
  \/ PopUnchecked

Next ==
  \/ Add
  \/ Flush
  \/ StopRunning
  \/ StopReturn
  \/ dispatchloop
  \/ \E s \in Subs : Take(s)
  \/ \E s \in Subs, i \in Items : Send(s, i) \/ SenderQuit(s, i)

Spec == QInit /\ [][Next]_qvars

\* Nothing is assumed of the subscribers: they may stop receiving.
FairSpec == Spec /\ LoopFairness /\ WF_qvars(PopUnchecked)

=============================================================================
