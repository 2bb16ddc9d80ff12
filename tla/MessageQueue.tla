----------------------------- MODULE MessageQueue -----------------------------
(***************************************************************************)
(* types.MessageQueue (types/messages.go): as EventQueue, but the loop     *)
(* removes the head with Pop, and a disabled queue drops what is added.    *)
(***************************************************************************)
EXTENDS DispatchQueue

CONSTANT MaxToggles   \* bound: number of calls of Disable and Enable

ASSUME MaxTogglesAssumption == MaxToggles \in Nat

VARIABLES enabled,    \* q.enabled
          toggles     \* number of calls of Disable and Enable so far

vars == <<qvars, enabled, toggles>>

Init == QInit /\ enabled = TRUE /\ toggles = 0

Add ==
  /\ enabled
  /\ Enqueue
  /\ UNCHANGED <<enabled, toggles>>

Disable ==
  /\ Alive
  /\ toggles < MaxToggles
  /\ enabled' = FALSE
  /\ toggles' = toggles + 1
  /\ UNCHANGED qvars

Enable ==
  /\ Alive
  /\ toggles < MaxToggles
  /\ enabled' = TRUE
  /\ toggles' = toggles + 1
  /\ UNCHANGED qvars

dispatchloop ==
  \/ ReadHead
  \/ ReadEmpty
  \/ \E s \in Subs : SpawnSender(s)
  \/ Pop

Next ==
  \/ Add
  \/ Disable
  \/ Enable
  \/ /\ \/ Flush
        \/ StopRunning
        \/ StopReturn
        \/ dispatchloop
        \/ \E s \in Subs : Take(s)
        \/ \E s \in Subs, i \in Items : Send(s, i) \/ SenderQuit(s, i)
     /\ UNCHANGED <<enabled, toggles>>

Spec == Init /\ [][Next]_vars

\* Nothing is assumed of the subscribers: they may stop receiving.
FairSpec == Spec /\ LoopFairness /\ WF_qvars(Pop)

\* The counter and the slice agree whatever Flush does between the critical
\* sections of the loop: neither the read of messages[0] nor Pop can fail.
SizeMatches == size = Len(queue) /\ Alive

=============================================================================
