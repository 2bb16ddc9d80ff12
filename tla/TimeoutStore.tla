---------------------------- MODULE TimeoutStore ----------------------------
(***************************************************************************)
(* types.TimeoutStore (types/timeout.go) as testlib.TimeoutDriver          *)
(* (testlib/timeouts.go) drives it.  A key is a replica together with the  *)
(* type of a timeout; a timeout is a key and a number that tells its       *)
(* starts apart.  Every timeout has a goroutine, scheduleTimeout, that     *)
(* outlives Reset: a timer started before Reset may fire after it.         *)
(*                                                                         *)
(* A replica starts a timeout of a key again only after the last one was   *)
(* dispatched to it, or after the Reset between two test cases.            *)
(***************************************************************************)
EXTENDS Integers, Sequences, FiniteSets

CONSTANTS Keys,       \* replica_type pairs
          OutCap,     \* capacity of outChan (10 in the code)
          MaxStarts,  \* bound: timeouts started per key
          MaxResets   \* bound: calls of Reset

ASSUME OutCapAssumption == OutCap \in Nat \ {0}
ASSUME StoreBounds == MaxStarts \in Nat /\ MaxResets \in Nat

Timeouts == Keys \X (1 .. MaxStarts)
Callers == {"Reset", "Stop"}        \* the two callers of flush
NoTimeout == <<>>

VARIABLES
  timeouts,  \* keys of the map s.timeouts
  sleeping,  \* goroutines in the select of scheduleTimeout
  sending,   \* goroutines whose time.After fired, at s.outChan <- t
  outChan,
  poll,      \* timeout that poll has received and not handled, or NoTimeout
  polling,   \* poll has not returned
  ready,     \* s.ready
  at,        \* Reset and Stop: "idle", "len", "recv" (in flush), "after", "done"
  quit,      \* QuitCh() is closed
  panicked,
  armed,     \* keys whose timeout the replica is waiting for
  started,   \* number of timeouts started for each key
  resets

vars == <<timeouts, sleeping, sending, outChan, poll, polling, ready, at, quit,
          panicked, armed, started, resets>>

Init ==
  /\ timeouts = {} /\ sleeping = {} /\ sending = {}
  /\ outChan = <<>> /\ poll = NoTimeout /\ polling = TRUE
  /\ ready = {}
  /\ at = [c \in Callers |-> "idle"]
  /\ quit = FALSE /\ panicked = FALSE
  /\ armed = {} /\ started = [k \in Keys |-> 0] /\ resets = 0

(***************************************************************************)
(* The driver: NewEvent and ToDispatch.                                    *)
(***************************************************************************)
\* The event TimeoutStart of a replica: AddTimeout panics when the key has a
\* timeout, otherwise it starts the timer.
AddTimeout(k) ==
  /\ ~panicked
  /\ k \notin armed
  /\ started[k] < MaxStarts
  /\ armed' = armed \cup {k}
  /\ started' = [started EXCEPT ![k] = @ + 1]
  /\ IF k \in timeouts
     THEN panicked' = TRUE /\ UNCHANGED <<timeouts, sleeping>>
     ELSE /\ timeouts' = timeouts \cup {k}
          /\ sleeping' = sleeping \cup {<<k, started[k] + 1>>}
          /\ UNCHANGED panicked
  /\ UNCHANGED <<sending, outChan, poll, polling, ready, at, quit, resets>>

\* The fired timeouts are handed to the dispatcher, which ends them in their
\* replicas.
ToDispatch ==
  /\ ready # {}
  /\ ready' = {}
  /\ armed' = armed \ {t[1] : t \in ready}
  /\ UNCHANGED <<timeouts, sleeping, sending, outChan, poll, polling, at, quit,
                 panicked, started, resets>>

(***************************************************************************)
(* scheduleTimeout.                                                        *)
(***************************************************************************)
Fire(t) ==
  /\ t \in sleeping
  /\ sleeping' = sleeping \ {t}
  /\ sending' = sending \cup {t}
  /\ UNCHANGED <<timeouts, outChan, poll, polling, ready, at, quit, panicked,
                 armed, started, resets>>

\* Mutant of Send: a select with a default case, which drops the timeout when
\* the channel is full.
SendOrDrop(t) ==
  /\ t \in sending
  /\ sending' = sending \ {t}
  /\ outChan' = IF Len(outChan) < OutCap THEN Append(outChan, t) ELSE outChan
  /\ UNCHANGED <<timeouts, sleeping, poll, polling, ready, at, quit, panicked,
                 armed, started, resets>>

Send(t) ==
  /\ t \in sending
  /\ Len(outChan) < OutCap
  /\ sending' = sending \ {t}
  /\ outChan' = Append(outChan, t)
  /\ UNCHANGED <<timeouts, sleeping, poll, polling, ready, at, quit, panicked,
                 armed, started, resets>>

\* The other case of the select.
TimerQuit(t) ==
  /\ t \in sleeping
  /\ quit
  /\ sleeping' = sleeping \ {t}
  /\ UNCHANGED <<timeouts, sending, outChan, poll, polling, ready, at, quit,
                 panicked, armed, started, resets>>

(***************************************************************************)
(* poll.                                                                   *)
(***************************************************************************)
PollReceive ==
  /\ polling
  /\ poll = NoTimeout
  /\ outChan # <<>>
  /\ poll' = Head(outChan)
  /\ outChan' = Tail(outChan)
  /\ UNCHANGED <<timeouts, sleeping, sending, polling, ready, at, quit, panicked,
                 armed, started, resets>>

\* Mutant of PollEnd: the key stays in the map.
PollEndKeepsKey ==
  /\ poll # NoTimeout
  /\ ready' = IF poll[1] \in timeouts THEN ready \cup {poll} ELSE ready
  /\ poll' = NoTimeout
  /\ UNCHANGED <<timeouts, sleeping, sending, outChan, polling, at, quit, panicked,
                 armed, started, resets>>

\* Mutant of PollEnd: the test that the timeout is pending is missing.
PollEndUnchecked ==
  /\ poll # NoTimeout
  /\ ready' = ready \cup {poll}
  /\ timeouts' = timeouts \ {poll[1]}
  /\ poll' = NoTimeout
  /\ UNCHANGED <<sleeping, sending, outChan, polling, at, quit, panicked,
                 armed, started, resets>>

\* The critical section: only the key is looked up, so the timeout received
\* may be one started before Reset.
PollEnd ==
  /\ poll # NoTimeout
  /\ ready' = IF poll[1] \in timeouts THEN ready \cup {poll} ELSE ready
  /\ timeouts' = timeouts \ {poll[1]}
  /\ poll' = NoTimeout
  /\ UNCHANGED <<sleeping, sending, outChan, polling, at, quit, panicked,
                 armed, started, resets>>

PollQuit ==
  /\ polling
  /\ poll = NoTimeout
  /\ quit
  /\ polling' = FALSE
  /\ UNCHANGED <<timeouts, sleeping, sending, outChan, poll, ready, at, quit,
                 panicked, armed, started, resets>>

(***************************************************************************)
(* Reset and Stop.                                                         *)
(***************************************************************************)
Reset ==
  /\ at["Reset"] = "idle"
  /\ resets < MaxResets
  /\ resets' = resets + 1
  /\ at' = [at EXCEPT !["Reset"] = "len"]
  /\ UNCHANGED <<timeouts, sleeping, sending, outChan, poll, polling, ready, quit,
                 panicked, armed, started>>

Stop ==
  /\ at["Stop"] = "idle"
  /\ quit' = TRUE
  /\ at' = [at EXCEPT !["Stop"] = "len"]
  /\ UNCHANGED <<timeouts, sleeping, sending, outChan, poll, polling, ready,
                 panicked, armed, started, resets>>

FlushLen(c) ==
  /\ at[c] = "len"
  /\ at' = [at EXCEPT ![c] = IF outChan = <<>> THEN "after" ELSE "recv"]
  /\ UNCHANGED <<timeouts, sleeping, sending, outChan, poll, polling, ready, quit,
                 panicked, armed, started, resets>>

\* Blocks when poll has emptied the channel since FlushLen.
FlushReceive(c) ==
  /\ at[c] = "recv"
  /\ outChan # <<>>
  /\ outChan' = Tail(outChan)
  /\ at' = [at EXCEPT ![c] = "len"]
  /\ UNCHANGED <<timeouts, sleeping, sending, poll, polling, ready, quit,
                 panicked, armed, started, resets>>

\* Mutant of ResetMaps: the map of pending timeouts is kept.
ResetReady ==
  /\ at["Reset"] = "after"
  /\ ready' = {}
  /\ armed' = armed \ {t[1] : t \in ready}
  /\ at' = [at EXCEPT !["Reset"] = "idle"]
  /\ UNCHANGED <<timeouts, sleeping, sending, outChan, poll, polling, quit,
                 panicked, started, resets>>

\* The critical section of Reset; the restarted replicas wait for nothing.
ResetMaps ==
  /\ at["Reset"] = "after"
  /\ ready' = {}
  /\ timeouts' = {}
  /\ armed' = {}
  /\ at' = [at EXCEPT !["Reset"] = "idle"]
  /\ UNCHANGED <<sleeping, sending, outChan, poll, polling, quit,
                 panicked, started, resets>>

\* wg.Wait returns when no timer is left.
StopReturn ==
  /\ at["Stop"] = "after"
  /\ sleeping \cup sending = {}
  /\ at' = [at EXCEPT !["Stop"] = "done"]
  /\ UNCHANGED <<timeouts, sleeping, sending, outChan, poll, polling, ready, quit,
                 panicked, armed, started, resets>>

Next ==
  \/ \E k \in Keys : AddTimeout(k)
  \/ ToDispatch
  \/ \E t \in Timeouts : Fire(t) \/ Send(t) \/ TimerQuit(t)
  \/ PollReceive \/ PollEnd \/ PollQuit
  \/ Reset \/ Stop \/ ResetMaps \/ StopReturn
  \/ \E c \in Callers : FlushLen(c) \/ FlushReceive(c)

Spec == Init /\ [][Next]_vars

\* Timers fire, poll runs, and a receive from the channel is not starved: a
\* timeout is not postponed for ever.  Nothing is assumed of the callers of
\* AddTimeout, ToDispatch, Reset and Stop.
FairSpec ==
  /\ Spec
  /\ \A t \in Timeouts : WF_vars(Fire(t)) /\ WF_vars(Send(t))
  /\ WF_vars(PollReceive) /\ WF_vars(PollEnd)

(***************************************************************************)
(* Properties.                                                             *)
(***************************************************************************)
TypeOK ==
  /\ timeouts \subseteq Keys
  /\ sleeping \subseteq Timeouts
  /\ sending \subseteq Timeouts
  /\ outChan \in Seq(Timeouts)
  /\ Len(outChan) <= OutCap
  /\ poll \in Timeouts \cup {NoTimeout}
  /\ polling \in BOOLEAN
  /\ ready \subseteq Timeouts
  /\ at \in [Callers -> {"idle", "len", "recv", "after", "done"}]
  /\ quit \in BOOLEAN
  /\ panicked \in BOOLEAN
  /\ armed \subseteq Keys
  /\ started \in [Keys -> 0 .. MaxStarts]
  /\ resets \in 0 .. MaxResets

\* A replica waits either for a timer of its key or for the dispatch of its
\* timeout, never for both and never for two: a stale timer of an earlier test
\* case may take the place of the pending one, but adds nothing to it.
EndedOnce ==
  /\ timeouts \cup {t[1] : t \in ready} = armed
  /\ \A t \in ready : t[1] \notin timeouts
  /\ \A t, u \in ready : t[1] = u[1] => t = u

\* The assertion of AddTimeout ("Not expecting multiple timeouts of same type
\* in the same replica") holds for replicas that wait for the end of a timeout
\* before they start it again.
NoPanic == ~panicked

\* The timers, fired or not, that poll has still to handle.
InFlight ==
  sleeping \cup sending \cup {outChan[i] : i \in 1 .. Len(outChan)} \cup
  ({poll} \ {NoTimeout})

\* Every pending timeout can still end: a timer of its key is in flight, unless
\* Reset is discarding the channel, after which it clears the map, or the store
\* was stopped.
PendingHasTimer ==
  \A k \in timeouts :
    \/ \E t \in InFlight : t[1] = k
    \/ at["Reset"] # "idle"
    \/ quit

\* A pending timeout becomes ready, whatever other timers and calls of
\* ToDispatch do, unless Reset or Stop interferes.
EventuallyReady ==
  \A k \in Keys : k \in timeouts ~> (k \notin timeouts \/ at["Reset"] # "idle" \/ quit)

=============================================================================
