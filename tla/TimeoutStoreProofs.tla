------------------------- MODULE TimeoutStoreProofs -------------------------
(***************************************************************************)
(* Proofs about TimeoutStore, for any keys, capacity and bounds.           *)
(***************************************************************************)
EXTENDS TimeoutStore, TLAPS

\* What Stop has done before it flushes.
StopQuits == at["Stop"] # "idle" => quit

\* The inductive invariant.  EndedOnce keeps AddTimeout from panicking: a
\* replica that starts a timeout has none in the map.
StoreInv == TypeOK /\ EndedOnce /\ NoPanic /\ StopQuits /\ PendingHasTimer

\* The contents of a channel after a receive and after a send.
LEMMA ChannelReceive ==
  ASSUME NEW S, NEW c \in Seq(S), c # <<>>
  PROVE  /\ Head(c) \in S
         /\ Tail(c) \in Seq(S)
         /\ Len(Tail(c)) = Len(c) - 1
         /\ {c[i] : i \in 1 .. Len(c)} =
              {Head(c)} \cup {Tail(c)[i] : i \in 1 .. Len(Tail(c))}
<1>1. /\ Head(c) = c[1] /\ Len(c) \in Nat /\ Len(c) >= 1
      /\ Head(c) \in S /\ Tail(c) \in Seq(S) /\ Len(Tail(c)) = Len(c) - 1
  OBVIOUS
<1>2. \A i \in 1 .. Len(Tail(c)) : Tail(c)[i] = c[i + 1]
  OBVIOUS
<1>3. ASSUME NEW i \in 1 .. Len(c)
      PROVE  c[i] \in {Head(c)} \cup {Tail(c)[j] : j \in 1 .. Len(Tail(c))}
  <2>1. CASE i = 1 BY <2>1, <1>1
  <2>2. CASE i # 1
    <3>1. i - 1 \in 1 .. Len(Tail(c)) BY <2>2, <1>1
    <3>2. Tail(c)[i - 1] = c[i] BY <3>1, <1>2
    <3> QED BY <3>1, <3>2
  <2> QED BY <2>1, <2>2
<1>4. ASSUME NEW j \in 1 .. Len(Tail(c))
      PROVE  Tail(c)[j] \in {c[i] : i \in 1 .. Len(c)}
  <2>1. j + 1 \in 1 .. Len(c) BY <1>1
  <2> QED BY <2>1, <1>2
<1>5. Head(c) \in {c[i] : i \in 1 .. Len(c)} BY <1>1
<1> QED BY <1>1, <1>3, <1>4, <1>5

LEMMA ChannelSend ==
  ASSUME NEW S, NEW c \in Seq(S), NEW x \in S
  PROVE  /\ Append(c, x) \in Seq(S)
         /\ Len(Append(c, x)) = Len(c) + 1
         /\ {Append(c, x)[i] : i \in 1 .. Len(Append(c, x))} =
              {c[i] : i \in 1 .. Len(c)} \cup {x}
<1>1. Len(c) \in Nat /\ Append(c, x) \in Seq(S) /\ Len(Append(c, x)) = Len(c) + 1
  OBVIOUS
<1>2. \A i \in 1 .. Len(c) : Append(c, x)[i] = c[i]
  OBVIOUS
<1>3. Append(c, x)[Len(c) + 1] = x
  OBVIOUS
<1>4. 1 .. Len(Append(c, x)) = (1 .. Len(c)) \cup {Len(c) + 1} BY <1>1
<1> QED BY <1>1, <1>2, <1>3, <1>4

LEMMA StoreInit == Init => StoreInv
<1> SUFFICES ASSUME Init PROVE StoreInv OBVIOUS
<1> USE DEF Init
<1>1. TypeOK
  <2>1. outChan \in Seq(Timeouts) /\ Len(outChan) <= OutCap
    BY OutCapAssumption
  <2>2. at \in [Callers -> {"idle", "len", "recv", "after", "done"}] OBVIOUS
  <2>3. started \in [Keys -> 0 .. MaxStarts] BY StoreBounds
  <2>4. resets \in 0 .. MaxResets BY StoreBounds
  <2>5. poll \in Timeouts \cup {NoTimeout} OBVIOUS
  <2>6. /\ timeouts \subseteq Keys /\ sleeping \subseteq Timeouts
        /\ sending \subseteq Timeouts /\ ready \subseteq Timeouts
        /\ armed \subseteq Keys
    OBVIOUS
  <2>7. polling \in BOOLEAN /\ quit \in BOOLEAN /\ panicked \in BOOLEAN OBVIOUS
  <2> QED BY <2>1, <2>2, <2>3, <2>4, <2>5, <2>6, <2>7 DEF TypeOK
<1>2. EndedOnce BY DEF EndedOnce
<1>3. NoPanic BY DEF NoPanic
<1>4. StopQuits BY DEF StopQuits, Callers
<1>5. PendingHasTimer BY DEF PendingHasTimer
<1> QED BY <1>1, <1>2, <1>3, <1>4, <1>5 DEF StoreInv

\* A timeout is not the empty tuple that stands for none.
LEMMA TimeoutIsPair ==
  ASSUME NEW t \in Timeouts
  PROVE  t # NoTimeout /\ t[1] \in Keys /\ t = <<t[1], t[2]>>
BY DEF Timeouts, NoTimeout

LEMMA StoreNext == StoreInv /\ [Next]_vars => StoreInv'
<1> SUFFICES ASSUME StoreInv, [Next]_vars PROVE StoreInv' OBVIOUS
<1>0. TypeOK /\ EndedOnce /\ NoPanic /\ StopQuits /\ PendingHasTimer
  BY DEF StoreInv
<1>1. ASSUME NEW k \in Keys, AddTimeout(k) PROVE StoreInv'
  <2>1. k \notin timeouts /\ k \notin {t[1] : t \in ready}
    BY <1>0, <1>1 DEF EndedOnce, AddTimeout
  <2> DEFINE new == <<k, started[k] + 1>>
  <2>2. /\ timeouts' = timeouts \cup {k}
        /\ sleeping' = sleeping \cup {new}
        /\ armed' = armed \cup {k}
        /\ started' = [started EXCEPT ![k] = @ + 1]
        /\ UNCHANGED <<panicked, sending, outChan, poll, polling, ready, at, quit, resets>>
    BY <1>1, <2>1 DEF AddTimeout
  <2>3. new \in Timeouts /\ started' \in [Keys -> 0 .. MaxStarts]
    BY <1>0, <1>1, <2>2, StoreBounds DEF TypeOK, AddTimeout, Timeouts
  <2>4. TypeOK' BY <1>0, <2>2, <2>3 DEF TypeOK
  <2>5. EndedOnce' BY <1>0, <2>1, <2>2 DEF EndedOnce
  <2>6. NoPanic' BY <1>0, <2>2 DEF NoPanic
  <2>7. StopQuits' BY <1>0, <2>2 DEF StopQuits
  <2>8. new \in InFlight' /\ new[1] = k BY <2>2 DEF InFlight
  <2>9. InFlight \subseteq InFlight' BY <2>2 DEF InFlight
  <2>10. PendingHasTimer' BY <1>0, <2>2, <2>8, <2>9 DEF PendingHasTimer
  <2> QED BY <2>4, <2>5, <2>6, <2>7, <2>10 DEF StoreInv
<1>2. CASE ToDispatch
  <2> USE <1>0, <1>2 DEF ToDispatch
  <2>1. TypeOK' BY DEF TypeOK
  <2>2. EndedOnce' BY DEF EndedOnce
  <2>3. NoPanic' /\ StopQuits' BY DEF NoPanic, StopQuits
  <2>4. PendingHasTimer' BY DEF PendingHasTimer, InFlight
  <2> QED BY <2>1, <2>2, <2>3, <2>4 DEF StoreInv
<1>3. ASSUME NEW t \in Timeouts, Fire(t) PROVE StoreInv'
  <2> USE <1>0, <1>3 DEF Fire
  <2>1. TypeOK' BY DEF TypeOK
  <2>2. EndedOnce' /\ NoPanic' /\ StopQuits' BY DEF EndedOnce, NoPanic, StopQuits
  <2>3. InFlight' = InFlight BY DEF InFlight
  <2>4. PendingHasTimer' BY <2>3 DEF PendingHasTimer
  <2> QED BY <2>1, <2>2, <2>4 DEF StoreInv
<1>4. ASSUME NEW t \in Timeouts, Send(t) PROVE StoreInv'
  <2>1. /\ outChan' \in Seq(Timeouts) /\ Len(outChan') = Len(outChan) + 1
        /\ {outChan'[i] : i \in 1 .. Len(outChan')} =
             {outChan[i] : i \in 1 .. Len(outChan)} \cup {t}
    BY <1>0, <1>4, ChannelSend DEF TypeOK, Send
  <2>2. TypeOK' BY <1>0, <1>4, <2>1, OutCapAssumption DEF TypeOK, Send
  <2>3. EndedOnce' /\ NoPanic' /\ StopQuits'
    BY <1>0, <1>4 DEF Send, EndedOnce, NoPanic, StopQuits
  <2>4. InFlight \subseteq InFlight' BY <1>4, <2>1 DEF InFlight, Send
  <2>5. PendingHasTimer' BY <1>0, <1>4, <2>4 DEF PendingHasTimer, Send
  <2> QED BY <2>2, <2>3, <2>5 DEF StoreInv
<1>5. ASSUME NEW t \in Timeouts, TimerQuit(t) PROVE StoreInv'
  <2> USE <1>0, <1>5 DEF TimerQuit
  <2>1. TypeOK' BY DEF TypeOK
  <2>2. EndedOnce' /\ NoPanic' /\ StopQuits' BY DEF EndedOnce, NoPanic, StopQuits
  <2>3. PendingHasTimer' BY DEF PendingHasTimer
  <2> QED BY <2>1, <2>2, <2>3 DEF StoreInv
<1>6. CASE PollReceive
  <2>1. /\ poll' \in Timeouts
        /\ outChan' \in Seq(Timeouts) /\ Len(outChan') = Len(outChan) - 1
        /\ {outChan[i] : i \in 1 .. Len(outChan)} =
             {poll'} \cup {outChan'[i] : i \in 1 .. Len(outChan')}
    BY <1>0, <1>6, ChannelReceive DEF TypeOK, PollReceive
  <2>2. TypeOK' BY <1>0, <1>6, <2>1, OutCapAssumption DEF TypeOK, PollReceive
  <2>3. EndedOnce' /\ NoPanic' /\ StopQuits'
    BY <1>0, <1>6 DEF PollReceive, EndedOnce, NoPanic, StopQuits
  <2>4. poll' # NoTimeout BY <2>1, TimeoutIsPair
  <2>5. InFlight \subseteq InFlight' BY <1>6, <2>1, <2>4 DEF InFlight, PollReceive
  <2>6. PendingHasTimer' BY <1>0, <1>6, <2>5 DEF PendingHasTimer, PollReceive
  <2> QED BY <2>2, <2>3, <2>6 DEF StoreInv
<1>7. CASE PollEnd
  <2>1. poll \in Timeouts BY <1>0, <1>7 DEF TypeOK, PollEnd
  <2>2. TypeOK' BY <1>0, <1>7, <2>1 DEF TypeOK, PollEnd
  <2>3. EndedOnce' BY <1>0, <1>7, <2>1 DEF EndedOnce, PollEnd
  <2>4. NoPanic' /\ StopQuits' BY <1>0, <1>7 DEF PollEnd, NoPanic, StopQuits
  <2>5. InFlight \ {poll} \subseteq InFlight' BY <1>7 DEF InFlight, PollEnd
  <2>6. PendingHasTimer' BY <1>0, <1>7, <2>5 DEF PendingHasTimer, PollEnd
  <2> QED BY <2>2, <2>3, <2>4, <2>6 DEF StoreInv
<1>8. CASE PollQuit
  <2> USE <1>0, <1>8 DEF PollQuit
  <2>1. TypeOK' BY DEF TypeOK
  <2>2. EndedOnce' /\ NoPanic' /\ StopQuits' BY DEF EndedOnce, NoPanic, StopQuits
  <2>3. PendingHasTimer' BY DEF PendingHasTimer
  <2> QED BY <2>1, <2>2, <2>3 DEF StoreInv
<1>9. CASE Reset
  <2> USE <1>0, <1>9 DEF Reset
  <2>0. resets' \in 0 .. MaxResets BY StoreBounds DEF TypeOK
  <2>1. TypeOK' BY <2>0 DEF TypeOK
  <2>2. EndedOnce' /\ NoPanic' /\ StopQuits'
    BY DEF EndedOnce, NoPanic, StopQuits, TypeOK, Callers
  <2>3. PendingHasTimer' BY DEF PendingHasTimer, TypeOK, Callers
  <2> QED BY <2>1, <2>2, <2>3 DEF StoreInv
<1>10. CASE Stop
  <2> USE <1>0, <1>10 DEF Stop
  <2>1. TypeOK' BY DEF TypeOK
  <2>2. EndedOnce' /\ NoPanic' /\ StopQuits'
    BY DEF EndedOnce, NoPanic, StopQuits, TypeOK, Callers
  <2>3. PendingHasTimer' BY DEF PendingHasTimer, TypeOK, Callers
  <2> QED BY <2>1, <2>2, <2>3 DEF StoreInv
<1>11. CASE ResetMaps
  <2> USE <1>0, <1>11 DEF ResetMaps
  <2>1. TypeOK' BY DEF TypeOK
  <2>2. EndedOnce' /\ NoPanic' /\ StopQuits'
    BY DEF EndedOnce, NoPanic, StopQuits, TypeOK, Callers
  <2>3. PendingHasTimer' BY DEF PendingHasTimer
  <2> QED BY <2>1, <2>2, <2>3 DEF StoreInv
<1>12. CASE StopReturn
  <2> USE <1>0, <1>12 DEF StopReturn
  <2>1. TypeOK' BY DEF TypeOK
  <2>2. EndedOnce' /\ NoPanic' /\ StopQuits'
    BY DEF EndedOnce, NoPanic, StopQuits, TypeOK, Callers
  <2>3. PendingHasTimer' BY DEF PendingHasTimer, StopQuits
  <2> QED BY <2>1, <2>2, <2>3 DEF StoreInv
<1>13. ASSUME NEW c \in Callers, FlushLen(c) PROVE StoreInv'
  <2> USE <1>0, <1>13 DEF FlushLen
  <2>1. TypeOK' BY DEF TypeOK
  <2>2. EndedOnce' /\ NoPanic' /\ StopQuits'
    BY DEF EndedOnce, NoPanic, StopQuits, TypeOK, Callers
  <2>3. PendingHasTimer' BY DEF PendingHasTimer, InFlight, TypeOK, Callers
  <2> QED BY <2>1, <2>2, <2>3 DEF StoreInv
<1>14. ASSUME NEW c \in Callers, FlushReceive(c) PROVE StoreInv'
  <2>1. outChan' \in Seq(Timeouts) /\ Len(outChan') = Len(outChan) - 1
    BY <1>0, <1>14, ChannelReceive DEF TypeOK, FlushReceive
  <2>2. TypeOK' BY <1>0, <1>14, <2>1, OutCapAssumption DEF TypeOK, FlushReceive
  <2>3. EndedOnce' /\ NoPanic' /\ StopQuits'
    BY <1>0, <1>14 DEF FlushReceive, EndedOnce, NoPanic, StopQuits, TypeOK, Callers
  <2>4. at'["Reset"] # "idle" \/ quit'
    BY <1>0, <1>14 DEF FlushReceive, StopQuits, TypeOK, Callers
  <2>5. PendingHasTimer' BY <2>4 DEF PendingHasTimer
  <2> QED BY <2>2, <2>3, <2>5 DEF StoreInv
<1>15. CASE UNCHANGED vars
  <2> USE <1>0, <1>15 DEF vars
  <2>1. TypeOK' BY DEF TypeOK
  <2>2. EndedOnce' /\ NoPanic' /\ StopQuits' BY DEF EndedOnce, NoPanic, StopQuits
  <2>3. PendingHasTimer' BY DEF PendingHasTimer, InFlight
  <2> QED BY <2>1, <2>2, <2>3 DEF StoreInv
<1> QED BY <1>1, <1>2, <1>3, <1>4, <1>5, <1>6, <1>7, <1>8, <1>9, <1>10, <1>11,
           <1>12, <1>13, <1>14, <1>15 DEF Next

\* Whatever the interleaving of timers, poll, Reset and Stop, the parts of the
\* store stay consistent with what the replicas wait for.
THEOREM StoreInvariant == Spec => []StoreInv
<1>1. Init => StoreInv BY StoreInit
<1>2. StoreInv /\ [Next]_vars => StoreInv' BY StoreNext
<1> QED BY <1>1, <1>2, PTL DEF Spec

\* Type correctness of the store.
THEOREM StoreTypes == Spec => []TypeOK
<1>1. StoreInv => TypeOK BY DEF StoreInv
<1> QED BY <1>1, StoreInvariant, PTL

\* AddTimeout never panics for replicas that wait for the end of a timeout
\* before they start it again, although timers outlive Reset.
THEOREM StoreNeverPanics == Spec => []NoPanic
<1>1. StoreInv => NoPanic BY DEF StoreInv
<1> QED BY <1>1, StoreInvariant, PTL

\* A timeout is pending or ready, not both, and ready once.
THEOREM StoreEndsOnce == Spec => []EndedOnce
<1>1. StoreInv => EndedOnce BY DEF StoreInv
<1> QED BY <1>1, StoreInvariant, PTL

\* A pending timeout has a timer in flight.
THEOREM StorePendingHasTimer == Spec => []PendingHasTimer
<1>1. StoreInv => PendingHasTimer BY DEF StoreInv
<1> QED BY <1>1, StoreInvariant, PTL

=============================================================================
