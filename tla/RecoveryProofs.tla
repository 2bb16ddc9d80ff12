--------------------------- MODULE RecoveryProofs ---------------------------
(***************************************************************************)
(* Proofs about Recovery, for any number of heights, rounds, blocks and    *)
(* crashes.                                                                *)
(***************************************************************************)
EXTENDS Recovery, WellFoundedInduction, SequenceTheorems, TLAPS

\* A set of natural numbers that is not empty has a smallest element: what
\* FirstTorn and SearchForEndHeight choose exists.
LEMMA SmallestExists ==
  ASSUME NEW S \in SUBSET Nat, S # {}
  PROVE  \E i \in S : \A j \in S : i <= j
<1>1. IsWellFoundedOn(OpToRel(<, Nat), Nat)
  BY NatLessThanWellFounded
<1>2. PICK i \in S : \A j \in S : ~ (<<j, i>> \in OpToRel(<, Nat))
  BY <1>1, WFMin, Zenon
<1>3. \A j \in S : i <= j
  <2>1. \A j \in S : ~ (j < i)
    BY <1>2, Zenon DEF OpToRel
  <2> QED
    BY <2>1, SMT
<1> QED
  BY <1>3

\* A message to sign for the round state that a handler has reached.
LEMMA SigningTypes ==
  ASSUME cs \in RoundState, cs' \in RoundState,
         NEW t \in stepNone .. stepPrecommit, NEW b \in Values \cup {None},
         Signing(t, b)
  PROVE  vote' \in Vote /\ pc' = "sign"
<1>1. cs.h \in Nat /\ cs'.r \in Nat
  BY DEF RoundState
<1> QED
  BY <1>1 DEF Signing, Vote

\* A handler keeps the height and the types of the round state, and then the
\* validator signs, commits or waits.
LEMMA HandleTypes ==
  ASSUME cs \in RoundState, NEW rec \in Record, Applies(rec), Handle(rec)
  PROVE  /\ cs' \in RoundState
         /\ cs'.h = cs.h
         /\ pc' \in {"idle", "sign", "saveBlock"}
         /\ pc' = "sign" => vote' \in Vote
<1>s. {stepPropose, stepPrevote, stepPrecommit} \subseteq stepNone .. stepPrecommit
  BY DEF stepNone, stepPropose, stepPrevote, stepPrecommit
<1>p. ASSUME NEW r \in Nat, EnterPropose(r)
      PROVE  /\ cs' \in RoundState
             /\ cs'.h = cs.h
             /\ pc' \in {"idle", "sign", "saveBlock"}
             /\ pc' = "sign" => vote' \in Vote
  <2>1. cs' = [cs EXCEPT !.r = r, !.step = "propose", !.prop = None, !.polka = FALSE]
    BY <1>p DEF EnterPropose
  <2>2. cs' \in RoundState /\ cs'.h = cs.h
    BY <2>1 DEF RoundState
  <2>3. CASE NotSigning
    BY <2>2, <2>3 DEF NotSigning
  <2>4. CASE ~ NotSigning
    <3>1. PICK b \in IF cs.validB # None THEN {cs.validB} ELSE Blocks : Signing(stepPropose, b)
      BY <1>p, <2>4 DEF EnterPropose
    <3>2. b \in Values \cup {None}
      BY <3>1 DEF RoundState, Values
    <3> QED
      BY <1>s, <2>2, <3>1, <3>2, SigningTypes
  <2> QED
    BY <2>3, <2>4
<1>1. CASE rec.k = "newHeight"
  BY <1>1, <1>p, Zenon DEF Handle
<1>2. CASE rec.k \in {"propose", "proposal"}
  <2>1. PICK b \in Values \cup {None} : EnterPrevote(b)
    BY <1>2, RecoveryAssumption DEF Handle, Record
  <2>2. cs' = [cs EXCEPT !.step = "prevote", !.prop = b]
    BY <2>1 DEF EnterPrevote
  <2>3. cs' \in RoundState /\ cs'.h = cs.h
    BY <2>2 DEF RoundState
  <2>4. (IF cs.lockB # None THEN cs.lockB ELSE IF b # None THEN b ELSE Nil) \in Values \cup {None}
    BY DEF RoundState, Values
  <2> QED
    BY <1>s, <2>1, <2>3, <2>4, SigningTypes DEF EnterPrevote
<1>3. CASE rec.k = "prevote"
  <2>1. PrecommitNil
    BY <1>3 DEF Handle
  <2>2. cs' \in RoundState /\ cs'.h = cs.h
    BY <2>1 DEF PrecommitNil, RoundState
  <2> QED
    BY <1>s, <2>1, <2>2, SigningTypes DEF PrecommitNil, Values
<1>4. CASE rec.k = "polka"
  <2> DEFINE b == rec.b
             unlocks == cs.lockB # None /\ cs.lockR < cs.r /\ cs.lockB # b
             valid == IF b \in Blocks /\ cs.prop = b THEN b ELSE cs.validB
             known == b \in Blocks /\ b \in {cs.lockB, cs.prop}
  <2>1. OnPolka(b)
    BY <1>4 DEF Handle
  <2>2. valid \in Blocks \cup {None}
    BY DEF RoundState
  <2>3. CASE cs.step = "precommit"
    <3> DEFINE lockR == IF unlocks THEN -1 ELSE cs.lockR
               lockB == IF unlocks THEN None ELSE cs.lockB
    <3>1. cs' = [cs EXCEPT !.polka = TRUE, !.validB = valid, !.lockR = lockR, !.lockB = lockB]
      BY <2>1, <2>3 DEF OnPolka
    <3>2. lockR \in Int /\ lockB \in Blocks \cup {None}
      BY DEF RoundState
    <3> HIDE DEF valid, lockR, lockB
    <3>3. cs' \in RoundState /\ cs'.h = cs.h
      BY <2>2, <3>1, <3>2 DEF RoundState
    <3> QED
      BY <2>1, <2>3, <3>3 DEF OnPolka, NotSigning
  <2>4. CASE cs.step # "precommit"
    <3> DEFINE lockR == IF known THEN cs.r ELSE -1
               lockB == IF known THEN b ELSE None
    <3>1. /\ cs' = [cs EXCEPT !.step = "precommit", !.polka = TRUE, !.validB = valid,
                              !.lockR = lockR, !.lockB = lockB]
          /\ Signing(stepPrecommit, IF known THEN b ELSE Nil)
      BY <2>1, <2>4 DEF OnPolka
    <3>2. lockR \in Int /\ lockB \in Blocks \cup {None}
      BY DEF RoundState
    <3>3. (IF known THEN b ELSE Nil) \in Values \cup {None}
      BY DEF Values
    <3> HIDE DEF valid, lockR, lockB, known
    <3>4. cs' \in RoundState /\ cs'.h = cs.h
      BY <2>2, <3>1, <3>2 DEF RoundState
    <3> QED
      BY <1>s, <3>1, <3>3, <3>4, SigningTypes
  <2> QED
    BY <2>3, <2>4
<1>5. CASE rec.k = "precommit"
  <2>1. cs.r + 1 \in Nat
    BY DEF RoundState
  <2> QED
    BY <1>5, <1>p, <2>1, Zenon DEF Handle
<1>6. CASE rec.k = "commit"
  <2>1. EnterCommit
    BY <1>6 DEF Handle
  <2> QED
    BY <2>1 DEF EnterCommit, RoundState
<1> QED
  BY <1>1, <1>2, <1>3, <1>4, <1>5, <1>6 DEF Applies

\* What ReceivePeer does, with the record that it writes.
LEMMA ReceivePeerRecord ==
  ASSUME TypeOK, ReceivePeer
  PROVE  \E rec \in Record :
           /\ rec # Torn
           /\ pc = "idle" /\ mode = "run"
           /\ Applies(rec) /\ Handle(rec)
           /\ net' = net \/ net' = net \cup {rec}
           /\ rec.k = "polka" => rec \in net'
           /\ wal' = Append(wal, rec)
           /\ UNCHANGED <<lss, synced, stores, mode, queue, pos, repaired, crashes,
                          signed, refused, skipped>>
<1> DEFINE Kinds == {"newHeight", "propose", "proposal", "prevote", "polka", "precommit", "commit"}
           BlocksOf(k) == CASE k = "proposal" -> Blocks [] k = "polka" -> Values [] OTHER -> {None}
           Receive(k, b) ==
             LET rec == Rec(k, cs.h, cs.r, b) IN
             /\ pc = "idle" /\ mode = "run"
             /\ cs.h \in IF k = "commit" THEN Heights ELSE LongHeights
             /\ k = "precommit" => cs.r < MaxRound
             /\ Applies(rec)
             /\ IF b # None THEN Sent(rec) /\ net' = net \cup {rec} ELSE UNCHANGED net
             /\ wal' = Append(wal, rec)
             /\ Handle(rec)
             /\ UNCHANGED <<lss, synced, stores, mode, queue, pos, repaired, crashes,
                            signed, refused, skipped>>
<1>0. PICK k \in Kinds : \E b \in BlocksOf(k) : Receive(k, b)
  BY Zenon DEF ReceivePeer
<1>1. PICK b \in BlocksOf(k) : Receive(k, b)
  BY <1>0
<1> DEFINE rec == Rec(k, cs.h, cs.r, b)
<1>2. b \in Values \cup {None}
  <2>1. CASE k = "proposal"  BY <1>1, <2>1, Zenon DEF Values
  <2>2. CASE k = "polka"     BY <1>1, <2>2, Zenon DEF Values
  <2>3. CASE k \notin {"proposal", "polka"}  BY <1>1, <2>3, Zenon
  <2> QED  BY <2>1, <2>2, <2>3
<1>3. cs.h \in Nat /\ cs.r \in Nat
  BY DEF TypeOK, RoundTypes, RoundState
<1>4. rec \in Record /\ rec # Torn
  BY <1>1, <1>2, <1>3 DEF Rec, Record, Torn
<1>5. net' = net \/ net' = net \cup {rec}
  BY <1>1
<1>6. rec.k = "polka" => rec \in net'
  <2>1. rec.k = k
    BY DEF Rec
  <2>2. k = "polka" => b # None
    BY <1>1, RecoveryAssumption, Zenon DEF Values
  <2>3. b # None => net' = net \cup {rec}
    BY <1>1
  <2> QED
    BY <2>1, <2>2, <2>3
<1> HIDE DEF rec
<1> QED
  BY <1>1, <1>4, <1>5, <1>6, Zenon DEF rec

\* FirstTorn is what its name says.
LEMMA FirstTornIs ==
  ASSUME wal \in Seq(Record), HasTorn
  PROVE  /\ FirstTorn \in 1 .. Len(wal) /\ wal[FirstTorn] = Torn
         /\ \A j \in 1 .. FirstTorn - 1 : wal[j] # Torn
<1> DEFINE T == {i \in DOMAIN wal : wal[i] = Torn}
<1>1. DOMAIN wal = 1 .. Len(wal) /\ Len(wal) \in Nat
  BY LenProperties
<1>2. PICK i \in T : \A j \in T : i <= j
  <2>1. T \in SUBSET Nat
    BY <1>1
  <2>2. T # {}
    BY DEF HasTorn
  <2> QED
    BY <2>1, <2>2, SmallestExists
<1>3. i \in DOMAIN wal /\ wal[i] = Torn /\ \A j \in 1 .. i - 1 : wal[j] # Torn
  BY <1>1, <1>2
<1> QED
  BY <1>1, <1>3 DEF FirstTorn

\* What SearchForEndHeight chooses is a place in the WAL.
LEMMA SearchTypes ==
  ASSUME wal \in Seq(Record), NEW h \in Nat, NEW resync \in BOOLEAN,
         SearchForEndHeight(h, resync)
  PROVE  /\ pos' \in 0 .. Len(wal)
         /\ mode' \in {"replay", "run"}
         /\ skipped' = skipped \/ skipped' = skipped \cup {h}
         /\ mode' = "replay" => pos' \in DOMAIN wal /\ wal[pos'] = EndHeight(h - 1)
         /\ mode' = "run" => h \in skipped'
<1>1. DOMAIN wal = 1 .. Len(wal) /\ Len(wal) \in Nat
  BY LenProperties
<1> DEFINE M == Marker(h - 1, resync)
<1>2. M \subseteq 1 .. Len(wal)
  <2>1. CASE HasTorn
    <3>1. FirstTorn \in 1 .. Len(wal)
      BY <2>1, FirstTornIs
    <3> QED
      BY <1>1, <3>1 DEF Marker, Readable
  <2>2. CASE ~ HasTorn
    BY <1>1, <2>2 DEF Marker, Readable
  <2> QED
    BY <2>1, <2>2
<1>3. CASE Marker(h, resync) = {} /\ M # {}
  <2>1. \E i \in M : \A j \in M : i <= j
    <3>1. M \in SUBSET Nat
      BY <1>1, <1>2
    <3> HIDE DEF M
    <3> QED
      BY <1>3, <3>1, SmallestExists
  <2>2. /\ pos' = CHOOSE i \in M : \A j \in M : i <= j
        /\ mode' = "replay" /\ skipped' = skipped
    BY <1>3 DEF SearchForEndHeight
  <2> HIDE DEF M
  <2>3. pos' \in M
    BY <2>1, <2>2
  <2>4. pos' \in 0 .. Len(wal) /\ pos' \in DOMAIN wal
    BY <1>1, <1>2, <2>3
  <2>5. wal[pos'] = EndHeight(h - 1)
    BY <2>3 DEF M, Marker
  <2> QED
    BY <2>2, <2>4, <2>5
<1>4. CASE ~ (Marker(h, resync) = {} /\ M # {})
  BY <1>1, <1>4 DEF SearchForEndHeight
<1> QED
  BY <1>3, <1>4

\* The records of the WAL keep their types, however they are appended, cut
\* off or lost.
LEMMA LogTypesStep ==
  ASSUME TypeOK, [Next]_vars
  PROVE  LogTypes'
<1> USE DEF stores, histories, consensusVars
<1>0. /\ LogTypes /\ cs \in RoundState
      /\ DOMAIN wal = 1 .. Len(wal) /\ Len(wal) \in Nat
  BY LenProperties DEF TypeOK, LogTypes, RoundTypes
<1>a. ASSUME NEW rec \in Record, wal' = Append(wal, rec)
      PROVE  /\ wal' \in Seq(Record) /\ Len(wal') = Len(wal) + 1
             /\ DOMAIN wal' = 1 .. Len(wal')
             /\ \A i \in 1 .. Len(wal) : wal'[i] = wal[i]
             /\ wal'[Len(wal) + 1] = rec
  <2>1. wal' \in Seq(Record) /\ Len(wal') = Len(wal) + 1
    BY <1>0, <1>a DEF LogTypes
  <2> QED
    BY <1>0, <1>a, <2>1, LenProperties DEF LogTypes
<1>1. CASE UNCHANGED <<wal, synced, pos, repaired, queue>>
  BY <1>0, <1>1 DEF LogTypes
<1>2. CASE Sign
  <2>1. UNCHANGED <<wal, pos, repaired>> /\ synced' = Len(wal)
    BY <1>2 DEF Sign, FlushAndSync
  <2>2. queue' \in Seq({m \in Record : m.k = "proposal"})
    <3> DEFINE sig == SignatureFor(vote)
    <3>1. CASE queue' = queue
      BY <1>0, <3>1 DEF LogTypes
    <3>2. CASE queue' # queue
      <4>1. /\ sig # None
            /\ queue' = Append(queue, Rec("proposal", sig.h, sig.r, sig.b))
        BY <1>2, <3>2 DEF Sign
      <4>2. sig \in Signature
        <5>1. vote \in Vote /\ lss \in Signature /\ crashes \in Nat
          BY <1>2 DEF Sign, TypeOK, RoundTypes, KeyTypes
        <5> QED
          BY <4>1, <5>1 DEF SignatureFor, Signature, Vote
      <4>3. Rec("proposal", sig.h, sig.r, sig.b) \in {m \in Record : m.k = "proposal"}
        BY <4>2 DEF Rec, Record, Signature
      <4> HIDE DEF sig
      <4> QED
        BY <1>0, <4>1, <4>3 DEF LogTypes
    <3> QED
      BY <3>1, <3>2
  <2> QED
    BY <1>0, <2>1, <2>2 DEF LogTypes
<1>3. CASE ReceivePeer
  <2>1. PICK rec \in Record :
          /\ rec # Torn /\ wal' = Append(wal, rec)
          /\ UNCHANGED <<synced, pos, repaired, queue>>
    BY <1>3, ReceivePeerRecord
  <2>2. /\ wal' \in Seq(Record) /\ Len(wal') = Len(wal) + 1
        /\ DOMAIN wal' = 1 .. Len(wal')
        /\ \A i \in 1 .. Len(wal) : wal'[i] = wal[i]
        /\ wal'[Len(wal) + 1] = rec
    BY <1>a, <2>1
  <2> QED
    BY <1>0, <2>1, <2>2 DEF LogTypes
<1>4. CASE ReceiveInternal
  <2> DEFINE rec == Head(queue)
  <2>1. /\ rec \in {m \in Record : m.k = "proposal"}
        /\ queue' \in Seq({m \in Record : m.k = "proposal"})
    BY <1>0, <1>4, HeadTailProperties DEF ReceiveInternal, LogTypes
  <2>2. wal' = Append(wal, rec) /\ synced' = Len(wal') /\ UNCHANGED <<pos, repaired>>
    BY <1>4 DEF ReceiveInternal
  <2>3. rec # Torn
    BY <2>1 DEF Torn, Rec
  <2> HIDE DEF rec
  <2>4. /\ wal' \in Seq(Record) /\ Len(wal') = Len(wal) + 1
        /\ DOMAIN wal' = 1 .. Len(wal')
        /\ \A i \in 1 .. Len(wal) : wal'[i] = wal[i]
        /\ wal'[Len(wal) + 1] = rec
    BY <1>a, <2>1, <2>2
  <2> QED
    BY <1>0, <2>1, <2>2, <2>3, <2>4 DEF LogTypes
<1>5. CASE WriteEndHeight
  <2>1. EndHeight(cs.h) \in Record /\ EndHeight(cs.h) # Torn
    BY <1>0 DEF EndHeight, Rec, Record, Torn, RoundState
  <2>2. wal' = Append(wal, EndHeight(cs.h)) /\ UNCHANGED <<synced, pos, repaired, queue>>
    BY <1>5 DEF WriteEndHeight
  <2>3. /\ wal' \in Seq(Record) /\ Len(wal') = Len(wal) + 1
        /\ DOMAIN wal' = 1 .. Len(wal')
        /\ \A i \in 1 .. Len(wal) : wal'[i] = wal[i]
        /\ wal'[Len(wal) + 1] = EndHeight(cs.h)
    BY <1>a, <2>1, <2>2
  <2> QED
    BY <1>0, <2>1, <2>2, <2>3 DEF LogTypes
<1>6. CASE SyncEndHeight
  BY <1>0, <1>6 DEF SyncEndHeight, FlushAndSync, LogTypes
<1>7. CASE Start
  <2>1. CASE wal' = wal
    BY <1>0, <1>7, <2>1 DEF Start, LogTypes
  <2>2. CASE wal' # wal
    <3>1. wal = <<>> /\ wal' = <<EndHeight(0)>> /\ synced' = Len(wal')
      BY <1>7, <2>2 DEF Start
    <3>2. UNCHANGED <<pos, repaired, queue>>
      BY <1>7 DEF Start
    <3>3. EndHeight(0) \in Record /\ EndHeight(0) # Torn
      BY DEF EndHeight, Rec, Record, Torn
    <3>4. /\ wal' \in Seq(Record) /\ Len(wal') = 1 /\ DOMAIN wal' = 1 .. 1
          /\ wal'[1] = EndHeight(0)
      BY <3>1, <3>3
    <3> QED
      BY <1>0, <3>1, <3>2, <3>3, <3>4 DEF LogTypes
  <2> QED
    BY <2>1, <2>2
<1>8. CASE CatchupReplay
  <2>1. PICK resync \in BOOLEAN : SearchForEndHeight(cs.h, resync)
    BY <1>8 DEF CatchupReplay
  <2>2. pos' \in 0 .. Len(wal)
    BY <1>0, <2>1, SearchTypes DEF LogTypes, RoundState
  <2> QED
    BY <1>0, <1>8, <2>2 DEF CatchupReplay, LogTypes
<1>9. CASE ReplayMessage
  <2>1. pos' = pos + 1 /\ pos < Len(wal) /\ UNCHANGED <<wal, synced, repaired, queue>>
    BY <1>9 DEF ReplayMessage
  <2> QED
    BY <1>0, <2>1 DEF LogTypes
<1>10. CASE RepairWalFile
  <2>1. CASE repaired
    BY <1>0, <1>10, <2>1 DEF RepairWalFile, LogTypes
  <2>2. CASE ~ repaired
    <3>1. /\ wal' = SubSeq(wal, 1, FirstTorn - 1) /\ synced' = FirstTorn - 1
          /\ repaired' = TRUE /\ pos' = 0 /\ queue' = queue
      BY <1>10, <2>2 DEF RepairWalFile, Intact
    <3>2. HasTorn
      BY <1>0, <1>10 DEF RepairWalFile, HasTorn, LogTypes
    <3>3. /\ FirstTorn \in 1 .. Len(wal)
          /\ \A j \in 1 .. FirstTorn - 1 : wal[j] # Torn
      BY <1>0, <3>2, FirstTornIs DEF LogTypes
    <3>4. \A i \in 1 .. FirstTorn - 1 : wal[i] \in Record
      BY <1>0, <3>3 DEF LogTypes
    <3>5. /\ wal' \in Seq(Record) /\ Len(wal') = FirstTorn - 1
          /\ \A i \in 1 .. FirstTorn - 1 : wal'[i] = wal[i]
      BY <3>1, <3>3, <3>4, SubSeqProperties
    <3>6. DOMAIN wal' = 1 .. FirstTorn - 1
      BY <3>5, LenProperties
    <3> QED
      BY <1>0, <3>1, <3>3, <3>5, <3>6 DEF LogTypes
  <2> QED
    BY <2>1, <2>2
<1>11. CASE ReplayDone
  <2>1. UNCHANGED <<wal, synced, queue>> /\ pos' = 0 /\ repaired' = FALSE
    BY <1>11 DEF ReplayDone
  <2>2. repaired' \in BOOLEAN /\ ~ repaired'
    BY <2>1, Zenon
  <2> QED
    BY <1>0, <2>1, <2>2 DEF LogTypes
<1>12. CASE Crash
  <2>1. PICK n \in synced .. Len(wal), tail \in {<<>>, <<Torn>>} :
          wal' = SubSeq(wal, 1, n) \o tail /\ synced' = n + Len(tail)
    BY <1>12 DEF Crash
  <2>2. pos' = 0 /\ repaired' = FALSE /\ queue' = <<>>
    BY <1>12 DEF Crash
  <2>3. n \in Nat /\ n <= Len(wal)
    BY <1>0 DEF LogTypes
  <2>4. SubSeq(wal, 1, n) \in Seq(Record) /\ Len(SubSeq(wal, 1, n)) = n
    <3>1. \A i \in 1 .. n : wal[i] \in Record
      BY <1>0, <2>3 DEF LogTypes
    <3> QED
      BY <2>3, <3>1, SubSeqProperties
  <2>5. tail \in Seq(Record) /\ Len(tail) \in Nat
    <3>1. Torn \in Record
      BY DEF Torn, Rec, Record
    <3>2. CASE tail = <<>>
      BY <3>2
    <3>3. CASE tail = <<Torn>>
      BY <3>1, <3>3
    <3> QED
      BY <2>1, <3>2, <3>3
  <2>6. wal' \in Seq(Record) /\ Len(wal') = n + Len(tail)
    BY <2>1, <2>4, <2>5, ConcatProperties
  <2>7. synced' \in 0 .. Len(wal') /\ pos' \in 0 .. Len(wal')
    BY <2>1, <2>2, <2>3, <2>5, <2>6
  <2>8. repaired' \in BOOLEAN /\ ~ repaired'
    BY <2>2, Zenon
  <2>9. queue' \in Seq({m \in Record : m.k = "proposal"})
    BY <2>2
  <2> QED
    BY <2>6, <2>7, <2>8, <2>9, Zenon DEF LogTypes
<1> QED
  BY <1>1, <1>2, <1>3, <1>4, <1>5, <1>6, <1>7, <1>8, <1>9, <1>10, <1>11, <1>12
  DEF Next, Step, vars, SaveBlock, ExecBlock, CommitApp, SaveState, PruneBlocks, PruneStates,
      UpdateToState, Handshake, ReplayBlock

\* The stores and the application.
LEMMA StoreTypesStep ==
  ASSUME TypeOK, [Next]_vars
  PROVE  StoreTypes'
<1> USE DEF stores, histories, consensusVars
<1>0. StoreTypes /\ cs.h \in Nat
  BY DEF TypeOK, RoundTypes, RoundState
<1>1. CASE UNCHANGED stores
  BY <1>0, <1>1 DEF StoreTypes
<1>2. CASE ReceivePeer
  BY <1>1, <1>2, ReceivePeerRecord
<1>3. CASE SaveBlock
  BY <1>0, <1>3 DEF SaveBlock, StoreTypes
<1>4. CASE ExecBlock
  BY <1>0, <1>4 DEF ExecBlock, SaveABCIResponses, StoreTypes
<1>5. CASE CommitApp
  BY <1>0, <1>5, RecoveryAssumption DEF CommitApp, AppCommit, StoreTypes
<1>6. CASE SaveState
  <2>1. mock' \in BOOLEAN
    BY <1>6 DEF SaveState
  <2> QED
    BY <1>0, <1>6, <2>1 DEF SaveState, StoreTypes
<1>7. CASE PruneBlocks
  BY <1>0, <1>7 DEF PruneBlocks, StoreTypes
<1>8. CASE PruneStates
  BY <1>0, <1>8 DEF PruneStates, StoreTypes
<1>9. CASE UpdateToState
  BY <1>0, <1>9 DEF UpdateToState, StoreTypes
<1>10. CASE Handshake
  <2>1. mock' \in BOOLEAN
    BY <1>10 DEF Handshake
  <2> QED
    BY <1>0, <1>10, <2>1 DEF Handshake, StoreTypes
<1>11. CASE ReplayBlock
  BY <1>0, <1>11 DEF ReplayBlock, StoreTypes
<1>12. CASE Crash
  <2>1. mock' \in BOOLEAN
    BY <1>12 DEF Crash
  <2> QED
    BY <1>0, <1>12, <2>1 DEF Crash, StoreTypes
<1> QED
  BY <1>1, <1>2, <1>3, <1>4, <1>5, <1>6, <1>7, <1>8, <1>9, <1>10, <1>11, <1>12
  DEF Next, Step, vars, Sign, ReceiveInternal, WriteEndHeight, SyncEndHeight, Start,
      CatchupReplay, ReplayMessage, RepairWalFile, ReplayDone

\* The round state at the start of a height.
LEMMA NewHeightTypes ==
  ASSUME NEW h \in Nat
  PROVE  NewHeightState(h) \in RoundState /\ NewHeightState(h).h = h
BY DEF NewHeightState, RoundState, Values

\* The round state, and the message to sign when there is one.
LEMMA RoundTypesStep ==
  ASSUME TypeOK, [Next]_vars
  PROVE  RoundTypes'
<1> USE DEF stores, histories, consensusVars
<1>0. RoundTypes /\ cs \in RoundState /\ state + 1 \in Nat
  BY DEF TypeOK, RoundTypes, StoreTypes
<1>1. CASE UNCHANGED <<pc, mode, cs, vote>>
  BY <1>0, <1>1 DEF RoundTypes
<1>2. CASE /\ UNCHANGED <<mode, cs>>
           /\ pc' \in {"replayBlocks", "start", "search", "idle", "saveBlock", "endHeight",
                      "syncEnd", "exec", "commitApp", "saveState", "pruneBlocks",
                      "pruneStates", "update", "dead"}
  BY <1>0, <1>2 DEF RoundTypes
<1>3. CASE ReceivePeer
  <2>1. PICK rec \in Record : Applies(rec) /\ Handle(rec) /\ mode' = mode
    BY <1>3, ReceivePeerRecord
  <2> QED
    BY <1>0, <2>1, HandleTypes DEF RoundTypes
<1>4. CASE ReceiveInternal
  <2>1. Head(queue) \in Record
    BY <1>4, HeadTailProperties DEF ReceiveInternal, TypeOK, LogTypes
  <2>2. mode' = mode
    BY <1>4 DEF ReceiveInternal
  <2>3. CASE Applies(Head(queue))
    <3>1. Handle(Head(queue))
      BY <1>4, <2>3 DEF ReceiveInternal
    <3> QED
      BY <1>0, <2>1, <2>2, <2>3, <3>1, HandleTypes DEF RoundTypes
  <2>4. CASE ~ Applies(Head(queue))
    BY <1>1, <1>4, <2>4 DEF ReceiveInternal
  <2> QED
    BY <2>3, <2>4
<1>5. CASE ReplayMessage
  <2>1. wal[pos + 1] \in Record
    BY <1>5, ElementOfSeq DEF ReplayMessage, TypeOK, LogTypes
  <2>2. mode' = mode
    BY <1>5 DEF ReplayMessage
  <2>3. CASE Applies(wal[pos + 1])
    <3>1. Handle(wal[pos + 1])
      BY <1>5, <2>3 DEF ReplayMessage
    <3> QED
      BY <1>0, <2>1, <2>2, <2>3, <3>1, HandleTypes DEF RoundTypes
  <2>4. CASE ~ Applies(wal[pos + 1])
    BY <1>1, <1>5, <2>4 DEF ReplayMessage
  <2> QED
    BY <2>3, <2>4
<1>6. CASE UpdateToState
  BY <1>0, <1>6, NewHeightTypes DEF UpdateToState, RoundTypes
<1>7. CASE Start
  <2>1. cs' \in RoundState /\ pc' \in {"dead", "search"} /\ mode' = mode
    BY <1>0, <1>7, NewHeightTypes DEF Start, Die
  <2> QED
    BY <1>0, <2>1 DEF RoundTypes
<1>8. CASE CatchupReplay
  <2>1. PICK resync \in BOOLEAN : SearchForEndHeight(cs.h, resync)
    BY <1>8 DEF CatchupReplay
  <2>2. mode' \in {"replay", "run"}
    BY <1>0, <2>1, SearchTypes DEF TypeOK, LogTypes, RoundState
  <2> QED
    BY <1>0, <1>8, <2>2 DEF CatchupReplay, RoundTypes
<1>9. CASE ReplayDone
  BY <1>0, <1>9 DEF ReplayDone, RoundTypes
<1>10. CASE Crash
  <2>1. cs' \in RoundState /\ pc' = "handshake" /\ mode' = "handshake"
    BY <1>10, NewHeightTypes DEF Crash
  <2> QED
    BY <2>1 DEF RoundTypes
<1>11. CASE ReplayBlock
  BY <1>0, <1>11 DEF ReplayBlock, Die, RoundTypes
<1>12. CASE \/ Sign \/ SaveBlock \/ WriteEndHeight \/ SyncEndHeight \/ ExecBlock
            \/ CommitApp \/ SaveState \/ PruneBlocks \/ PruneStates \/ Handshake
            \/ RepairWalFile
  BY <1>2, <1>12 DEF Sign, SaveBlock, WriteEndHeight, SyncEndHeight, ExecBlock, CommitApp,
     SaveState, PruneBlocks, PruneStates, Handshake, RepairWalFile, Die
<1> QED
  BY <1>1, <1>3, <1>4, <1>5, <1>6, <1>7, <1>8, <1>9, <1>10, <1>11, <1>12 DEF Next, Step, vars

\* What the key has signed and refused.
LEMMA KeyTypesStep ==
  ASSUME TypeOK, [Next]_vars
  PROVE  KeyTypes'
<1> USE DEF stores, histories, consensusVars
<1>0. KeyTypes /\ cs.h \in Nat
  BY DEF TypeOK, RoundTypes, RoundState
<1>1. CASE UNCHANGED <<lss, crashes, histories>>
  BY <1>0, <1>1 DEF KeyTypes
<1>2. CASE Sign
  <2>1. vote \in Vote
    BY <1>2 DEF Sign, TypeOK, RoundTypes
  <2> DEFINE sig == SignatureFor(vote)
  <2>2. UNCHANGED <<crashes, skipped, net>>
    BY <1>2 DEF Sign
  <2>3. CASE sig # None
    <3>1. sig \in Signature
      BY <1>0, <2>1, <2>3 DEF SignatureFor, Signature, Vote, KeyTypes
    <3>2. lss' = sig /\ signed' = signed \cup {sig} /\ refused' = refused
      BY <1>2, <2>3 DEF Sign
    <3> HIDE DEF sig
    <3> QED
      BY <1>0, <2>2, <3>1, <3>2 DEF KeyTypes
  <2>4. CASE sig = None
    <3>1. lss' = lss /\ signed' = signed /\ refused' \in {refused, refused \cup {vote}}
      BY <1>2, <2>4 DEF Sign
    <3> QED
      BY <1>0, <2>1, <2>2, <3>1 DEF KeyTypes
  <2> QED
    BY <2>3, <2>4
<1>3. CASE ReceivePeer
  <2>1. PICK rec \in Record :
          /\ net' = net \/ net' = net \cup {rec}
          /\ UNCHANGED <<lss, crashes, signed, refused, skipped>>
    BY <1>3, ReceivePeerRecord
  <2> QED
    BY <1>0, <2>1 DEF KeyTypes
<1>4. CASE CatchupReplay
  <2>1. PICK resync \in BOOLEAN : SearchForEndHeight(cs.h, resync)
    BY <1>4 DEF CatchupReplay
  <2>2. skipped' = skipped \/ skipped' = skipped \cup {cs.h}
    BY <1>0, <2>1, SearchTypes DEF TypeOK, LogTypes
  <2>3. UNCHANGED <<lss, crashes, signed, refused, net>>
    BY <1>4 DEF CatchupReplay
  <2> QED
    BY <1>0, <2>2, <2>3 DEF KeyTypes
<1>5. CASE Crash
  BY <1>0, <1>5 DEF Crash, KeyTypes
<1> QED
  BY <1>1, <1>2, <1>3, <1>4, <1>5
  DEF Next, Step, vars, ReceiveInternal, SaveBlock, WriteEndHeight, SyncEndHeight, ExecBlock,
      CommitApp, SaveState, PruneBlocks, PruneStates, UpdateToState, Handshake, ReplayBlock,
      Start, ReplayMessage, RepairWalFile, ReplayDone

\* The types hold when the node is started for the first time.
LEMMA InitTypes == Init => TypeOK
<1> SUFFICES ASSUME Init PROVE TypeOK
  OBVIOUS
<1>1. LogTypes
  <2>1. /\ wal = <<>> /\ synced = 0 /\ pos = 0 /\ queue = <<>>
        /\ repaired \in BOOLEAN /\ ~ repaired
    BY DEF Init
  <2>2. Len(wal) = 0 /\ wal \in Seq(Record) /\ queue \in Seq({m \in Record : m.k = "proposal"})
    BY <2>1
  <2> QED
    BY <2>1, <2>2 DEF LogTypes
<1>2. StoreTypes
  <2>1. mock \in BOOLEAN
    BY DEF Init
  <2> QED
    BY <2>1 DEF Init, StoreTypes
<1>3. RoundTypes
  BY NewHeightTypes DEF Init, RoundTypes
<1>4. KeyTypes
  BY DEF Init, KeyTypes, Signature, Values, stepNone, stepPrecommit
<1> QED
  BY <1>1, <1>2, <1>3, <1>4 DEF TypeOK

\* Every variable keeps its type, for any number of heights, rounds and
\* crashes; and OnStart never meets half a record in a WAL that repairWalFile
\* has repaired.
THEOREM RecoveryTypes == Spec => []TypeOK
<1>1. Init => TypeOK
  BY InitTypes
<1>2. TypeOK /\ [Next]_vars => TypeOK'
  BY LogTypesStep, StoreTypesStep, RoundTypesStep, KeyTypesStep DEF TypeOK
<1> QED
  BY <1>1, <1>2, PTL DEF Spec

-----------------------------------------------------------------------------
(* FilePV never signs twice. *)

\* What was signed is either the last signature or before it.
LastIsGreatest == \A v \in signed : v = lss \/ Before(v, lss)

\* The key signs in the order of (height, round, step), and only once for each.
LEMMA SignsInOrder == Spec => [](LastIsGreatest /\ NoDoubleSign)
<1> DEFINE IInv == LastIsGreatest /\ NoDoubleSign
<1>1. Init => IInv
  BY DEF Init, LastIsGreatest, NoDoubleSign
<1>2. TypeOK /\ IInv /\ [Next]_vars => IInv'
  <2> SUFFICES ASSUME TypeOK, IInv, [Next]_vars
               PROVE  IInv'
    OBVIOUS
  <2>1. CASE UNCHANGED <<lss, signed>>
    BY <2>1 DEF LastIsGreatest, NoDoubleSign, SameHRS, Before
  <2>2. CASE Sign
    <3> DEFINE sig == SignatureFor(vote)
    <3>1. vote \in Vote /\ lss \in Signature /\ signed \subseteq Signature /\ crashes \in Nat
      BY <2>2 DEF Sign, TypeOK, RoundTypes, KeyTypes
    <3>2. CASE Before(lss, vote) /\ sig # None
      <4>1. sig = [h |-> vote.h, r |-> vote.r, s |-> vote.s, b |-> vote.b, t |-> crashes]
        BY <3>2 DEF SignatureFor
      <4>2. sig \in Signature /\ Before(lss, sig)
        BY <3>1, <3>2, <4>1 DEF Signature, Vote, Before
      <4>3. lss' = sig /\ signed' = signed \cup {sig}
        BY <2>2, <3>2 DEF Sign
      <4> HIDE DEF sig
      <4>4. \A v \in signed : Before(v, sig)
        BY <3>1, <4>2 DEF LastIsGreatest, Before, Signature, stepNone, stepPrecommit
      <4>5. \A v \in signed : ~ SameHRS(v, sig) /\ ~ SameHRS(sig, v)
        BY <3>1, <4>2, <4>4 DEF Before, SameHRS, Signature, stepNone, stepPrecommit
      <4>6. LastIsGreatest'
        <5>1. \A v \in signed' : v = lss' \/ Before(v, lss')
          BY <4>3, <4>4
        <5> QED
          BY <5>1 DEF LastIsGreatest, Before
      <4>7. NoDoubleSign'
        <5>1. \A u, v \in signed' : SameHRS(u, v) => u = v
          BY <4>3, <4>5 DEF NoDoubleSign
        <5> QED
          BY <5>1 DEF NoDoubleSign, SameHRS
      <4> QED
        BY <4>6, <4>7
    <3>3. CASE ~ Before(lss, vote) /\ sig # None
      <4>1. sig = lss /\ lss' = lss /\ signed' = signed \cup {lss}
        BY <2>2, <3>3 DEF Sign, SignatureFor
      <4>2. \A v \in signed : SameHRS(v, lss) \/ SameHRS(lss, v) => v = lss
        BY <3>1 DEF LastIsGreatest, Before, SameHRS, Signature, stepNone, stepPrecommit
      <4> HIDE DEF sig
      <4> QED
        BY <4>1, <4>2 DEF LastIsGreatest, NoDoubleSign, Before, SameHRS
    <3>4. CASE sig = None
      BY <2>1, <2>2, <3>4 DEF Sign
    <3> QED
      BY <3>2, <3>3, <3>4
  <2>3. CASE ReceivePeer
    BY <2>1, <2>3, ReceivePeerRecord
  <2>4. ASSUME [Next]_vars, ~ Sign, ~ ReceivePeer
        PROVE  UNCHANGED <<lss, signed>>
    BY <2>4 DEF Next, Step, vars, stores, histories, consensusVars, ReceiveInternal, SaveBlock,
       WriteEndHeight, SyncEndHeight, ExecBlock, CommitApp, SaveState, PruneBlocks, PruneStates,
       UpdateToState, Handshake, ReplayBlock, Start, CatchupReplay, ReplayMessage,
       RepairWalFile, ReplayDone, Crash
  <2> QED
    BY <2>1, <2>2, <2>3, <2>4
<1>3. IInv <=> LastIsGreatest /\ NoDoubleSign
  OBVIOUS
<1> HIDE DEF IInv
<1> QED
  BY <1>1, <1>2, <1>3, RecoveryTypes, PTL DEF Spec

\* FilePV signs two messages for the same height, round and step only if
\* they are one and the same, whatever the crashes.
THEOREM NeverSignsTwice == Spec => []NoDoubleSign
BY SignsInOrder, PTL

-----------------------------------------------------------------------------
(* The four stores never get apart by more than the handshake mends. *)

\* The application is never ahead of the block store, nor is the state, which
\* is at most one block behind; and the blocks that the application may ask
\* for, and the one below, are there.
HeightsInv ==
  /\ appDisk <= app /\ app <= height
  /\ state <= height /\ height <= state + 1
  /\ base = 0 => height = 0
  /\ base <= 1 \/ (base <= appDisk /\ base <= state)
  /\ retain <= appDisk
  /\ app = state + 1 => app \in responses

\* The validators of every height from the base of the block store on are
\* there, once InitChain has run.
ValidatorsInv ==
  \/ pc = "handshake" /\ state = 0 /\ app = 0
  \/ \A n \in Nat : 1 <= n /\ base <= n /\ n <= state + 2 => n \in vals

\* What each step of finalizeCommit, ApplyBlock and the handshake finds.
ProgressInv ==
  /\ pc # "dead"
  /\ pc \in {"start", "search", "idle", "sign", "saveBlock", "pruneBlocks", "pruneStates",
            "update"} => height = state /\ app = state
  /\ pc \in {"search", "idle", "sign", "saveBlock", "endHeight", "syncEnd"} => cs.h = state + 1
  /\ pc \in {"endHeight", "syncEnd"} => height = state + 1 /\ app = state
  /\ pc \in {"exec", "commitApp"} => /\ height = state + 1
                                    /\ app = IF mock THEN height ELSE state
  /\ pc = "commitApp" => height \in responses
  /\ pc = "saveState" => height = state + 1 /\ app = height
  /\ pc = "pruneStates" => retain <= base
  /\ pc = "replayBlocks" => app <= state
  /\ pc \notin {"exec", "commitApp", "saveState"} => ~ mock

StoresInv == HeightsInv /\ ValidatorsInv /\ ProgressInv

\* A step that leaves the stores alone and goes on at the same height.
LEMMA RoundStepKeepsStores ==
  ASSUME TypeOK, StoresInv, UNCHANGED stores, cs'.h = cs.h,
         pc \in {"search", "idle", "sign"},
         pc' \in {"search", "idle", "sign", "saveBlock"}
  PROVE  StoresInv'
BY DEF StoresInv, HeightsInv, ValidatorsInv, ProgressInv, stores

\* Every step keeps the stores in the order in which the handshake expects them.
LEMMA StoresStep ==
  ASSUME Slack = 0, TypeOK, StoresInv, [Next]_vars
  PROVE  StoresInv'
<1> USE DEF stores, histories, consensusVars
<1>0. /\ HeightsInv /\ ValidatorsInv /\ ProgressInv
      /\ base \in Nat /\ height \in Nat /\ state \in Nat /\ app \in Nat /\ appDisk \in Nat
      /\ retain \in Nat /\ vals \subseteq Nat /\ responses \subseteq Nat /\ mock \in BOOLEAN
      /\ cs \in RoundState /\ LogTypes
  BY DEF StoresInv, TypeOK, StoreTypes, RoundTypes
<1>1. CASE UNCHANGED vars
  BY <1>1 DEF vars, StoresInv, HeightsInv, ValidatorsInv, ProgressInv
<1>2. CASE Sign
  BY <1>2, RoundStepKeepsStores DEF Sign
<1>3. CASE ReceivePeer
  <2>1. PICK rec \in Record :
          pc = "idle" /\ Applies(rec) /\ Handle(rec) /\ UNCHANGED stores
    BY <1>3, ReceivePeerRecord
  <2> QED
    BY <1>0, <2>1, HandleTypes, RoundStepKeepsStores
<1>4. CASE ReceiveInternal
  <2>1. Head(queue) \in Record
    BY <1>0, <1>4, HeadTailProperties DEF ReceiveInternal, LogTypes
  <2>2. cs'.h = cs.h /\ pc' \in {"idle", "sign", "saveBlock"}
    BY <1>0, <1>4, <2>1, HandleTypes DEF ReceiveInternal
  <2> QED
    BY <1>4, <2>2, RoundStepKeepsStores DEF ReceiveInternal
<1>5. CASE ReplayMessage
  <2>1. wal[pos + 1] \in Record
    BY <1>0, <1>5, ElementOfSeq DEF ReplayMessage, LogTypes
  <2>2. cs'.h = cs.h /\ pc' \in {"idle", "sign", "saveBlock"}
    BY <1>0, <1>5, <2>1, HandleTypes DEF ReplayMessage
  <2> QED
    BY <1>5, <2>2, RoundStepKeepsStores DEF ReplayMessage
<1>6. CASE CatchupReplay \/ ReplayDone
  BY <1>6, RoundStepKeepsStores DEF CatchupReplay, ReplayDone
<1>7. CASE RepairWalFile
  <2>1. ~ repaired
    BY <1>0, <1>7, LenProperties DEF RepairWalFile, LogTypes
  <2> QED
    BY <1>7, <2>1, RoundStepKeepsStores DEF RepairWalFile
<1>8. CASE SaveBlock
  BY <1>0, <1>8 DEF SaveBlock, StoresInv, HeightsInv, ValidatorsInv, ProgressInv
<1>9. CASE WriteEndHeight
  BY <1>0, <1>9 DEF WriteEndHeight, StoresInv, HeightsInv, ValidatorsInv, ProgressInv
<1>10. CASE SyncEndHeight
  BY <1>0, <1>10 DEF SyncEndHeight, StoresInv, HeightsInv, ValidatorsInv, ProgressInv
<1>11. CASE ExecBlock
  <2>1. height = state + 1 /\ HasValidators(height)
    BY <1>0, <1>11 DEF ExecBlock, HasValidators, HeightsInv, ValidatorsInv, ProgressInv
  <2>2. /\ responses' = responses \cup {height} /\ pc' = "commitApp"
        /\ UNCHANGED <<base, height, state, vals, appDisk, app, mock, retain>>
    BY <1>11, <2>1 DEF ExecBlock, SaveABCIResponses
  <2> QED
    BY <1>0, <1>11, <2>2 DEF ExecBlock, StoresInv, HeightsInv, ValidatorsInv, ProgressInv
<1>12. CASE CommitApp
  <2>1. CASE mock
    BY <1>0, <1>12, <2>1 DEF CommitApp, StoresInv, HeightsInv, ValidatorsInv, ProgressInv
  <2>2. CASE ~ mock
    <3>1. app = height - 1
      BY <1>0, <1>12, <2>2 DEF CommitApp, ProgressInv
    <3>2. /\ pc' = "saveState" /\ AppCommit(height)
          /\ UNCHANGED <<base, height, state, vals, responses, mock>>
      BY <1>12, <2>2, <3>1 DEF CommitApp
    <3>3. /\ app' = height /\ appDisk' \in {appDisk, height}
          /\ retain' \in Nat /\ retain' <= appDisk'
      <4>1. app' = height /\ appDisk' \in {appDisk, height} /\ appDisk' \in Nat
        BY <1>0, <3>2 DEF AppCommit
      <4>2. \/ retain' = 0
            \/ appDisk' < height /\ retain' = appDisk'
            \/ ~ (appDisk' < height) /\ retain' = height
        <5>1. appDisk' + Slack = appDisk'
          <6>1. \A n \in Nat : n + 0 = n
            OBVIOUS
          <6> QED
            BY <4>1, <6>1, Zenon
        <5> QED
          BY <3>2, <5>1 DEF AppCommit
      <4> QED
        BY <1>0, <4>1, <4>2
    <3>4. pc = "commitApp"
      BY <1>12 DEF CommitApp
    <3> QED
      BY <1>0, <3>1, <3>2, <3>3, <3>4 DEF StoresInv, HeightsInv, ValidatorsInv, ProgressInv
  <2> QED
    BY <2>1, <2>2
<1>13. CASE SaveState
  <2>1. ~ mock'
    BY <1>13 DEF SaveState
  <2>2. /\ state' = height /\ vals' = vals \cup {height + 2}
        /\ \/ pc' = "start" /\ retain' = 0
           \/ pc' = "pruneBlocks" /\ retain' = retain
        /\ pc = "saveState"
        /\ UNCHANGED <<base, height, responses, appDisk, app>>
    BY <1>13 DEF SaveState
  <2> QED
    BY <1>0, <2>1, <2>2 DEF StoresInv, HeightsInv, ValidatorsInv, ProgressInv
<1>14. CASE PruneBlocks
  BY <1>0, <1>14 DEF PruneBlocks, StoresInv, HeightsInv, ValidatorsInv, ProgressInv
<1>15. CASE PruneStates
  BY <1>0, <1>15 DEF PruneStates, StoresInv, HeightsInv, ValidatorsInv, ProgressInv
<1>16. CASE UpdateToState
  <2>1. cs'.h = state + 1
    BY <1>0, <1>16, NewHeightTypes DEF UpdateToState
  <2> QED
    BY <1>0, <1>16, <2>1 DEF UpdateToState, StoresInv, HeightsInv, ValidatorsInv, ProgressInv
<1>17. CASE Handshake
  <2>1. ~ HandshakeFails
    BY <1>0, <1>17 DEF Handshake, HandshakeFails, HeightsInv, ProgressInv
  <2>2. /\ pc = "handshake"
        /\ vals' = IF app = 0 /\ state = 0 THEN vals \cup {1, 2} ELSE vals
        /\ pc' = IF height = 0 \/ (app = state /\ height = state) THEN "start"
                 ELSE IF app < state THEN "replayBlocks" ELSE "exec"
        /\ UNCHANGED <<base, height, state, responses, appDisk, app, retain>>
    BY <1>17, <2>1 DEF Handshake
  <2>3. mock' <=> (app = height /\ height = state + 1)
    BY <1>17 DEF Handshake
  <2>4. HeightsInv'
    BY <1>0, <2>2 DEF HeightsInv
  <2>5. ValidatorsInv'
    BY <1>0, <2>2 DEF HeightsInv, ValidatorsInv
  <2>6. ProgressInv'
    BY <1>0, <2>2, <2>3 DEF HeightsInv, ProgressInv
  <2> QED
    BY <2>4, <2>5, <2>6 DEF StoresInv
<1>18. CASE ReplayBlock
  <2>1. app # state => app + 1 >= base /\ HasValidators(app + 1)
    BY <1>0, <1>18 DEF ReplayBlock, HasValidators, HeightsInv, ValidatorsInv, ProgressInv
  <2> QED
    BY <1>0, <1>18, <2>1 DEF ReplayBlock, StoresInv, HeightsInv, ValidatorsInv, ProgressInv
<1>19. CASE Start
  <2>1. ~ (state > 0 /\ state \notin base .. height)
    BY <1>0, <1>19 DEF Start, HeightsInv, ProgressInv
  <2>2. cs'.h = state + 1
    BY <1>0, <1>19, <2>1, NewHeightTypes DEF Start
  <2> QED
    BY <1>0, <1>19, <2>1, <2>2 DEF Start, StoresInv, HeightsInv, ValidatorsInv, ProgressInv
<1>20. CASE Crash
  <2>1. /\ app' = appDisk /\ pc' = "handshake" /\ retain' = 0
        /\ UNCHANGED <<base, height, state, vals, responses, appDisk>>
    BY <1>20 DEF Crash
  <2>2. ~ mock'
    BY <1>20 DEF Crash
  <2> QED
    BY <1>0, <2>1, <2>2 DEF StoresInv, HeightsInv, ValidatorsInv, ProgressInv
<1> QED
  BY <1>1, <1>2, <1>3, <1>4, <1>5, <1>6, <1>7, <1>8, <1>9, <1>10, <1>11, <1>12, <1>13, <1>14,
     <1>15, <1>16, <1>17, <1>18, <1>19, <1>20 DEF Next, Step

\* Whatever the crashes, the handshake finds its way and neither ApplyBlock
\* nor OnStart fails, for an application that asks to retain the height it
\* has saved and all after it.
THEOREM RecoveryNeverFails == Slack = 0 => (Spec => []NoFailure)
<1> SUFFICES ASSUME Slack = 0 PROVE Spec => []NoFailure
  OBVIOUS
<1>1. Init => StoresInv
  BY DEF Init, StoresInv, HeightsInv, ValidatorsInv, ProgressInv
<1>2. TypeOK /\ StoresInv /\ [Next]_vars => StoresInv'
  BY StoresStep
<1>3. StoresInv => NoFailure
  BY DEF StoresInv, ProgressInv, NoFailure
<1> QED
  BY <1>1, <1>2, <1>3, RecoveryTypes, PTL DEF Spec

-----------------------------------------------------------------------------
(***************************************************************************)
(* What the WAL replays to.  The round state is a function of the records  *)
(* of the height, so that the log behind the marker of the height before   *)
(* explains every vote: the invariant says so of a sequence of round       *)
(* states, one for each record.                                            *)
(***************************************************************************)
\* Applies and Handle, as functions of a round state.
AppliesTo(st, rec) ==
  /\ rec.h = st.h
  /\ \/ rec.k = "newHeight" /\ st.step = "newHeight"
     \/ rec.k \in {"propose", "proposal"} /\ rec.r = st.r /\ st.step = "propose"
     \/ rec.k = "prevote" /\ rec.r = st.r /\ st.step = "prevote"
     \/ rec.k = "polka" /\ rec.r = st.r /\ ~st.polka /\ st.step \in {"prevote", "precommit"}
     \/ rec.k = "precommit" /\ rec.r = st.r /\ st.step = "precommit"
     \/ rec.k = "commit" /\ st.step \in {"newHeight", "propose", "prevote", "precommit"}

Proposing(st, r) == [st EXCEPT !.r = r, !.step = "propose", !.prop = None, !.polka = FALSE]
Prevoting(st, b) == [st EXCEPT !.step = "prevote", !.prop = b]
ProposalOf(rec) == IF rec.k = "proposal" THEN rec.b ELSE None
Validated(st, b) == IF b \in Blocks /\ st.prop = b THEN b ELSE st.validB
IsKnown(st, b) == b \in Blocks /\ b \in {st.lockB, st.prop}

OutOfStep(st, b) ==
  LET unlocks == st.lockB # None /\ st.lockR < st.r /\ st.lockB # b
  IN  [st EXCEPT !.polka = TRUE, !.validB = Validated(st, b),
                 !.lockR = IF unlocks THEN -1 ELSE @, !.lockB = IF unlocks THEN None ELSE @]
Precommitting(st, b) ==
  [st EXCEPT !.step = "precommit", !.polka = TRUE, !.validB = Validated(st, b),
             !.lockR = IF IsKnown(st, b) THEN st.r ELSE -1,
             !.lockB = IF IsKnown(st, b) THEN b ELSE None]

After(st, rec) ==
  IF rec.k = "newHeight" THEN Proposing(st, 0)
  ELSE IF rec.k = "precommit" THEN Proposing(st, st.r + 1)
  ELSE IF rec.k \in {"propose", "proposal"} THEN Prevoting(st, ProposalOf(rec))
  ELSE IF rec.k = "prevote" THEN [st EXCEPT !.step = "precommit"]
  ELSE IF rec.k = "polka"
       THEN IF st.step = "precommit" THEN OutOfStep(st, rec.b) ELSE Precommitting(st, rec.b)
  ELSE [st EXCEPT !.step = "commit"]

Applied(st, rec) == IF AppliesTo(st, rec) THEN After(st, rec) ELSE st

\* The record makes the validator ask the key for the vote v.
Asks(st, rec, v) ==
  /\ AppliesTo(st, rec)
  /\ v.h = st.h /\ v.r = st.r
  /\ \/ /\ rec.k \in {"propose", "proposal"} /\ v.s = stepPrevote
        /\ v.b = IF st.lockB # None THEN st.lockB
                 ELSE IF ProposalOf(rec) # None THEN ProposalOf(rec) ELSE Nil
     \/ rec.k = "prevote" /\ v.s = stepPrecommit /\ v.b = Nil
     \/ /\ rec.k = "polka" /\ st.step = "prevote" /\ v.s = stepPrecommit
        /\ v.b = IF IsKnown(st, rec.b) THEN rec.b ELSE Nil

\* The record at place i of the log w, whose round states are tr, asks for v.
AskedAt(w, tr, i, v) == Asks(tr[i - 1], w[i], v)

\* The order of the rounds and steps, and what holds in each.
Rank(step) ==
  IF step = "newHeight" THEN 0 ELSE IF step = "propose" THEN 1
  ELSE IF step = "prevote" THEN 2 ELSE IF step = "precommit" THEN 3 ELSE 4
Reaches(st, to) == st.r < to.r \/ (st.r = to.r /\ Rank(st.step) <= Rank(to.step))

Sound(st) ==
  /\ st \in RoundState
  /\ st.step = "newHeight" => st.r = 0 /\ st.lockB = None
  /\ st.polka => st.step \in {"precommit", "commit"}
  /\ st.lockB # None => st.lockR <= st.r /\ (st.lockR = st.r => st.polka)

\* The record will not apply to st or any round state after it.
Past(rec, st) ==
  \/ rec.k \in {"end", "torn"}
  \/ st.step = "commit"
  \/ rec.k = "newHeight" /\ st.step # "newHeight"
  \/ rec.k \in {"propose", "proposal", "prevote", "polka", "precommit"} /\ rec.r < st.r
  \/ rec.k \in {"propose", "proposal"} /\ rec.r = st.r /\ Rank(st.step) >= 2
  \/ rec.k = "prevote" /\ rec.r = st.r /\ Rank(st.step) >= 3
  \/ rec.k = "polka" /\ rec.r = st.r /\ st.polka

\* A lock is kept or outvoted.
Outvotes(rec, st, to) ==
  /\ rec.k = "polka" /\ rec.h = st.h /\ rec.b # st.lockB /\ st.lockR < rec.r
  /\ rec.r < to.r \/ (rec.r = to.r /\ Rank(to.step) >= 3)
LockKept(w, tr, i, j) ==
  tr[i].lockB # None =>
    \/ tr[j].lockB = tr[i].lockB /\ tr[i].lockR <= tr[j].lockR
    \/ \E k \in i + 1 .. j : Outvotes(w[k], tr[i], tr[j])

\* tr[i] is the round state of height h after the i-th record of w, from the
\* marker of the height before at m to the n-th record.
IsTrace(w, n, m, h, tr) ==
  /\ tr \in [Nat -> RoundState]
  /\ tr[m] = NewHeightState(h)
  /\ \A i \in m + 1 .. n : tr[i] = Applied(tr[i - 1], w[i])
  /\ \A i \in m .. n : Sound(tr[i]) /\ tr[i].h = h
  /\ \A i, j \in m .. n : i <= j => Reaches(tr[i], tr[j]) /\ LockKept(w, tr, i, j)
  /\ \A i, j \in m + 1 .. n : i <= j /\ w[i].h = h => Past(w[i], tr[j])

\* Every vote of the height that was signed is one that a synced record asks for.
Explains(m, tr) ==
  \A v \in signed :
    v.h = height + 1 /\ v.s # stepPropose => \E i \in m + 1 .. synced : Asks(tr[i - 1], wal[i], v)

InRound == pc \in {"idle", "sign", "saveBlock"}

\* How far the validator is.
At == IF mode = "run" \/ repaired THEN Len(wal) ELSE pos
Placed(m, tr) ==
  /\ InRound /\ At >= m => cs = tr[At] /\ \A i \in m + 1 .. At : wal[i] # Torn
  /\ InRound /\ At < m => cs = NewHeightState(height + 1) /\ pc = "idle"
  /\ InRound /\ mode = "replay" /\ repaired => pc = "idle"
  /\ pc = "search" => cs = IF mode = "replay" THEN tr[Len(wal)] ELSE NewHeightState(height + 1)
  /\ pc = "sign" /\ vote.s # stepPropose => m < At /\ Asks(tr[At - 1], wal[At], vote)
  /\ \A i \in m + 1 .. Len(wal) - 1 : wal[i] # Torn

Explained(m, tr) ==
  IsTrace(wal, Len(wal), m, height + 1, tr) /\ Explains(m, tr) /\ Placed(m, tr)

LogExplains ==
  \A m \in DOMAIN wal :
    wal[m] = EndHeight(height) /\ height + 1 \notin skipped =>
      \E tr \in [Nat -> RoundState] : Explained(m, tr)

Finalizing == pc \in {"endHeight", "syncEnd", "exec", "commitApp", "saveState", "pruneBlocks",
                      "pruneStates", "update"} /\ mode # "handshake"

\* The heights of what is on its way, and where the validator is.
PlaceInv ==
  /\ Sound(cs)
  /\ state <= height
  /\ mode = "handshake" => ~repaired /\ queue = <<>>
       /\ pc \notin {"idle", "sign", "saveBlock", "endHeight", "syncEnd", "pruneBlocks",
                     "pruneStates", "update"}
  /\ mode # "handshake" => pc \notin {"handshake", "replayBlocks", "start"}
  /\ pc \in {"start", "search", "idle", "sign", "saveBlock", "pruneBlocks", "pruneStates",
             "update"} => state = height
  /\ pc = "search" /\ mode # "handshake" => mode = "replay" /\ repaired
  /\ InRound \/ pc = "search" => cs.h = height + 1
  /\ Finalizing => cs.h = height
  /\ pc = "sign" => /\ vote.h = cs.h /\ vote.r = cs.r
                    /\ vote.s = stepPropose => cs.step # "newHeight"
  /\ \A i \in DOMAIN queue :
       \/ queue[i].h < cs.h
       \/ queue[i].h = cs.h /\ queue[i].r < cs.r
       \/ queue[i].h = cs.h /\ queue[i].r = cs.r /\ cs.step # "newHeight"

\* What is in the WAL.
WalInv ==
  /\ wal = <<>> => signed = {} /\ mode = "handshake" /\ pc # "search"
  /\ wal # <<>> => wal[1] = EndHeight(0) /\ synced >= 1
  /\ \A i \in DOMAIN wal :
       /\ wal[i].h <= height + 1
       /\ wal[i].k = "end" => wal[i].h <= height
       /\ wal[i].k = "polka" => wal[i] \in net
       /\ pc = "endHeight" => wal[i].h <= height /\ wal[i] # EndHeight(height)
  /\ \A i, m \in DOMAIN wal : wal[m] = EndHeight(height) /\ i < m => wal[i].h <= height
  /\ \A i, j \in DOMAIN wal : wal[i].k = "end" /\ wal[i] = wal[j] => i = j
  /\ Finalizing /\ pc # "endHeight" => wal[Len(wal)] = EndHeight(height)
  /\ InRound /\ height + 1 \notin skipped => \E m \in DOMAIN wal : wal[m] = EndHeight(height)

\* What was signed.
SignedInv ==
  /\ lss \in signed \/ lss.h = 0
  /\ \A v \in signed : v.h <= height + 1
  /\ Finalizing => \A v \in signed : v.h <= height

RecoveryInv == PlaceInv /\ WalInv /\ SignedInv /\ LogExplains /\ LockSurvives /\ VotesRecomputed

\* What a record that applies does to the fields of the round state.
Effect(rec, st, to) ==
  /\ to \in RoundState /\ to.h = st.h
  /\ \/ /\ rec.k = "newHeight" /\ to.r = 0 /\ to.step = "propose" /\ to.polka = FALSE
        /\ to.lockR = st.lockR /\ to.lockB = st.lockB
     \/ /\ rec.k = "precommit" /\ to.r = st.r + 1 /\ to.step = "propose" /\ to.polka = FALSE
        /\ to.lockR = st.lockR /\ to.lockB = st.lockB
     \/ /\ rec.k \in {"propose", "proposal"} /\ to.r = st.r /\ to.step = "prevote"
        /\ to.polka = st.polka /\ to.lockR = st.lockR /\ to.lockB = st.lockB
     \/ /\ rec.k = "prevote" /\ to.r = st.r /\ to.step = "precommit"
        /\ to.polka = st.polka /\ to.lockR = st.lockR /\ to.lockB = st.lockB
     \/ /\ rec.k = "polka" /\ to.r = st.r /\ to.step = "precommit" /\ to.polka = TRUE
        /\ \/ /\ st.step = "precommit"
              /\ \/ to.lockB = st.lockB /\ to.lockR = st.lockR
                 \/ to.lockB = None /\ st.lockR < st.r /\ st.lockB # rec.b
           \/ /\ st.step = "prevote"
              /\ \/ IsKnown(st, rec.b) /\ to.lockB = rec.b /\ to.lockR = st.r
                 \/ ~ IsKnown(st, rec.b) /\ to.lockB = None
     \/ /\ rec.k = "commit" /\ to.r = st.r /\ to.step = "commit"
        /\ to.polka = st.polka /\ to.lockR = st.lockR /\ to.lockB = st.lockB

\* A record that applies has the effect that its handler describes.
LEMMA AfterEffect ==
  ASSUME NEW st \in RoundState, NEW rec \in Record, AppliesTo(st, rec)
  PROVE  Effect(rec, st, After(st, rec))
<1>0. /\ st.r \in Nat /\ st.lockR \in Int /\ st.lockB \in Blocks \cup {None}
      /\ st.validB \in Blocks \cup {None} /\ rec.b \in Values \cup {None}
  BY DEF RoundState, Record
<1>p. ASSUME NEW r \in Nat, NEW to, to = Proposing(st, r)
      PROVE  /\ to \in RoundState /\ to.h = st.h /\ to.r = r /\ to.step = "propose"
             /\ to.polka = FALSE /\ to.lockR = st.lockR /\ to.lockB = st.lockB
  <2>1. to = [st EXCEPT !.r = r, !.step = "propose", !.prop = None, !.polka = FALSE]
    BY <1>p DEF Proposing
  <2>2. to \in RoundState /\ to.h = st.h /\ to.r = r /\ to.step = "propose"
    BY <2>1 DEF RoundState
  <2>3. to.polka = FALSE
    BY <2>1 DEF RoundState
  <2>4. to.lockR = st.lockR /\ to.lockB = st.lockB
    BY <2>1 DEF RoundState
  <2> QED
    BY <2>2, <2>3, <2>4
<1>1. CASE rec.k = "newHeight"
  <2>1. After(st, rec) = Proposing(st, 0) /\ 0 \in Nat
    BY <1>1 DEF After
  <2> QED
    BY <1>1, <1>p, <2>1, Zenon DEF Effect
<1>2. CASE rec.k = "precommit"
  <2>1. After(st, rec) = Proposing(st, st.r + 1) /\ st.r + 1 \in Nat
    BY <1>0, <1>2 DEF After
  <2> QED
    BY <1>2, <1>p, <2>1, Zenon DEF Effect
<1>3. CASE rec.k \in {"propose", "proposal"}
  <2>1. After(st, rec) = [st EXCEPT !.step = "prevote", !.prop = ProposalOf(rec)]
    BY <1>3 DEF After, Prevoting
  <2>2. ProposalOf(rec) \in Values \cup {None}
    BY <1>0 DEF ProposalOf
  <2> QED
    BY <1>0, <1>3, <2>1, <2>2 DEF Effect, RoundState
<1>4. CASE rec.k = "prevote"
  <2>1. After(st, rec) = [st EXCEPT !.step = "precommit"]
    BY <1>4 DEF After
  <2> QED
    BY <1>0, <1>4, <2>1 DEF Effect, RoundState
<1>5. CASE rec.k = "polka"
  <2> DEFINE valid == Validated(st, rec.b)
  <2>1. valid \in Blocks \cup {None}
    BY <1>0 DEF Validated
  <2>2. CASE st.step = "precommit"
    <3> DEFINE unlocks == st.lockB # None /\ st.lockR < st.r /\ st.lockB # rec.b
               lockR == IF unlocks THEN -1 ELSE st.lockR
               lockB == IF unlocks THEN None ELSE st.lockB
    <3>1. After(st, rec)
            = [st EXCEPT !.polka = TRUE, !.validB = valid, !.lockR = lockR, !.lockB = lockB]
      BY <1>5, <2>2 DEF After, OutOfStep
    <3>2. /\ lockR \in Int /\ lockB \in Blocks \cup {None}
          /\ \/ lockB = st.lockB /\ lockR = st.lockR
             \/ lockB = None /\ st.lockR < st.r /\ st.lockB # rec.b
      BY <1>0
    <3> HIDE DEF valid, lockR, lockB
    <3> QED
      BY <1>0, <1>5, <2>1, <2>2, <3>1, <3>2 DEF Effect, RoundState
  <2>3. CASE st.step # "precommit"
    <3> DEFINE lockR == IF IsKnown(st, rec.b) THEN st.r ELSE -1
               lockB == IF IsKnown(st, rec.b) THEN rec.b ELSE None
    <3>1. After(st, rec)
            = [st EXCEPT !.step = "precommit", !.polka = TRUE, !.validB = valid,
                         !.lockR = lockR, !.lockB = lockB]
      BY <1>5, <2>3 DEF After, Precommitting
    <3>2. /\ lockR \in Int /\ lockB \in Blocks \cup {None}
          /\ \/ IsKnown(st, rec.b) /\ lockB = rec.b /\ lockR = st.r
             \/ ~ IsKnown(st, rec.b) /\ lockB = None
      BY <1>0 DEF IsKnown
    <3>3. st.step = "prevote"
      BY <1>5, <2>3 DEF AppliesTo
    <3> HIDE DEF valid, lockR, lockB
    <3> QED
      BY <1>0, <1>5, <2>1, <2>3, <3>1, <3>2, <3>3 DEF Effect, RoundState
  <2> QED
    BY <2>2, <2>3
<1>6. CASE rec.k = "commit"
  <2>1. After(st, rec) = [st EXCEPT !.step = "commit"]
    BY <1>6 DEF After
  <2> QED
    BY <1>0, <1>6, <2>1 DEF Effect, RoundState
<1> QED
  BY <1>1, <1>2, <1>3, <1>4, <1>5, <1>6 DEF AppliesTo

\* A step of the round state is sound and goes forward, and the record that
\* caused it will not apply again.
LEMMA AfterForward ==
  ASSUME NEW st, Sound(st), NEW rec \in Record, AppliesTo(st, rec)
  PROVE  /\ Sound(After(st, rec)) /\ After(st, rec).h = st.h
         /\ Reaches(st, After(st, rec)) /\ After(st, rec).step # "newHeight"
         /\ Past(rec, After(st, rec))
<1> DEFINE to == After(st, rec)
<1>1. /\ st \in RoundState /\ st.r \in Nat /\ st.lockR \in Int /\ rec.r \in Nat
      /\ st.polka \in BOOLEAN
      /\ st.step \in {"newHeight", "propose", "prevote", "precommit", "commit"}
  BY DEF Sound, RoundState, Record
<1>2. Effect(rec, st, to)
  BY <1>1, AfterEffect
<1> HIDE DEF to
<1>3. Sound(to) /\ to.h = st.h
  BY <1>1, <1>2 DEF Effect, Sound, AppliesTo
<1>4. Reaches(st, to) /\ to.step # "newHeight"
  BY <1>1, <1>2 DEF Effect, Sound, AppliesTo, Reaches, Rank
<1>5. Past(rec, to)
  BY <1>1, <1>2 DEF Effect, AppliesTo, Past, Rank
<1> QED
  BY <1>3, <1>4, <1>5 DEF to

\* What is past stays past.
LEMMA AfterPast ==
  ASSUME NEW st, Sound(st), NEW rec \in Record, AppliesTo(st, rec),
         NEW q \in Record, Past(q, st)
  PROVE  Past(q, After(st, rec))
<1> DEFINE to == After(st, rec)
<1>1. /\ st \in RoundState /\ st.r \in Nat /\ rec.r \in Nat /\ q.r \in Nat
      /\ st.polka \in BOOLEAN
      /\ st.step \in {"newHeight", "propose", "prevote", "precommit", "commit"}
  BY DEF Sound, RoundState, Record
<1>2. Effect(rec, st, to)
  BY <1>1, AfterEffect
<1> HIDE DEF to
<1>3. Past(q, to)
  BY <1>1, <1>2 DEF Effect, Sound, AppliesTo, Past, Rank
<1> QED
  BY <1>3 DEF to

\* A record whose time has passed takes no effect.
LEMMA PastDoesNotApply ==
  ASSUME NEW st \in RoundState, NEW rec \in Record, Past(rec, st)
  PROVE  ~ AppliesTo(st, rec)
BY DEF RoundState, Record, Past, AppliesTo, Rank

\* A step keeps the lock of a, or its record is a polka that outvotes it.
LEMMA AfterLock ==
  ASSUME NEW st, Sound(st), NEW rec \in Record, AppliesTo(st, rec),
         NEW a \in RoundState, a.h = st.h, a.lockB # None,
         st.lockB = a.lockB, a.lockR <= st.lockR
  PROVE  \/ After(st, rec).lockB = a.lockB /\ a.lockR <= After(st, rec).lockR
         \/ Outvotes(rec, a, After(st, rec))
<1> DEFINE to == After(st, rec)
<1>1. /\ st \in RoundState /\ st.r \in Nat /\ st.lockR \in Int /\ rec.r \in Nat
      /\ a.lockR \in Int /\ st.polka \in BOOLEAN /\ a.lockB \in Blocks
      /\ st.step \in {"newHeight", "propose", "prevote", "precommit", "commit"}
  BY DEF Sound, RoundState, Record
<1>2. Effect(rec, st, to)
  BY <1>1, AfterEffect
<1> SUFFICES \/ to.lockB = a.lockB /\ a.lockR <= to.lockR
             \/ Outvotes(rec, a, to)
  OBVIOUS
<1> HIDE DEF to
<1>3. CASE rec.k # "polka"
  BY <1>1, <1>2, <1>3 DEF Effect
<1>4. CASE rec.k = "polka" /\ st.step = "precommit"
  BY <1>1, <1>2, <1>4 DEF Effect, AppliesTo, Outvotes, Rank
<1>5. CASE rec.k = "polka" /\ st.step = "prevote"
  <2>1. st.lockR < st.r
    BY <1>1, <1>5 DEF Sound
  <2>2. CASE rec.b = a.lockB
    <3>1. IsKnown(st, rec.b)
      BY <1>1, <2>2 DEF IsKnown
    <3> QED
      BY <1>1, <1>2, <1>5, <2>1, <2>2, <3>1 DEF Effect
  <2>3. CASE rec.b # a.lockB
    BY <1>1, <1>2, <1>5, <2>1, <2>3 DEF Effect, AppliesTo, Outvotes, Rank
  <2> QED
    BY <2>2, <2>3
<1> QED
  BY <1>3, <1>4, <1>5 DEF AppliesTo

\* Rounds and steps only go forward: the order is transitive,
LEMMA ReachesTransitive ==
  ASSUME NEW a \in RoundState, NEW b \in RoundState, NEW c \in RoundState,
         Reaches(a, b), Reaches(b, c)
  PROVE  Reaches(a, c)
BY DEF Reaches, Rank, RoundState

\* and a polka that outvotes a lock has done so at every later round state.
LEMMA OutvotesForward ==
  ASSUME NEW q \in Record, NEW a \in RoundState, NEW b \in RoundState, NEW c \in RoundState,
         Outvotes(q, a, b), Reaches(b, c)
  PROVE  Outvotes(q, a, c)
BY DEF Outvotes, Reaches, Rank, RoundState, Record

-----------------------------------------------------------------------------
(* The round states of a log. *)

\* A height starts without a lock.
LEMMA NewHeightSound ==
  ASSUME NEW h \in Nat
  PROVE  /\ Sound(NewHeightState(h)) /\ NewHeightState(h) \in RoundState
         /\ NewHeightState(h).h = h /\ NewHeightState(h).lockB = None
<1>1. NewHeightState(h) \in RoundState /\ NewHeightState(h).h = h
  BY NewHeightTypes
<1>2. /\ NewHeightState(h).step = "newHeight" /\ NewHeightState(h).r = 0
      /\ NewHeightState(h).lockB = None /\ NewHeightState(h).polka = FALSE
  BY DEF NewHeightState
<1> QED
  BY <1>1, <1>2 DEF Sound

\* A log that ends with the marker has the trace of one round state.
LEMMA TraceStart ==
  ASSUME NEW w, NEW m \in Nat, NEW h \in Nat
  PROVE  \E tr \in [Nat -> RoundState] : IsTrace(w, m, m, h, tr)
<1> DEFINE st == NewHeightState(h)
           tr == [i \in Nat |-> st]
<1>1. Sound(st) /\ st \in RoundState /\ st.h = h /\ st.lockB = None
  BY NewHeightSound
<1>2. Reaches(st, st)
  BY <1>1 DEF Reaches, Rank, RoundState
<1> HIDE DEF st
<1>3. tr \in [Nat -> RoundState] /\ \A i \in m .. m : i \in Nat /\ tr[i] = st
  BY <1>1
<1>4. tr[m] = NewHeightState(h)
  BY DEF st
<1>5. m + 1 .. m = {}
  OBVIOUS
<1>6. \A i, j \in m .. m : LockKept(w, tr, i, j)
  BY <1>1, <1>3 DEF LockKept
<1> HIDE DEF tr
<1>7. IsTrace(w, m, m, h, tr)
  BY <1>1, <1>2, <1>3, <1>4, <1>5, <1>6 DEF IsTrace
<1> QED
  BY <1>3, <1>7

\* A prefix of the log has the same trace.
LEMMA TracePrefix ==
  ASSUME NEW w, NEW n \in Nat, NEW m \in Nat, NEW h \in Nat, NEW tr, IsTrace(w, n, m, h, tr),
         NEW x, NEW k \in m .. n, \A i \in m + 1 .. k : x[i] = w[i]
  PROVE  IsTrace(x, k, m, h, tr)
<1>1. k \in Nat /\ k <= n /\ m <= k
  OBVIOUS
<1>2. m .. k \subseteq m .. n /\ m + 1 .. k \subseteq m + 1 .. n
  BY <1>1
<1>3. \A i, j \in m .. k : LockKept(w, tr, i, j) => LockKept(x, tr, i, j)
  <2>1. \A i, j \in m .. k : \A q \in i + 1 .. j : q \in m + 1 .. k
    BY <1>1
  <2> QED
    BY <2>1 DEF LockKept
<1> QED
  BY <1>2, <1>3 DEF IsTrace

\* The logs w and x have the same records from the marker to the n-th record.
SameRecords(w, x, m, n) == \A i \in m + 1 .. n : w[i] \in Record /\ x[i] = w[i]

\* The record applies, is of another height or is past.
Fits(st, rec, h) == AppliesTo(st, rec) \/ rec.h # h \/ Past(rec, st)

\* One more record that fits.
LEMMA TraceAppend ==
  ASSUME NEW w, NEW n \in Nat, NEW m \in 0 .. n, NEW h \in Nat, NEW tr, IsTrace(w, n, m, h, tr),
         NEW x, SameRecords(w, x, m, n), x[n + 1] \in Record, Fits(tr[n], x[n + 1], h),
         NEW ext, ext = [tr EXCEPT ![n + 1] = Applied(tr[n], x[n + 1])]
  PROVE  ext \in [Nat -> RoundState] /\ IsTrace(x, n + 1, m, h, ext)
<1>0. /\ \A i \in m + 1 .. n : w[i] \in Record
      /\ \A i \in m + 1 .. n : x[i] = w[i]
      /\ AppliesTo(tr[n], x[n + 1]) \/ x[n + 1].h # h \/ Past(x[n + 1], tr[n])
  BY DEF SameRecords, Fits
<1> DEFINE rec == x[n + 1]
           st == tr[n]
           to == Applied(st, rec)
<1>1. /\ tr \in [Nat -> RoundState] /\ m <= n /\ m \in Nat /\ n \in m .. n
      /\ Sound(st) /\ st.h = h /\ st \in RoundState
  BY DEF IsTrace, Sound
<1>2. /\ Sound(to) /\ to.h = h /\ to \in RoundState /\ Reaches(st, to)
      /\ rec.h = h => Past(rec, to)
      /\ \A q \in Record : Past(q, st) => Past(q, to)
  <2>1. CASE AppliesTo(st, rec)
    <3>1. to = After(st, rec)
      BY <2>1 DEF Applied
    <3> QED
      BY <1>1, <2>1, <3>1, AfterForward, AfterPast DEF Sound
  <2>2. CASE ~ AppliesTo(st, rec)
    <3>1. to = st
      BY <2>2 DEF Applied
    <3>2. Reaches(st, st)
      BY <1>1 DEF Reaches, Rank, RoundState
    <3> QED
      BY <1>0, <1>1, <2>2, <3>1, <3>2
  <2> QED
    BY <2>1, <2>2
<1>3. ASSUME NEW a \in RoundState, a.h = h, a.lockB # None,
             st.lockB = a.lockB, a.lockR <= st.lockR
      PROVE  \/ to.lockB = a.lockB /\ a.lockR <= to.lockR
             \/ Outvotes(rec, a, to)
  <2>1. CASE AppliesTo(st, rec)
    BY <1>1, <1>3, <2>1, AfterLock DEF Applied
  <2>2. CASE ~ AppliesTo(st, rec)
    BY <1>3, <2>2 DEF Applied
  <2> QED
    BY <2>1, <2>2
<1>e. ext = [tr EXCEPT ![n + 1] = to]
  OBVIOUS
<1> HIDE DEF to
<1>4. /\ ext \in [Nat -> RoundState] /\ ext[n + 1] = to
      /\ \A i \in m .. n : ext[i] = tr[i]
  BY <1>1, <1>2, <1>e
<1>5. \A i \in m .. n + 1 : i \in m .. n \/ i = n + 1
  BY <1>1
<1>6. \A i \in m .. n : i # n + 1 /\ i <= n
  BY <1>1
<1>7. ext[m] = NewHeightState(h)
  BY <1>1, <1>4 DEF IsTrace
<1>8. \A i \in m + 1 .. n + 1 : ext[i] = Applied(ext[i - 1], x[i])
  <2>1. ASSUME NEW i \in m + 1 .. n PROVE ext[i] = Applied(ext[i - 1], x[i])
    <3>1. i \in m .. n /\ i - 1 \in m .. n
      BY <1>1
    <3> QED
      BY <1>0, <1>4, <3>1 DEF IsTrace
  <2>2. ext[n + 1] = Applied(ext[n], x[n + 1])
    BY <1>1, <1>4 DEF to
  <2>3. \A i \in m + 1 .. n + 1 : i \in m + 1 .. n \/ i = n + 1
    BY <1>1
  <2>4. (n + 1) - 1 = n
    OBVIOUS
  <2> QED
    BY <2>1, <2>2, <2>3, <2>4
<1>9. \A i \in m .. n + 1 : Sound(ext[i]) /\ ext[i].h = h
  BY <1>2, <1>4, <1>5 DEF IsTrace
<1>10. ASSUME NEW i \in m .. n + 1, NEW j \in m .. n + 1, i <= j
       PROVE  Reaches(ext[i], ext[j])
  <2>1. CASE j \in m .. n
    <3>1. i \in m .. n
      BY <1>10, <2>1
    <3> QED
      BY <1>4, <1>10, <2>1, <3>1 DEF IsTrace
  <2>2. CASE i \in m .. n /\ j = n + 1
    <3>1. Reaches(tr[i], st) /\ tr[i] \in RoundState
      BY <1>1, <1>6, <2>2 DEF IsTrace
    <3> QED
      BY <1>1, <1>2, <1>4, <2>2, <3>1, ReachesTransitive
  <2>3. CASE i = n + 1 /\ j = n + 1
    BY <1>2, <1>4, <2>3 DEF Reaches, Rank, RoundState
  <2> QED
    BY <1>5, <1>6, <1>10, <2>1, <2>2, <2>3
<1>11. ASSUME NEW i \in m .. n + 1, NEW j \in m .. n + 1, i <= j
       PROVE  LockKept(x, ext, i, j)
  <2>0. SUFFICES ASSUME ext[i].lockB # None
                 PROVE  \/ ext[j].lockB = ext[i].lockB /\ ext[i].lockR <= ext[j].lockR
                        \/ \E k \in i + 1 .. j : Outvotes(x[k], ext[i], ext[j])
    BY DEF LockKept
  <2>1. CASE j \in m .. n
    <3>1. i \in m .. n /\ \A k \in i + 1 .. j : k \in m + 1 .. n
      BY <1>1, <1>11, <2>1
    <3>2. LockKept(w, tr, i, j)
      BY <1>11, <2>1, <3>1 DEF IsTrace
    <3> QED
      BY <1>0, <1>4, <2>0, <2>1, <3>1, <3>2 DEF LockKept
  <2>2. CASE i \in m .. n /\ j = n + 1
    <3>1. /\ tr[i] \in RoundState /\ tr[i].h = h /\ LockKept(w, tr, i, n)
      BY <1>1, <1>6, <2>2 DEF IsTrace, Sound
    <3>2. ext[i] = tr[i] /\ ext[j] = to
      BY <1>4, <2>2
    <3>3. CASE st.lockB = tr[i].lockB /\ tr[i].lockR <= st.lockR
      <4>1. n + 1 \in i + 1 .. j
        BY <1>1, <2>2
      <4>2. \/ to.lockB = tr[i].lockB /\ tr[i].lockR <= to.lockR
            \/ Outvotes(rec, tr[i], to)
        BY <1>3, <2>0, <3>1, <3>2, <3>3
      <4> QED
        BY <3>2, <4>1, <4>2
    <3>4. CASE \E k \in i + 1 .. n : Outvotes(w[k], tr[i], st)
      <4>1. PICK k \in i + 1 .. n : Outvotes(w[k], tr[i], st)
        BY <3>4
      <4>2. k \in m + 1 .. n /\ k \in i + 1 .. j
        BY <1>1, <2>2
      <4>3. w[k] \in Record /\ x[k] = w[k]
        BY <1>0, <4>2
      <4>4. Outvotes(w[k], tr[i], to)
        BY <1>1, <1>2, <3>1, <4>1, <4>3, OutvotesForward
      <4> QED
        BY <3>2, <4>2, <4>3, <4>4
    <3> QED
      BY <2>0, <3>1, <3>2, <3>3, <3>4 DEF LockKept
  <2>3. CASE i = n + 1 /\ j = n + 1
    <3>1. ext[i].lockR <= ext[j].lockR
      BY <1>2, <1>4, <2>3 DEF RoundState
    <3> QED
      BY <2>3, <3>1
  <2> QED
    BY <1>5, <1>6, <1>11, <2>1, <2>2, <2>3
<1>12. ASSUME NEW i \in m + 1 .. n + 1, NEW j \in m + 1 .. n + 1, i <= j, x[i].h = h
       PROVE  Past(x[i], ext[j])
  <2>1. CASE j \in m + 1 .. n
    <3>1. i \in m + 1 .. n /\ j \in m .. n
      BY <1>1, <1>12, <2>1
    <3> QED
      BY <1>0, <1>4, <1>12, <2>1, <3>1 DEF IsTrace
  <2>2. CASE i \in m + 1 .. n /\ j = n + 1
    <3>1. n \in m + 1 .. n /\ i <= n
      BY <1>1, <2>2
    <3>2. Past(w[i], st) /\ w[i] \in Record
      BY <1>0, <1>12, <2>2, <3>1 DEF IsTrace
    <3> QED
      BY <1>0, <1>2, <1>4, <2>2, <3>2
  <2>3. CASE i = n + 1 /\ j = n + 1
    BY <1>2, <1>4, <1>12, <2>3
  <2>4. (i \in m + 1 .. n \/ i = n + 1) /\ (j \in m + 1 .. n \/ j = n + 1)
    BY <1>1
  <2>5. i = n + 1 => j = n + 1
    BY <1>1, <1>12
  <2> QED
    BY <2>1, <2>2, <2>3, <2>4, <2>5
<1>13. IsTrace(x, n + 1, m, h, ext)
  BY <1>4, <1>7, <1>8, <1>9, <1>10, <1>11, <1>12 DEF IsTrace
<1> QED
  BY <1>4, <1>13

\* Two records that ask for a vote of one round and step ask for the same one.
LEMMA AskedOnce ==
  ASSUME NEW w, NEW n \in Nat, NEW m \in Nat, NEW h \in Nat, NEW tr, IsTrace(w, n, m, h, tr),
         \A i \in m + 1 .. n : w[i] \in Record,
         NEW u, NEW v, u.r = v.r, u.s = v.s,
         NEW i \in m + 1 .. n, NEW j \in m + 1 .. n, i <= j,
         AskedAt(w, tr, i, u), AskedAt(w, tr, j, v)
  PROVE  u.b = v.b
<1> USE DEF AskedAt
<1>1. i = j => u.b = v.b
  BY DEF Asks, stepPrevote, stepPrecommit
<1>2. CASE i < j
  <2>1. i - 1 \in m .. n /\ i \in m .. n /\ j - 1 \in m .. n /\ i <= j - 1
    BY <1>2
  <2>2. /\ tr[i - 1] \in RoundState /\ tr[i] = After(tr[i - 1], w[i])
        /\ AppliesTo(tr[i - 1], w[i])
    BY <2>1 DEF IsTrace, Applied, Asks, Sound
  <2>3. Effect(w[i], tr[i - 1], tr[i])
    BY <2>2, AfterEffect
  <2>4. Reaches(tr[i], tr[j - 1])
    BY <2>1 DEF IsTrace
  <2>5. tr[i].r = u.r /\ tr[j - 1].r = v.r /\ tr[i].r \in Nat
    BY <2>3 DEF Asks, Effect, RoundState
  <2>6. Rank(tr[i].step) <= Rank(tr[j - 1].step)
    BY <2>4, <2>5 DEF Reaches
  <2>7. CASE u.s = stepPrevote
    <3>1. tr[i].step = "prevote" /\ tr[j - 1].step = "propose"
      BY <2>3, <2>7 DEF Asks, AppliesTo, Effect, stepPrevote, stepPrecommit
    <3> QED
      BY <2>6, <3>1 DEF Rank
  <2>8. CASE u.s = stepPrecommit
    <3>1. tr[i].step = "precommit" /\ tr[j - 1].step = "prevote"
      BY <2>3, <2>8 DEF Asks, AppliesTo, Effect, stepPrevote, stepPrecommit
    <3> QED
      BY <2>6, <3>1 DEF Rank
  <2> QED
    BY <2>7, <2>8 DEF Asks
<1> QED
  BY <1>1, <1>2

\* A prevote for something else than a precommit of an earlier round is asked
\* for only behind a polka in between.
LEMMA AskedUnderLock ==
  ASSUME NEW w, NEW n \in Nat, NEW m \in Nat, NEW h \in Nat, NEW tr, IsTrace(w, n, m, h, tr),
         \A i \in m + 1 .. n : w[i] \in Record,
         NEW u, NEW v, u.s = stepPrecommit, u.b \in Blocks, v.s = stepPrevote,
         u.r < v.r, v.b # u.b,
         NEW i \in m + 1 .. n, NEW j \in m + 1 .. n,
         AskedAt(w, tr, i, u), AskedAt(w, tr, j, v)
  PROVE  \E k \in m + 1 .. n :
           w[k].k = "polka" /\ w[k].h = h /\ u.r < w[k].r /\ w[k].r < v.r /\ w[k].b # u.b
<1> USE DEF AskedAt
<1>1. i - 1 \in m .. n /\ j - 1 \in m .. n /\ i \in m .. n
  OBVIOUS
<1>2. /\ tr[i - 1] \in RoundState /\ tr[j - 1] \in RoundState
      /\ tr[i] = After(tr[i - 1], w[i]) /\ AppliesTo(tr[i - 1], w[i])
  BY <1>1 DEF IsTrace, Applied, Asks, Sound
<1>3. Effect(w[i], tr[i - 1], tr[i])
  BY <1>2, AfterEffect
<1>4. /\ u.r = tr[i - 1].r /\ v.r = tr[j - 1].r /\ u.r \in Nat /\ v.r \in Nat
      /\ tr[j - 1].step = "propose"
  BY <1>2 DEF Asks, AppliesTo, RoundState, stepPrevote, stepPrecommit
<1>5. i <= j - 1
  <2>1. j - 1 <= i - 1 => Reaches(tr[j - 1], tr[i - 1])
    BY <1>1 DEF IsTrace
  <2> QED
    BY <1>4, <2>1 DEF Reaches
<1>6. tr[i].lockB = u.b /\ tr[i].lockR = u.r /\ tr[i].h = h
  <2>1. w[i].k = "polka" /\ tr[i - 1].step = "prevote" /\ IsKnown(tr[i - 1], w[i].b) /\ u.b = w[i].b
    BY RecoveryAssumption DEF Asks, stepPrevote, stepPrecommit
  <2> QED
    BY <1>1, <1>3, <1>4, <2>1 DEF Effect, IsTrace
<1>7. LockKept(w, tr, i, j - 1)
  BY <1>1, <1>5 DEF IsTrace
<1>8. tr[j - 1].lockB # u.b
  BY RecoveryAssumption DEF Asks, stepPrevote, stepPrecommit
<1>9. PICK k \in i + 1 .. j - 1 : Outvotes(w[k], tr[i], tr[j - 1])
  BY <1>6, <1>7, <1>8, RecoveryAssumption DEF LockKept
<1>10. k \in m + 1 .. n /\ w[k] \in Record
  OBVIOUS
<1> QED
  BY <1>4, <1>6, <1>9, <1>10 DEF Outvotes, Rank, Record

-----------------------------------------------------------------------------
(* The handlers, as steps of a trace. *)

\* Handling a record changes the round state as After says, and asks the key only
\* for what Asks says.
LEMMA HandleIs ==
  ASSUME cs \in RoundState, NEW rec \in Record, Applies(rec), Handle(rec)
  PROVE  /\ AppliesTo(cs, rec) /\ cs' = After(cs, rec)
         /\ pc' \in {"idle", "sign", "saveBlock"}
         /\ pc' = "sign" => vote'.h = cs.h /\ vote'.r = cs'.r
         /\ pc' = "sign" /\ vote'.s # stepPropose => Asks(cs, rec, vote')
<1>0. AppliesTo(cs, rec)
  BY DEF Applies, AppliesTo
<1>p. ASSUME NEW r \in Nat, EnterPropose(r)
      PROVE  /\ cs' = Proposing(cs, r)
             /\ pc' \in {"idle", "sign", "saveBlock"}
             /\ pc' = "sign" => vote'.h = cs.h /\ vote'.r = cs'.r /\ vote'.s = stepPropose
  <2>1. cs' = Proposing(cs, r)
    BY <1>p DEF EnterPropose, Proposing
  <2>2. CASE NotSigning
    BY <2>1, <2>2 DEF NotSigning
  <2>3. CASE ~ NotSigning
    <3>1. PICK b : Signing(stepPropose, b)
      BY <1>p, <2>3 DEF EnterPropose
    <3> QED
      BY <2>1, <3>1 DEF Signing
  <2> QED
    BY <2>2, <2>3
<1>1. CASE rec.k = "newHeight"
  <2>1. EnterPropose(0)
    BY <1>1 DEF Handle
  <2>2. After(cs, rec) = Proposing(cs, 0)
    BY <1>1 DEF After
  <2> QED
    BY <1>0, <1>p, <2>1, <2>2
<1>2. CASE rec.k \in {"propose", "proposal"}
  <2>1. EnterPrevote(ProposalOf(rec))
    BY <1>2 DEF Handle, ProposalOf
  <2> DEFINE b == IF cs.lockB # None THEN cs.lockB
                  ELSE IF ProposalOf(rec) # None THEN ProposalOf(rec) ELSE Nil
  <2>2. cs' = [cs EXCEPT !.step = "prevote", !.prop = ProposalOf(rec)]
    BY <2>1 DEF EnterPrevote
  <2>3. Signing(stepPrevote, b)
    BY <2>1 DEF EnterPrevote
  <2>4. cs' = After(cs, rec)
    BY <1>2, <2>2 DEF After, Prevoting
  <2>5. cs'.r = cs.r
    BY <2>2 DEF RoundState
  <2>6. pc' = "sign" /\ vote'.h = cs.h /\ vote'.r = cs'.r /\ vote'.s = stepPrevote /\ vote'.b = b
    BY <2>3 DEF Signing
  <2>7. Asks(cs, rec, vote')
    BY <1>0, <1>2, <2>5, <2>6 DEF Asks
  <2> QED
    BY <1>0, <2>4, <2>6, <2>7
<1>3. CASE rec.k = "prevote"
  <2>1. PrecommitNil
    BY <1>3 DEF Handle
  <2>2. cs' = [cs EXCEPT !.step = "precommit"] /\ Signing(stepPrecommit, Nil)
    BY <2>1 DEF PrecommitNil
  <2>4. cs' = After(cs, rec)
    BY <1>3, <2>2 DEF After
  <2>5. cs'.r = cs.r
    BY <2>2 DEF RoundState
  <2>6. /\ pc' = "sign" /\ vote'.h = cs.h /\ vote'.r = cs'.r /\ vote'.s = stepPrecommit
        /\ vote'.b = Nil
    BY <2>2 DEF Signing
  <2>7. Asks(cs, rec, vote')
    BY <1>0, <1>3, <2>5, <2>6 DEF Asks
  <2> QED
    BY <1>0, <2>4, <2>6, <2>7
<1>4. CASE rec.k = "polka"
  <2>1. OnPolka(rec.b)
    BY <1>4 DEF Handle
  <2>2. CASE cs.step = "precommit"
    <3>1. cs' = OutOfStep(cs, rec.b) /\ NotSigning
      BY <2>1, <2>2 DEF OnPolka, OutOfStep, Validated
    <3> QED
      BY <1>0, <1>4, <2>2, <3>1 DEF After, NotSigning
  <2>3. CASE cs.step # "precommit"
    <3> DEFINE b == IF IsKnown(cs, rec.b) THEN rec.b ELSE Nil
    <3>1. cs' = Precommitting(cs, rec.b) /\ Signing(stepPrecommit, b)
      BY <2>1, <2>3 DEF OnPolka, Precommitting, Validated, IsKnown
    <3>2. cs' = After(cs, rec)
      BY <1>4, <2>3, <3>1 DEF After
    <3>3. cs'.r = cs.r /\ cs.step = "prevote"
      BY <1>0, <1>4, <2>3, <3>2, AfterEffect DEF Effect, AppliesTo
    <3>4. pc' = "sign" /\ vote'.h = cs.h /\ vote'.r = cs'.r /\ vote'.s = stepPrecommit /\ vote'.b = b
      BY <3>1 DEF Signing
    <3>5. Asks(cs, rec, vote')
      BY <1>0, <1>4, <3>3, <3>4 DEF Asks
    <3> QED
      BY <1>0, <3>2, <3>4, <3>5
  <2> QED
    BY <2>2, <2>3
<1>5. CASE rec.k = "precommit"
  <2>1. EnterPropose(cs.r + 1) /\ cs.r + 1 \in Nat
    BY <1>5 DEF Handle, RoundState
  <2>2. After(cs, rec) = Proposing(cs, cs.r + 1)
    BY <1>5 DEF After
  <2> QED
    BY <1>0, <1>p, <2>1, <2>2
<1>6. CASE rec.k = "commit"
  <2>1. EnterCommit
    BY <1>6 DEF Handle
  <2> QED
    BY <1>0, <1>6, <2>1 DEF EnterCommit, After
<1> QED
  BY <1>1, <1>2, <1>3, <1>4, <1>5, <1>6 DEF Applies

\* A handler goes forward in the height.
LEMMA HandlePlace ==
  ASSUME TypeOK, PlaceInv, pc = "idle", NEW rec \in Record,
         (Applies(rec) /\ Handle(rec)) \/ UNCHANGED <<cs, vote, pc>>,
         UNCHANGED <<height, state, mode, repaired>>,
         queue' = queue \/ (queue # <<>> /\ queue' = Tail(queue))
  PROVE  PlaceInv'
<1>0. cs \in RoundState /\ Sound(cs) /\ mode # "handshake" /\ state = height /\ cs.h = height + 1
  BY DEF TypeOK, RoundTypes, PlaceInv, InRound
<1>1. /\ Sound(cs') /\ cs' \in RoundState /\ cs'.h = cs.h /\ Reaches(cs, cs')
      /\ pc' \in {"idle", "sign", "saveBlock"}
      /\ pc' = "sign" => vote'.h = cs'.h /\ vote'.r = cs'.r /\ cs'.step # "newHeight"
  <2>1. CASE Applies(rec) /\ Handle(rec)
    <3>1. /\ AppliesTo(cs, rec) /\ cs' = After(cs, rec)
          /\ pc' \in {"idle", "sign", "saveBlock"}
          /\ pc' = "sign" => vote'.h = cs.h /\ vote'.r = cs'.r
      BY <1>0, <2>1, HandleIs
    <3>2. Sound(cs') /\ cs'.h = cs.h /\ Reaches(cs, cs') /\ cs'.step # "newHeight"
      BY <1>0, <3>1, AfterForward
    <3> QED
      BY <3>1, <3>2 DEF Sound
  <2>2. CASE UNCHANGED <<cs, vote, pc>>
    <3>1. Reaches(cs, cs)
      BY <1>0 DEF Reaches, Rank, RoundState
    <3> QED
      BY <1>0, <2>2, <3>1
  <2> QED
    BY <2>1, <2>2
<1>2. \A i \in DOMAIN queue :
        \/ queue[i].h < cs'.h
        \/ queue[i].h = cs'.h /\ queue[i].r < cs'.r
        \/ queue[i].h = cs'.h /\ queue[i].r = cs'.r /\ cs'.step # "newHeight"
  <2> SUFFICES ASSUME NEW i \in DOMAIN queue
               PROVE  \/ queue[i].h < cs'.h
                      \/ queue[i].h = cs'.h /\ queue[i].r < cs'.r
                      \/ queue[i].h = cs'.h /\ queue[i].r = cs'.r /\ cs'.step # "newHeight"
    OBVIOUS
  <2>1. queue[i].h \in Nat /\ queue[i].r \in Nat
    BY DEF TypeOK, LogTypes, Record
  <2>2. \/ queue[i].h < cs.h
        \/ queue[i].h = cs.h /\ queue[i].r < cs.r
        \/ queue[i].h = cs.h /\ queue[i].r = cs.r /\ cs.step # "newHeight"
    BY DEF PlaceInv
  <2> QED
    BY <1>0, <1>1, <2>1, <2>2 DEF Reaches, Rank, RoundState
<1>3. \A i \in DOMAIN queue' :
        \/ queue'[i].h < cs'.h
        \/ queue'[i].h = cs'.h /\ queue'[i].r < cs'.r
        \/ queue'[i].h = cs'.h /\ queue'[i].r = cs'.r /\ cs'.step # "newHeight"
  <2>1. CASE queue' = queue
    BY <1>2, <2>1
  <2>2. CASE queue # <<>> /\ queue' = Tail(queue)
    <3>1. \A i \in DOMAIN queue' : i + 1 \in DOMAIN queue /\ queue'[i] = queue[i + 1]
      BY <2>2 DEF TypeOK, LogTypes
    <3> QED
      BY <1>2, <3>1
  <2> QED
    BY <2>1, <2>2
<1>4. state' <= height' /\ state' = height' /\ mode' # "handshake" /\ cs'.h = height' + 1
  BY <1>0, <1>1 DEF PlaceInv
<1> QED
  BY <1>1, <1>3, <1>4 DEF PlaceInv, InRound, Finalizing

\* Where the validator is and what is on its way.
LEMMA PlaceStep ==
  ASSUME TypeOK, TypeOK', PlaceInv, SignedInv, [Next]_vars
  PROVE  PlaceInv'
<1> USE DEF stores, histories, consensusVars
<1>0. /\ LogTypes /\ cs \in RoundState /\ cs' \in RoundState /\ state \in Nat /\ height \in Nat
      /\ repaired \in BOOLEAN /\ lss \in Signature
  BY DEF TypeOK, LogTypes, StoreTypes, RoundTypes, KeyTypes
<1>1. CASE UNCHANGED vars
  BY <1>1 DEF vars, PlaceInv, InRound, Finalizing
<1>2. CASE Sign
  <2> DEFINE sig == SignatureFor(vote)
  <2>1. /\ pc = "sign" /\ pc' = "idle" /\ vote \in Vote
        /\ UNCHANGED <<height, state, mode, cs, repaired>>
    BY <1>2 DEF Sign, TypeOK, RoundTypes
  <2>2. /\ vote.h = cs.h /\ vote.r = cs.r /\ (vote.s = stepPropose => cs.step # "newHeight")
        /\ mode # "handshake" /\ state = height /\ cs.h = height + 1 /\ Sound(cs)
    BY <2>1 DEF PlaceInv, InRound
  <2>3. \A i \in DOMAIN queue' :
          \/ queue'[i].h < cs.h
          \/ queue'[i].h = cs.h /\ queue'[i].r < cs.r
          \/ queue'[i].h = cs.h /\ queue'[i].r = cs.r /\ cs.step # "newHeight"
    <3>1. CASE queue' = queue
      BY <3>1 DEF PlaceInv
    <3>2. CASE queue' # queue
      <4> DEFINE prop == Rec("proposal", sig.h, sig.r, sig.b)
      <4>1. sig # None /\ sig.s = stepPropose /\ queue' = Append(queue, prop)
        BY <1>2, <3>2 DEF Sign
      <4>2. sig.h = vote.h /\ sig.r = vote.r /\ sig.s = vote.s
        BY <4>1 DEF SignatureFor, SameHRS
      <4>3. prop.h = cs.h /\ prop.r = cs.r /\ cs.step # "newHeight"
        BY <2>2, <4>1, <4>2 DEF Rec
      <4> HIDE DEF prop
      <4>4. \A i \in DOMAIN queue' : (i \in DOMAIN queue /\ queue'[i] = queue[i]) \/ queue'[i] = prop
        <5>1. sig \in Signature
          BY <1>0, <2>1, <4>1 DEF SignatureFor, Signature, Vote, TypeOK, KeyTypes
        <5>2. prop \in {p \in Record : p.k = "proposal"}
          BY <5>1 DEF prop, Rec, Record, Signature
        <5>3. queue \in Seq({p \in Record : p.k = "proposal"})
          BY <1>0 DEF LogTypes
        <5> QED
          BY <4>1, <5>2, <5>3
      <4> QED
        BY <4>3, <4>4 DEF PlaceInv
    <3> QED
      BY <3>1, <3>2
  <2> QED
    BY <2>1, <2>2, <2>3 DEF PlaceInv, InRound, Finalizing
<1>3. CASE ReceivePeer
  <2>1. PICK rec \in Record :
          /\ pc = "idle" /\ Applies(rec) /\ Handle(rec)
          /\ UNCHANGED <<height, state, mode, queue, repaired>>
    BY <1>3, ReceivePeerRecord
  <2> QED
    BY <2>1, HandlePlace
<1>4. CASE ReceiveInternal
  <2>1. Head(queue) \in Record
    BY <1>0, <1>4, HeadTailProperties DEF ReceiveInternal, LogTypes
  <2> QED
    BY <1>4, <2>1, HandlePlace DEF ReceiveInternal
<1>5. CASE ReplayMessage
  <2>1. wal[pos + 1] \in Record
    BY <1>0, <1>5, ElementOfSeq DEF ReplayMessage, LogTypes
  <2> QED
    BY <1>5, <2>1, HandlePlace DEF ReplayMessage
<1>6. CASE SaveBlock
  <2>1. /\ pc = "saveBlock" /\ pc' = "endHeight" /\ height' = cs.h
        /\ UNCHANGED <<state, mode, cs, vote, queue, repaired>>
    BY <1>0, <1>6 DEF SaveBlock, PlaceInv, InRound
  <2> QED
    BY <1>0, <2>1 DEF PlaceInv, InRound, Finalizing
<1>7. CASE WriteEndHeight \/ SyncEndHeight
  <2>1. /\ pc \in {"endHeight", "syncEnd"} /\ pc' \in {"syncEnd", "exec"}
        /\ UNCHANGED <<height, state, mode, cs, vote, queue, repaired>>
    BY <1>7 DEF WriteEndHeight, SyncEndHeight
  <2> QED
    BY <1>0, <2>1 DEF PlaceInv, InRound, Finalizing
<1>8. CASE ExecBlock \/ CommitApp
  <2>1. /\ pc \in {"exec", "commitApp"} /\ pc' \in {"commitApp", "saveState", "dead"}
        /\ UNCHANGED <<height, state, mode, cs, vote, queue, repaired>>
    BY <1>8 DEF ExecBlock, CommitApp, Die
  <2> QED
    BY <1>0, <2>1 DEF PlaceInv, InRound, Finalizing
<1>9. CASE SaveState
  <2>1. /\ pc = "saveState" /\ state' = height
        /\ mode = "handshake" => pc' = "start"
        /\ mode # "handshake" => pc' = "pruneBlocks"
        /\ UNCHANGED <<height, mode, cs, vote, queue, repaired>>
    BY <1>9 DEF SaveState
  <2> QED
    BY <1>0, <2>1 DEF PlaceInv, InRound, Finalizing
<1>10. CASE PruneBlocks \/ PruneStates
  <2>1. /\ pc \in {"pruneBlocks", "pruneStates"} /\ pc' \in {"pruneStates", "update"}
        /\ UNCHANGED <<height, state, mode, cs, vote, queue, repaired>>
    BY <1>10 DEF PruneBlocks, PruneStates
  <2> QED
    BY <1>0, <2>1 DEF PlaceInv, InRound, Finalizing
<1>11. CASE UpdateToState
  <2>1. /\ pc = "update" /\ pc' = "idle" /\ cs' = NewHeightState(state + 1)
        /\ UNCHANGED <<height, state, mode, vote, queue, repaired>>
    BY <1>11 DEF UpdateToState
  <2>2. mode # "handshake" /\ state = height /\ cs.h = height
    BY <2>1 DEF PlaceInv, Finalizing
  <2>3. Sound(cs') /\ cs'.h = height + 1
    BY <1>0, <2>1, <2>2, NewHeightSound
  <2>4. \A i \in DOMAIN queue : queue[i].h \in Nat /\ queue[i].h <= cs.h
    <3>1. \A i \in DOMAIN queue : queue[i].h \in Nat
      BY <1>0 DEF LogTypes, Record
    <3> QED
      BY <1>0, <3>1 DEF PlaceInv, RoundState
  <2> QED
    BY <1>0, <2>1, <2>2, <2>3, <2>4 DEF PlaceInv, InRound, Finalizing
<1>12. CASE Handshake \/ ReplayBlock
  <2>1. /\ pc \in {"handshake", "replayBlocks"}
        /\ pc' \in {"dead", "start", "replayBlocks", "exec"}
        /\ pc' = "start" => height = 0 \/ height = state
        /\ UNCHANGED <<height, state, mode, cs, vote, queue, repaired>>
    BY <1>12 DEF Handshake, ReplayBlock, Die
  <2> QED
    BY <1>0, <2>1 DEF PlaceInv, InRound, Finalizing
<1>13. CASE Start
  <2>1. /\ pc = "start" /\ UNCHANGED <<height, state, mode, vote, queue, repaired>>
        /\ \/ pc' = "dead" /\ cs' = cs
           \/ pc' = "search" /\ cs' = NewHeightState(state + 1)
    BY <1>13 DEF Start, Die
  <2>2. mode = "handshake" /\ state = height /\ queue = <<>>
    BY <1>0, <2>1 DEF PlaceInv, TypeOK, RoundTypes
  <2>3. Sound(cs') /\ (pc' = "search" => cs'.h = height + 1)
    BY <1>0, <2>1, <2>2, NewHeightSound DEF PlaceInv
  <2>4. DOMAIN queue = {}
    BY <2>2
  <2> QED
    BY <1>0, <2>1, <2>2, <2>3, <2>4 DEF PlaceInv, InRound, Finalizing
<1>14. CASE CatchupReplay
  <2>1. PICK resync \in BOOLEAN : SearchForEndHeight(cs.h, resync)
    BY <1>14 DEF CatchupReplay
  <2>2. mode' \in {"replay", "run"}
    BY <1>0, <2>1, SearchTypes DEF LogTypes, RoundState
  <2>3. pc = "search" /\ pc' = "idle" /\ UNCHANGED <<height, state, cs, vote, queue, repaired>>
    BY <1>14 DEF CatchupReplay
  <2> QED
    BY <1>0, <2>2, <2>3 DEF PlaceInv, InRound, Finalizing
<1>15. CASE RepairWalFile
  <2>1. /\ pc = "idle" /\ mode = "replay" /\ pc' \in {"dead", "search"} /\ repaired' = TRUE
        /\ UNCHANGED <<height, state, mode, cs, vote, queue>>
    BY <1>15 DEF RepairWalFile, Die
  <2> QED
    BY <1>0, <2>1 DEF PlaceInv, InRound, Finalizing
<1>16. CASE ReplayDone
  <2>1. /\ pc = "idle" /\ mode = "replay" /\ pc' = "idle" /\ mode' = "run"
        /\ UNCHANGED <<height, state, cs, vote, queue>>
    BY <1>16 DEF ReplayDone
  <2> QED
    BY <1>0, <2>1 DEF PlaceInv, InRound, Finalizing
<1>17. CASE Crash
  <2>1. /\ pc' = "handshake" /\ mode' = "handshake" /\ cs' = NewHeightState(1)
        /\ queue' = <<>> /\ repaired' = FALSE
        /\ UNCHANGED <<height, state>>
    BY <1>17 DEF Crash
  <2>2. Sound(cs') /\ DOMAIN queue' = {} /\ ~ repaired'
    BY <2>1, NewHeightSound
  <2> QED
    BY <1>0, <2>1, <2>2 DEF PlaceInv, InRound, Finalizing
<1> QED
  BY <1>1, <1>2, <1>3, <1>4, <1>5, <1>6, <1>7, <1>8, <1>9, <1>10, <1>11, <1>12, <1>13, <1>14,
     <1>15, <1>16, <1>17 DEF Next, Step

-----------------------------------------------------------------------------
(* What is in the WAL, and what was signed. *)

\* The #ENDHEIGHT marker and a torn record, as records.
LEMMA MarkerIs ==
  ASSUME NEW h \in Nat
  PROVE  /\ EndHeight(h) \in Record /\ EndHeight(h).k = "end" /\ EndHeight(h).h = h
         /\ Torn \in Record /\ Torn.k = "torn" /\ Torn.h = 0
BY DEF EndHeight, Torn, Rec, Record

\* The fields of what is in the WAL.
LEMMA WalRecords ==
  ASSUME wal \in Seq(Record)
  PROVE  \A i \in DOMAIN wal : wal[i] \in Record /\ wal[i].h \in Nat /\ wal[i].r \in Nat
<1> SUFFICES ASSUME NEW i \in DOMAIN wal
             PROVE  wal[i] \in Record /\ wal[i].h \in Nat /\ wal[i].r \in Nat
  OBVIOUS
<1>1. wal[i] \in Record
  OBVIOUS
<1> QED
  BY <1>1 DEF Record

\* The WAL after one more record.
LEMMA WalAppend ==
  ASSUME wal \in Seq(Record), NEW rec \in Record, wal' = Append(wal, rec)
  PROVE  /\ Len(wal) \in Nat /\ Len(wal') = Len(wal) + 1
         /\ DOMAIN wal = 1 .. Len(wal) /\ DOMAIN wal' = 1 .. Len(wal) + 1
         /\ \A i \in 1 .. Len(wal) : wal'[i] = wal[i] /\ wal[i] \in Record
         /\ wal'[Len(wal) + 1] = rec
<1>1. wal' \in Seq(Record) /\ Len(wal') = Len(wal) + 1 /\ Len(wal) \in Nat
  OBVIOUS
<1> QED
  BY <1>1, LenProperties

\* What a crash leaves of the WAL.
LEMMA CrashLog ==
  ASSUME TypeOK, Crash
  PROVE  \E n \in synced .. Len(wal) :
           /\ Len(wal') = n \/ (Len(wal') = n + 1 /\ n < Len(wal) /\ wal'[n + 1] = Torn)
           /\ synced' = Len(wal') /\ DOMAIN wal' = 1 .. Len(wal')
           /\ \A i \in 1 .. n : wal'[i] = wal[i]
           /\ wal = <<>> => wal' = <<>>
<1>0. wal \in Seq(Record) /\ synced \in 0 .. Len(wal) /\ Len(wal) \in Nat /\ Torn \in Record
  BY MarkerIs DEF TypeOK, LogTypes
<1>1. PICK n \in synced .. Len(wal), tail \in {<<>>, <<Torn>>} :
        /\ wal' = SubSeq(wal, 1, n) \o tail /\ synced' = n + Len(tail)
        /\ tail = <<>> \/ n < Len(wal)
  BY DEF Crash
<1>2. n \in Nat /\ n <= Len(wal)
  BY <1>0
<1>3. /\ SubSeq(wal, 1, n) \in Seq(Record) /\ Len(SubSeq(wal, 1, n)) = n
      /\ \A i \in 1 .. n : SubSeq(wal, 1, n)[i] = wal[i]
  <2>1. \A i \in 1 .. n : wal[i] \in Record
    BY <1>0, <1>2
  <2> QED
    BY <1>2, <2>1, SubSeqProperties
<1>4. tail \in Seq(Record) /\ Len(tail) \in Nat
  <2>1. CASE tail = <<>>
    BY <2>1
  <2>2. CASE tail = <<Torn>>
    BY <1>0, <2>2
  <2> QED
    BY <1>1, <2>1, <2>2
<1>5. /\ wal' \in Seq(Record) /\ Len(wal') = n + Len(tail)
      /\ \A i \in 1 .. n : wal'[i] = wal[i]
  BY <1>1, <1>2, <1>3, <1>4, ConcatProperties
<1>6. DOMAIN wal' = 1 .. Len(wal')
  BY <1>5, LenProperties
<1>7. Len(wal') = n \/ (Len(wal') = n + 1 /\ n < Len(wal) /\ wal'[n + 1] = Torn)
  <2>1. CASE tail = <<>>
    <3>1. Len(tail) = 0
      BY <2>1
    <3> QED
      BY <1>2, <1>5, <3>1
  <2>2. CASE tail = <<Torn>>
    <3>1. Len(tail) = 1 /\ tail[1] = Torn /\ tail # <<>>
      BY <2>2
    <3>2. wal'[n + 1] = tail[1]
      BY <1>1, <1>2, <1>3, <1>4, <3>1, ConcatProperties
    <3> QED
      BY <1>1, <1>5, <3>1, <3>2
  <2> QED
    BY <1>1, <2>1, <2>2
<1>8. wal = <<>> => wal' = <<>>
  <2> SUFFICES ASSUME wal = <<>> PROVE wal' = <<>>
    OBVIOUS
  <2>1. Len(wal) = 0
    OBVIOUS
  <2>2. Len(wal') = 0
    BY <1>0, <1>2, <1>7, <2>1
  <2> QED
    BY <1>5, <2>2, EmptySeq
<1> QED
  BY <1>1, <1>5, <1>6, <1>7, <1>8

\* What repairWalFile leaves of it.
LEMMA RepairLog ==
  ASSUME TypeOK, RepairWalFile
  PROVE  /\ ~ repaired /\ pc' = "search" /\ HasTorn
         /\ FirstTorn \in 1 .. Len(wal) /\ wal[FirstTorn] = Torn
         /\ \A j \in 1 .. FirstTorn - 1 : wal[j] # Torn
         /\ Len(wal') = FirstTorn - 1 /\ synced' = Len(wal') /\ DOMAIN wal' = 1 .. Len(wal')
         /\ \A i \in 1 .. Len(wal') : wal'[i] = wal[i]
<1>0. /\ wal \in Seq(Record) /\ DOMAIN wal = 1 .. Len(wal) /\ Len(wal) \in Nat
      /\ pos \in 0 .. Len(wal)
  BY LenProperties DEF TypeOK, LogTypes
<1>1. HasTorn /\ ~ repaired
  BY <1>0 DEF RepairWalFile, HasTorn, TypeOK, LogTypes
<1>2. /\ wal' = SubSeq(wal, 1, FirstTorn - 1) /\ synced' = FirstTorn - 1 /\ pc' = "search"
  BY <1>1 DEF RepairWalFile, Intact
<1>3. /\ FirstTorn \in 1 .. Len(wal) /\ wal[FirstTorn] = Torn
      /\ \A j \in 1 .. FirstTorn - 1 : wal[j] # Torn
  BY <1>0, <1>1, FirstTornIs
<1>4. \A i \in 1 .. FirstTorn - 1 : wal[i] \in Record
  BY <1>0, <1>3
<1>5. /\ wal' \in Seq(Record) /\ Len(wal') = FirstTorn - 1
      /\ \A i \in 1 .. FirstTorn - 1 : wal'[i] = wal[i]
  BY <1>2, <1>3, <1>4, SubSeqProperties
<1>6. DOMAIN wal' = 1 .. FirstTorn - 1
  BY <1>5, LenProperties
<1> QED
  BY <1>1, <1>2, <1>3, <1>5, <1>6

\* A record of the height is added.
LEMMA WalGrows ==
  ASSUME TypeOK, PlaceInv, WalInv, NEW rec \in Record, wal' = Append(wal, rec),
         pc = "idle", pc' \in {"idle", "sign", "saveBlock"}, mode' = mode,
         rec.k # "end", rec.h <= height + 1, rec.k = "polka" => rec \in net',
         net \subseteq net', UNCHANGED <<height, skipped, signed>>,
         synced' = synced \/ synced' = Len(wal')
  PROVE  WalInv'
<1>0. /\ wal \in Seq(Record) /\ height \in Nat /\ mode # "handshake" /\ wal # <<>>
      /\ synced \in 0 .. Len(wal)
  BY DEF TypeOK, LogTypes, StoreTypes, PlaceInv, WalInv
<1>1. /\ Len(wal) \in Nat /\ Len(wal') = Len(wal) + 1
      /\ DOMAIN wal = 1 .. Len(wal) /\ DOMAIN wal' = 1 .. Len(wal) + 1
      /\ \A i \in 1 .. Len(wal) : wal'[i] = wal[i] /\ wal[i] \in Record
      /\ wal'[Len(wal) + 1] = rec
  BY <1>0, WalAppend
<1>2. rec # EndHeight(height)
  BY <1>0, MarkerIs
<1>3. \A i \in DOMAIN wal' : (i \in DOMAIN wal /\ wal'[i] = wal[i]) \/ (i = Len(wal) + 1 /\ wal'[i] = rec)
  BY <1>1
<1>4. wal # <<>> /\ wal' # <<>> /\ wal'[1] = EndHeight(0) /\ synced' >= 1
  <2>1. Len(wal) >= 1 /\ wal[1] = EndHeight(0) /\ synced >= 1
    BY <1>0, <1>1 DEF WalInv
  <2> QED
    BY <1>0, <1>1, <2>1
<1>5. \A i \in DOMAIN wal' :
        /\ wal'[i].h <= height' + 1
        /\ wal'[i].k = "end" => wal'[i].h <= height'
        /\ wal'[i].k = "polka" => wal'[i] \in net'
  BY <1>3 DEF WalInv
<1>6. \A i, m \in DOMAIN wal' : wal'[m] = EndHeight(height') /\ i < m => wal'[i].h <= height'
  BY <1>1, <1>2, <1>3 DEF WalInv
<1>7. \A i, j \in DOMAIN wal' : wal'[i].k = "end" /\ wal'[i] = wal'[j] => i = j
  BY <1>3 DEF WalInv
<1>8. height' + 1 \notin skipped' => \E m \in DOMAIN wal' : wal'[m] = EndHeight(height')
  BY <1>1 DEF WalInv, InRound
<1> QED
  BY <1>4, <1>5, <1>6, <1>7, <1>8 DEF WalInv, InRound, Finalizing

\* The end of the WAL is lost.
LEMMA WalShrinks ==
  ASSUME TypeOK, WalInv, NEW n \in 0 .. Len(wal), NEW k \in Nat,
         wal = <<>> => wal' = <<>> /\ mode' = "handshake" /\ pc' # "search",
         wal # <<>> => n >= 1,
         k = n \/ (k = n + 1 /\ wal'[k] = Torn),
         DOMAIN wal' = 1 .. k, synced' = k,
         \A i \in 1 .. n : wal'[i] = wal[i],
         pc' \in {"handshake", "search"}, UNCHANGED <<height, net, signed>>
  PROVE  WalInv'
<1>0. /\ height \in Nat /\ Len(wal) \in Nat /\ DOMAIN wal = 1 .. Len(wal)
      /\ synced \in 0 .. Len(wal)
      /\ \A i \in DOMAIN wal : wal[i].h \in Nat
  <2>1. wal \in Seq(Record) /\ synced \in 0 .. Len(wal) /\ height \in Nat
    BY DEF TypeOK, LogTypes, StoreTypes
  <2> QED
    BY <2>1, LenProperties, WalRecords
<1>1. \A i \in DOMAIN wal' :
        (i \in DOMAIN wal /\ wal'[i] = wal[i]) \/ (i = n + 1 /\ wal'[i] = Torn)
  <2> SUFFICES ASSUME NEW i \in 1 .. k
               PROVE  (i \in DOMAIN wal /\ wal'[i] = wal[i]) \/ (i = n + 1 /\ wal'[i] = Torn)
    OBVIOUS
  <2>1. CASE i \in 1 .. n
    BY <1>0, <2>1
  <2>2. CASE i = n + 1 /\ k = n + 1
    BY <2>2
  <2> QED
    BY <1>0, <2>1, <2>2
<1>2. Torn # EndHeight(height) /\ Torn.h = 0 /\ Torn.k = "torn"
  BY <1>0, MarkerIs
<1>3. ASSUME wal # <<>>
      PROVE  wal' # <<>> /\ wal'[1] = EndHeight(0) /\ synced' >= 1
  <2>1. wal[1] = EndHeight(0) /\ 1 \in 1 .. n
    BY <1>0, <1>3 DEF WalInv
  <2>2. wal'[1] = EndHeight(0) /\ synced' >= 1 /\ 1 \in DOMAIN wal'
    BY <1>0, <2>1
  <2>3. DOMAIN <<>> = {}
    OBVIOUS
  <2> QED
    BY <2>2, <2>3
<1>4. wal = <<>> => signed' = {}
  BY DEF WalInv
<1>5. \A i \in DOMAIN wal' :
        /\ wal'[i].h <= height' + 1
        /\ wal'[i].k = "end" => wal'[i].h <= height'
        /\ wal'[i].k = "polka" => wal'[i] \in net'
  BY <1>0, <1>1, <1>2 DEF WalInv
<1>6. \A i, m \in DOMAIN wal' : wal'[m] = EndHeight(height') /\ i < m => wal'[i].h <= height'
  <2> SUFFICES ASSUME NEW i \in DOMAIN wal', NEW m \in DOMAIN wal',
                      wal'[m] = EndHeight(height'), i < m
               PROVE  wal'[i].h <= height'
    OBVIOUS
  <2>1. m \in DOMAIN wal /\ wal[m] = EndHeight(height)
    BY <1>1, <1>2
  <2>2. CASE i \in DOMAIN wal /\ wal'[i] = wal[i]
    BY <2>1, <2>2 DEF WalInv
  <2>3. CASE wal'[i] = Torn
    BY <1>0, <1>2, <2>3
  <2> QED
    BY <1>1, <2>2, <2>3
<1>7. \A i, j \in DOMAIN wal' : wal'[i].k = "end" /\ wal'[i] = wal'[j] => i = j
  BY <1>1, <1>2 DEF WalInv
<1> QED
  BY <1>3, <1>4, <1>5, <1>6, <1>7 DEF WalInv, InRound, Finalizing

\* Every step keeps what is known of the WAL.
LEMMA WalStep ==
  ASSUME TypeOK, TypeOK', PlaceInv, WalInv, [Next]_vars
  PROVE  WalInv'
<1> USE DEF stores, histories, consensusVars
<1>0. /\ LogTypes /\ wal \in Seq(Record) /\ wal' \in Seq(Record) /\ height \in Nat
      /\ Len(wal) \in Nat /\ DOMAIN wal = 1 .. Len(wal)
      /\ synced \in 0 .. Len(wal) /\ cs \in RoundState
  BY LenProperties DEF TypeOK, LogTypes, StoreTypes, RoundTypes
<1>w. wal = <<>> => mode = "handshake" /\ pc \notin {"search", "idle", "sign", "saveBlock",
        "endHeight", "syncEnd", "pruneBlocks", "pruneStates", "update"}
  BY DEF WalInv, PlaceInv
<1>1. CASE UNCHANGED vars
  BY <1>1 DEF vars, WalInv, InRound, Finalizing
<1>2. CASE Sign
  <2>1. /\ pc = "sign" /\ pc' = "idle" /\ synced' = Len(wal)
        /\ UNCHANGED <<wal, height, mode, skipped, net>>
    BY <1>2 DEF Sign, FlushAndSync
  <2> QED
    BY <1>0, <1>w, <2>1 DEF WalInv, InRound, Finalizing
<1>3. CASE ReceivePeer
  <2>1. PICK rec \in Record :
          /\ pc = "idle" /\ mode = "run" /\ Applies(rec) /\ Handle(rec)
          /\ net' = net \/ net' = net \cup {rec}
          /\ rec.k = "polka" => rec \in net'
          /\ wal' = Append(wal, rec)
          /\ UNCHANGED <<synced, height, mode, signed, skipped>>
    BY <1>3, ReceivePeerRecord
  <2>2. pc' \in {"idle", "sign", "saveBlock"}
    BY <1>0, <2>1, HandleTypes
  <2>3. rec.h <= height + 1 /\ rec.k # "end"
    BY <1>0, <2>1 DEF Applies, PlaceInv, InRound, RoundState
  <2> QED
    BY <2>1, <2>2, <2>3, WalGrows
<1>4. CASE ReceiveInternal
  <2> DEFINE rec == Head(queue)
  <2>1. /\ rec \in Record /\ rec.k = "proposal" /\ 1 \in DOMAIN queue /\ rec = queue[1]
    BY <1>0, <1>4, HeadTailProperties DEF ReceiveInternal, LogTypes
  <2>2. /\ pc = "idle" /\ wal' = Append(wal, rec) /\ synced' = Len(wal')
        /\ UNCHANGED <<height, mode, signed, skipped, net>>
        /\ (Applies(rec) /\ Handle(rec)) \/ pc' = pc
    BY <1>4 DEF ReceiveInternal
  <2> HIDE DEF rec
  <2>3. pc' \in {"idle", "sign", "saveBlock"}
    BY <1>0, <2>1, <2>2, HandleTypes
  <2>4. rec.h <= height + 1
    BY <1>0, <2>1, <2>2 DEF PlaceInv, InRound, RoundState, Record
  <2> QED
    BY <2>1, <2>2, <2>3, <2>4, WalGrows
<1>5. CASE ReplayMessage
  <2>1. wal[pos + 1] \in Record
    BY <1>0, <1>5, ElementOfSeq DEF ReplayMessage, LogTypes
  <2>2. /\ pc = "idle" /\ UNCHANGED <<wal, synced, height, mode, signed, skipped, net>>
        /\ (Applies(wal[pos + 1]) /\ Handle(wal[pos + 1])) \/ pc' = pc
    BY <1>5 DEF ReplayMessage
  <2>3. pc' \in {"idle", "sign", "saveBlock"}
    BY <1>0, <2>1, <2>2, HandleTypes
  <2> QED
    BY <1>w, <2>2, <2>3 DEF WalInv, InRound, Finalizing
<1>6. CASE SaveBlock
  <2>1. /\ pc = "saveBlock" /\ pc' = "endHeight" /\ height' = height + 1
        /\ UNCHANGED <<wal, synced, mode, signed, skipped, net>>
    BY <1>0, <1>6 DEF SaveBlock, PlaceInv, InRound
  <2>2. \A i \in DOMAIN wal : wal[i].h \in Nat /\ wal[i].h <= height + 1 /\ wal[i] # EndHeight(height + 1)
    <3>1. \A i \in DOMAIN wal : wal[i].h \in Nat
      BY <1>0, WalRecords
    <3>2. EndHeight(height + 1).k = "end" /\ EndHeight(height + 1).h = height + 1
      BY <1>0, MarkerIs
    <3> QED
      BY <1>0, <3>1, <3>2 DEF WalInv
  <2> QED
    BY <1>0, <1>w, <2>1, <2>2 DEF WalInv, InRound, Finalizing
<1>7. CASE WriteEndHeight
  <2>1. /\ pc = "endHeight" /\ pc' = "syncEnd" /\ wal' = Append(wal, EndHeight(height))
        /\ UNCHANGED <<synced, height, mode, signed, skipped, net>> /\ mode # "handshake"
    BY <1>7 DEF WriteEndHeight, PlaceInv, Finalizing
  <2>2. EndHeight(height) \in Record /\ EndHeight(height).k = "end" /\ EndHeight(height).h = height
    BY <1>0, MarkerIs
  <2>3. /\ Len(wal') = Len(wal) + 1
        /\ DOMAIN wal' = 1 .. Len(wal) + 1
        /\ \A i \in 1 .. Len(wal) : wal'[i] = wal[i] /\ wal[i] \in Record
        /\ wal'[Len(wal) + 1] = EndHeight(height)
    BY <1>0, <2>1, <2>2, WalAppend
  <2>4. \A i \in DOMAIN wal' :
          (i \in DOMAIN wal /\ wal'[i] = wal[i]) \/ (i = Len(wal) + 1 /\ wal'[i] = EndHeight(height))
    BY <1>0, <2>3
  <2>5. wal # <<>> /\ wal[1] = EndHeight(0) /\ synced >= 1 /\ Len(wal) >= 1
    BY <1>0, <2>1 DEF WalInv
  <2>6. wal' # <<>> /\ wal'[1] = EndHeight(0) /\ synced' >= 1 /\ wal'[Len(wal')] = EndHeight(height')
    BY <2>1, <2>3, <2>5
  <2>7. \A i \in DOMAIN wal : wal[i].h <= height /\ wal[i] # EndHeight(height)
    BY <2>1 DEF WalInv
  <2>8. \A i \in DOMAIN wal' :
          /\ wal'[i].h <= height' + 1
          /\ wal'[i].k = "end" => wal'[i].h <= height'
          /\ wal'[i].k = "polka" => wal'[i] \in net'
    BY <1>0, <2>1, <2>2, <2>4 DEF WalInv
  <2>9. \A i, m \in DOMAIN wal' : wal'[m] = EndHeight(height') /\ i < m => wal'[i].h <= height'
    BY <1>0, <2>1, <2>2, <2>4, <2>7
  <2>10. \A i, j \in DOMAIN wal' : wal'[i].k = "end" /\ wal'[i] = wal'[j] => i = j
    BY <2>4, <2>7 DEF WalInv
  <2> QED
    BY <2>1, <2>6, <2>8, <2>9, <2>10 DEF WalInv, InRound, Finalizing
<1>8. CASE SyncEndHeight
  <2>1. /\ pc = "syncEnd" /\ pc' = "exec" /\ synced' = Len(wal)
        /\ UNCHANGED <<wal, height, mode, signed, skipped, net>>
    BY <1>8 DEF SyncEndHeight, FlushAndSync
  <2> QED
    BY <1>0, <1>w, <2>1 DEF WalInv, InRound, Finalizing
<1>9. CASE ExecBlock \/ CommitApp \/ SaveState \/ PruneBlocks \/ PruneStates
  <2>1. /\ pc \in {"exec", "commitApp", "saveState", "pruneBlocks", "pruneStates"}
        /\ \/ pc' \in {"commitApp", "saveState", "pruneBlocks", "pruneStates", "update", "dead"}
           \/ pc' = "start"
        /\ UNCHANGED <<wal, synced, height, mode, signed, skipped, net>>
    BY <1>9 DEF ExecBlock, CommitApp, SaveState, PruneBlocks, PruneStates, Die
  <2> QED
    BY <2>1 DEF WalInv, InRound, Finalizing
<1>10. CASE UpdateToState
  <2>1. /\ pc = "update" /\ pc' = "idle" /\ mode # "handshake"
        /\ UNCHANGED <<wal, synced, height, mode, signed, skipped, net>>
    BY <1>10 DEF UpdateToState, PlaceInv
  <2>2. wal[Len(wal)] = EndHeight(height) /\ wal # <<>>
    BY <2>1 DEF WalInv, Finalizing
  <2>3. Len(wal) \in DOMAIN wal
    BY <1>0, <2>2
  <2> QED
    BY <2>1, <2>2, <2>3 DEF WalInv, InRound, Finalizing
<1>11. CASE Handshake \/ ReplayBlock
  <2>1. /\ pc \in {"handshake", "replayBlocks"} /\ mode = "handshake"
        /\ pc' \in {"dead", "start", "replayBlocks", "exec"}
        /\ UNCHANGED <<wal, synced, height, mode, signed, skipped, net>>
    BY <1>11 DEF Handshake, ReplayBlock, Die, PlaceInv
  <2> QED
    BY <2>1 DEF WalInv, InRound, Finalizing
<1>12. CASE Start
  <2>1. /\ pc = "start" /\ mode = "handshake" /\ pc' \in {"dead", "search"}
        /\ UNCHANGED <<height, mode, signed, skipped, net>>
    BY <1>12 DEF Start, Die, PlaceInv
  <2>2. CASE wal' = wal
    <3>1. synced' = synced \/ synced' = Len(wal)
      BY <1>12, <2>2 DEF Start
    <3>2. wal = <<>> => pc' = "dead"
      <4>1. wal = <<>> /\ pc' # "dead" => wal' = <<EndHeight(0)>>
        BY <1>12, <2>1 DEF Start, Die
      <4>2. <<EndHeight(0)>> # <<>>
        OBVIOUS
      <4> QED
        BY <2>2, <4>1, <4>2
    <3> QED
      BY <1>0, <2>1, <2>2, <3>1, <3>2 DEF WalInv, InRound, Finalizing
  <2>3. CASE wal' # wal
    <3>1. wal = <<>> /\ wal' = <<EndHeight(0)>> /\ synced' = Len(wal')
      BY <1>12, <2>3 DEF Start
    <3>2. EndHeight(0) \in Record /\ EndHeight(0).k = "end" /\ EndHeight(0).h = 0
      BY MarkerIs
    <3>3. Len(wal') = 1 /\ DOMAIN wal' = {1} /\ wal'[1] = EndHeight(0) /\ wal' # <<>>
      BY <3>1, <3>2
    <3> QED
      BY <1>0, <2>1, <3>1, <3>2, <3>3 DEF WalInv, InRound, Finalizing
  <2> QED
    BY <2>2, <2>3
<1>13. CASE CatchupReplay
  <2>1. PICK resync \in BOOLEAN : SearchForEndHeight(cs.h, resync)
    BY <1>13 DEF CatchupReplay
  <2>2. pc = "search" /\ pc' = "idle" /\ UNCHANGED <<wal, synced, height, signed, net>>
    BY <1>13 DEF CatchupReplay
  <2>3. cs.h = height + 1 /\ cs.h \in Nat /\ cs.h - 1 = height
    BY <1>0, <2>2 DEF PlaceInv
  <2>4. /\ mode' \in {"replay", "run"}
        /\ mode' = "replay" => pos' \in DOMAIN wal /\ wal[pos'] = EndHeight(height)
        /\ mode' = "run" => height + 1 \in skipped'
    BY <1>0, <2>1, <2>3, SearchTypes
  <2> QED
    BY <1>w, <2>2, <2>4 DEF WalInv, InRound, Finalizing
<1>14. CASE RepairWalFile
  <2>1. /\ pc' = "search" /\ FirstTorn \in 1 .. Len(wal) /\ wal[FirstTorn] = Torn
        /\ Len(wal') = FirstTorn - 1 /\ synced' = Len(wal') /\ DOMAIN wal' = 1 .. Len(wal')
        /\ \A i \in 1 .. Len(wal') : wal'[i] = wal[i]
    BY <1>14, RepairLog
  <2>2. pc = "idle" /\ UNCHANGED <<height, net, signed, mode, skipped>>
    BY <1>14 DEF RepairWalFile
  <2>3. wal # <<>> /\ wal[1] = EndHeight(0) /\ EndHeight(0) # Torn
    BY <1>w, <2>2, MarkerIs DEF WalInv
  <2>4. FirstTorn # 1
    BY <2>1, <2>3
  <2>5. Len(wal') \in 0 .. Len(wal) /\ Len(wal') \in Nat /\ Len(wal') >= 1
    BY <1>0, <2>1, <2>4
  <2> QED
    BY <2>1, <2>2, <2>3, <2>5, WalShrinks
<1>15. CASE ReplayDone
  <2>1. /\ pc = "idle" /\ pc' = "idle" /\ mode' = "run"
        /\ UNCHANGED <<wal, synced, height, signed, skipped, net>>
    BY <1>15 DEF ReplayDone
  <2> QED
    BY <1>w, <2>1 DEF WalInv, InRound, Finalizing
<1>16. CASE Crash
  <2>1. PICK n \in synced .. Len(wal) :
           /\ Len(wal') = n \/ (Len(wal') = n + 1 /\ n < Len(wal) /\ wal'[n + 1] = Torn)
           /\ synced' = Len(wal') /\ DOMAIN wal' = 1 .. Len(wal')
           /\ \A i \in 1 .. n : wal'[i] = wal[i]
           /\ wal = <<>> => wal' = <<>>
    BY <1>16, CrashLog
  <2>2. pc' = "handshake" /\ mode' = "handshake" /\ UNCHANGED <<height, net, signed>>
    BY <1>16 DEF Crash
  <2>3. n \in 0 .. Len(wal) /\ Len(wal') \in Nat
    BY <1>0, <2>1
  <2>4. wal # <<>> => n >= 1
    BY <1>0 DEF WalInv
  <2> QED
    BY <2>1, <2>2, <2>3, <2>4, WalShrinks
<1> QED
  BY <1>1, <1>2, <1>3, <1>4, <1>5, <1>6, <1>7, <1>8, <1>9, <1>10, <1>11, <1>12, <1>13, <1>14,
     <1>15, <1>16 DEF Next, Step

\* Nothing is signed for a height before the one below is decided, and nothing
\* more for a height that is.
LEMMA SignedStep ==
  ASSUME TypeOK, PlaceInv, SignedInv, [Next]_vars
  PROVE  SignedInv'
<1> USE DEF stores, histories, consensusVars
<1>0. height \in Nat /\ lss \in Signature /\ signed \subseteq Signature
  BY DEF TypeOK, StoreTypes, KeyTypes
<1>1. CASE UNCHANGED <<lss, signed, height>> /\ (Finalizing' => Finalizing)
  BY <1>1 DEF SignedInv
<1>2. CASE Sign
  <2> DEFINE sig == SignatureFor(vote)
  <2>1. /\ pc = "sign" /\ pc' = "idle" /\ UNCHANGED height
        /\ \/ sig # None /\ lss' = sig /\ signed' = signed \cup {sig}
           \/ UNCHANGED <<lss, signed>>
    BY <1>2 DEF Sign
  <2>2. vote.h = height + 1
    BY <2>1 DEF PlaceInv, InRound
  <2>3. sig # None => sig.h = height + 1
    BY <2>2 DEF SignatureFor, SameHRS
  <2> HIDE DEF sig
  <2> QED
    BY <1>0, <2>1, <2>3 DEF SignedInv, Finalizing
<1>3. CASE SaveBlock
  <2>1. pc = "saveBlock" /\ height' = height + 1 /\ UNCHANGED <<lss, signed>>
    BY <1>0, <1>3 DEF SaveBlock, PlaceInv, InRound
  <2>2. \A v \in signed : v.h \in Nat /\ v.h <= height + 1
    BY <1>0 DEF SignedInv, Signature
  <2> QED
    BY <1>0, <2>1, <2>2 DEF SignedInv, Finalizing
<1>4. CASE ReceivePeer
  <2>1. PICK rec \in Record :
          pc = "idle" /\ Applies(rec) /\ Handle(rec) /\ UNCHANGED <<lss, signed, height, mode>>
    BY <1>4, ReceivePeerRecord
  <2>2. pc' \in {"idle", "sign", "saveBlock"}
    BY <2>1, HandleTypes DEF TypeOK, RoundTypes
  <2> QED
    BY <1>1, <2>1, <2>2 DEF Finalizing
<1>5. CASE ReceiveInternal
  <2>1. Head(queue) \in Record
    BY <1>5, HeadTailProperties DEF ReceiveInternal, TypeOK, LogTypes
  <2>2. /\ pc = "idle" /\ UNCHANGED <<lss, signed, height, mode>>
        /\ (Applies(Head(queue)) /\ Handle(Head(queue))) \/ pc' = pc
    BY <1>5 DEF ReceiveInternal
  <2>3. pc' \in {"idle", "sign", "saveBlock"}
    BY <2>1, <2>2, HandleTypes DEF TypeOK, RoundTypes
  <2> QED
    BY <1>1, <2>2, <2>3 DEF Finalizing
<1>6. CASE ReplayMessage
  <2>1. wal[pos + 1] \in Record
    BY <1>6, ElementOfSeq DEF ReplayMessage, TypeOK, LogTypes
  <2>2. /\ pc = "idle" /\ UNCHANGED <<lss, signed, height, mode>>
        /\ (Applies(wal[pos + 1]) /\ Handle(wal[pos + 1])) \/ pc' = pc
    BY <1>6 DEF ReplayMessage
  <2>3. pc' \in {"idle", "sign", "saveBlock"}
    BY <2>1, <2>2, HandleTypes DEF TypeOK, RoundTypes
  <2> QED
    BY <1>1, <2>2, <2>3 DEF Finalizing
<1>7. CASE UNCHANGED vars
  BY <1>1, <1>7 DEF vars, Finalizing
<1>8. CASE \/ WriteEndHeight \/ SyncEndHeight \/ ExecBlock \/ CommitApp \/ SaveState
           \/ PruneBlocks \/ PruneStates \/ UpdateToState
  <2>1. UNCHANGED <<lss, signed, height, mode>>
    BY <1>8 DEF WriteEndHeight, SyncEndHeight, ExecBlock, CommitApp, SaveState, PruneBlocks,
       PruneStates, UpdateToState
  <2>2. pc \in {"endHeight", "syncEnd", "exec", "commitApp", "saveState", "pruneBlocks",
                "pruneStates", "update"}
    BY <1>8 DEF WriteEndHeight, SyncEndHeight, ExecBlock, CommitApp, SaveState, PruneBlocks,
       PruneStates, UpdateToState
  <2> QED
    BY <1>1, <2>1, <2>2 DEF Finalizing
<1>9. CASE Handshake \/ ReplayBlock
  <2>1. UNCHANGED <<lss, signed, height, mode>> /\ mode = "handshake"
    BY <1>9 DEF Handshake, ReplayBlock, PlaceInv
  <2> QED
    BY <1>1, <2>1 DEF Finalizing
<1>10. CASE Start \/ CatchupReplay \/ RepairWalFile \/ ReplayDone \/ Crash
  <2>1. UNCHANGED <<lss, signed, height>> /\ pc' \in {"dead", "search", "idle", "handshake"}
    BY <1>10 DEF Start, CatchupReplay, RepairWalFile, ReplayDone, Crash, Die
  <2> QED
    BY <1>1, <2>1 DEF Finalizing
<1> QED
  BY <1>2, <1>3, <1>4, <1>5, <1>6, <1>7, <1>8, <1>9, <1>10 DEF Next, Step

-----------------------------------------------------------------------------
(* The log behind the marker of the height before explains the round state *)
(* and the votes.                                                          *)

\* The types that the argument about the log uses.
LEMMA LogFacts ==
  ASSUME TypeOK
  PROVE  /\ wal \in Seq(Record) /\ Len(wal) \in Nat /\ DOMAIN wal = 1 .. Len(wal)
         /\ \A i \in 1 .. Len(wal) : wal[i] \in Record /\ wal[i].h \in Nat /\ wal[i].r \in Nat
         /\ height \in Nat /\ synced \in 0 .. Len(wal) /\ pos \in 0 .. Len(wal)
         /\ cs \in RoundState /\ signed \subseteq Signature
BY LenProperties, WalRecords DEF TypeOK, LogTypes, StoreTypes, RoundTypes, KeyTypes

\* A record is written and handled, or takes no effect.
LEMMA ExplainedGrows ==
  ASSUME TypeOK, PlaceInv, WalInv, LogExplains, NEW rec \in Record, wal' = Append(wal, rec),
         pc = "idle", mode = "run", mode' = mode, rec.k \notin {"end", "torn"},
         UNCHANGED <<height, skipped, signed>>, synced' = synced \/ synced' = Len(wal'),
         \/ Applies(rec) /\ Handle(rec)
         \/ UNCHANGED <<cs, vote, pc>> /\ (rec.h # height + 1 \/ Past(rec, cs))
  PROVE  LogExplains'
<1> SUFFICES ASSUME NEW m \in DOMAIN wal', wal'[m] = EndHeight(height'),
                    height' + 1 \notin skipped'
             PROVE  \E tr \in [Nat -> RoundState] : Explained(m, tr)'
  BY DEF LogExplains
<1> DEFINE n == Len(wal)
<1>0. /\ wal \in Seq(Record) /\ n \in Nat /\ DOMAIN wal = 1 .. n
      /\ \A i \in 1 .. n : wal[i] \in Record
      /\ height \in Nat /\ synced \in 0 .. n /\ cs \in RoundState /\ cs.h = height + 1
  BY LogFacts DEF PlaceInv, InRound
<1>1. /\ Len(wal') = n + 1 /\ DOMAIN wal' = 1 .. n + 1
      /\ \A i \in 1 .. n : wal'[i] = wal[i]
      /\ wal'[n + 1] = rec
  BY <1>0, WalAppend
<1>2. m \in 1 .. n /\ wal[m] = EndHeight(height) /\ rec # Torn
  <2>1. rec # EndHeight(height) /\ rec # Torn
    BY <1>0, MarkerIs
  <2> QED
    BY <1>0, <1>1, <2>1
<1>3. PICK tr \in [Nat -> RoundState] : Explained(m, tr)
  BY <1>0, <1>2 DEF LogExplains
<1>4. IsTrace(wal, n, m, height + 1, tr) /\ Explains(m, tr)
  BY <1>3 DEF Explained
<1>5. cs = tr[n] /\ \A i \in m + 1 .. n : wal[i] # Torn
  BY <1>0, <1>2, <1>3 DEF Explained, Placed, InRound, At
<1>6. AppliesTo(tr[n], rec) \/ rec.h # height + 1 \/ Past(rec, tr[n])
  BY <1>0, <1>5, HandleIs
<1>7. PICK e \in [Nat -> RoundState] :
        /\ e = [tr EXCEPT ![n + 1] = Applied(tr[n], rec)]
        /\ IsTrace(wal', n + 1, m, height + 1, e)
  <2>1. /\ m \in 0 .. n /\ height + 1 \in Nat /\ n \in Nat
    BY <1>0, <1>2
  <2>2. SameRecords(wal, wal', m, n)
    BY <1>0, <1>1, <1>2 DEF SameRecords
  <2>3. wal'[n + 1] \in Record /\ Fits(tr[n], wal'[n + 1], height + 1)
    BY <1>1, <1>6 DEF Fits
  <2> HIDE DEF n
  <2>4. PICK ext : ext = [tr EXCEPT ![n + 1] = Applied(tr[n], wal'[n + 1])]
    OBVIOUS
  <2>5. ext \in [Nat -> RoundState] /\ IsTrace(wal', n + 1, m, height + 1, ext)
    BY <1>4, <2>1, <2>2, <2>3, <2>4, TraceAppend
  <2> QED
    BY <1>1, <2>4, <2>5
<1>8. e[n + 1] = Applied(tr[n], rec) /\ \A i \in 0 .. n : e[i] = tr[i]
  BY <1>0, <1>7
<1>9. /\ cs' = e[n + 1] /\ pc' \in {"idle", "sign", "saveBlock"}
      /\ pc' = "sign" /\ vote'.s # stepPropose => Asks(tr[n], rec, vote')
  <2>1. CASE Applies(rec) /\ Handle(rec)
    <3>1. /\ AppliesTo(cs, rec) /\ cs' = After(cs, rec) /\ pc' \in {"idle", "sign", "saveBlock"}
          /\ pc' = "sign" /\ vote'.s # stepPropose => Asks(cs, rec, vote')
      BY <1>0, <2>1, HandleIs
    <3> QED
      BY <1>5, <1>8, <3>1 DEF Applied
  <2>2. CASE UNCHANGED <<cs, vote, pc>> /\ (rec.h # height + 1 \/ Past(rec, cs))
    <3>1. ~ AppliesTo(cs, rec)
      <4>1. CASE rec.h # height + 1
        BY <1>0, <4>1 DEF AppliesTo
      <4>2. CASE Past(rec, cs)
        BY <1>0, <4>2, PastDoesNotApply
      <4> QED
        BY <2>2, <4>1, <4>2
    <3> QED
      BY <1>5, <1>8, <2>2, <3>1 DEF Applied
  <2> QED
    BY <2>1, <2>2
<1>10. Explains(m, e)'
  <2>1. synced <= synced' /\ synced' \in Nat
    BY <1>0, <1>1
  <2> SUFFICES ASSUME NEW v \in signed', v.h = height' + 1, v.s # stepPropose
               PROVE  \E i \in m + 1 .. synced' : Asks(e[i - 1], wal'[i], v)
    BY DEF Explains
  <2>2. PICK i \in m + 1 .. synced : Asks(tr[i - 1], wal[i], v)
    BY <1>4 DEF Explains
  <2>3. i \in 1 .. n /\ i - 1 \in 0 .. n /\ i \in m + 1 .. synced'
    BY <1>0, <1>2, <2>1
  <2> QED
    BY <1>1, <1>8, <2>2, <2>3
<1>11. Placed(m, e)'
  <2>1. At' = n + 1 /\ n + 1 >= m /\ m < n + 1 /\ (n + 1) - 1 = n
    BY <1>0, <1>1, <1>2 DEF At
  <2>2. \A i \in m + 1 .. n + 1 : wal'[i] # Torn
    <3>1. \A i \in m + 1 .. n : wal'[i] # Torn
      BY <1>0, <1>1, <1>2, <1>5
    <3>2. \A i \in m + 1 .. n + 1 : i \in m + 1 .. n \/ i = n + 1
      BY <1>0, <1>2
    <3> QED
      BY <1>1, <1>2, <3>1, <3>2
  <2>3. \A i \in m + 1 .. Len(wal') - 1 : i \in m + 1 .. n + 1
    BY <1>0, <1>1
  <2>4. e[n] = tr[n]
    BY <1>0, <1>8
  <2> QED
    BY <1>1, <1>9, <2>1, <2>2, <2>3, <2>4 DEF Placed, InRound
<1>12. Explained(m, e)'
  BY <1>1, <1>7, <1>10, <1>11 DEF Explained
<1> QED
  BY <1>12

\* What is replayed brings the round state along the trace.
LEMMA ReplayExplained ==
  ASSUME TypeOK, PlaceInv, WalInv, LogExplains, ReplayMessage
  PROVE  LogExplains'
<1> USE DEF stores, histories
<1> DEFINE n == Len(wal)
           rec == wal[pos + 1]
<1>0. /\ n \in Nat /\ DOMAIN wal = 1 .. n
      /\ \A i \in 1 .. n : wal[i] \in Record /\ wal[i].h \in Nat
      /\ height \in Nat /\ pos \in 0 .. n /\ cs \in RoundState
  BY LogFacts
<1>1. /\ pc = "idle" /\ mode = "replay" /\ pos < n /\ rec # Torn /\ pos' = pos + 1
      /\ (Applies(rec) /\ Handle(rec)) \/ (~ Applies(rec) /\ UNCHANGED <<cs, vote, pc>>)
      /\ UNCHANGED <<wal, synced, height, mode, repaired, signed, skipped>>
  BY DEF ReplayMessage
<1>2. pos + 1 \in 1 .. n /\ rec \in Record /\ cs.h = height + 1 /\ rec.h \in Nat
  BY <1>0, <1>1 DEF PlaceInv, InRound
<1>3. Applies(rec) <=> AppliesTo(cs, rec)
  BY DEF Applies, AppliesTo
<1>4. /\ cs' = Applied(cs, rec) /\ pc' \in {"idle", "sign", "saveBlock"}
      /\ ~ AppliesTo(cs, rec) => pc' = "idle" /\ cs' = cs
      /\ pc' = "sign" /\ vote'.s # stepPropose => Asks(cs, rec, vote')
  <2>1. CASE Applies(rec) /\ Handle(rec)
    BY <1>0, <1>2, <1>3, <2>1, HandleIs DEF Applied
  <2>2. CASE ~ Applies(rec) /\ UNCHANGED <<cs, vote, pc>>
    BY <1>1, <1>3, <2>2 DEF Applied
  <2> QED
    BY <1>1, <2>1, <2>2
<1> SUFFICES ASSUME NEW m \in DOMAIN wal', wal'[m] = EndHeight(height'),
                    height' + 1 \notin skipped'
             PROVE  \E tr \in [Nat -> RoundState] : Explained(m, tr)'
  BY DEF LogExplains
<1>5. m \in 1 .. n /\ m \in DOMAIN wal /\ wal[m] = EndHeight(height)
  BY <1>0, <1>1
<1>6. PICK tr \in [Nat -> RoundState] : Explained(m, tr)
  BY <1>1, <1>5 DEF LogExplains
<1>7. IsTrace(wal, n, m, height + 1, tr) /\ Explains(m, tr) /\ Placed(m, tr)
  BY <1>6 DEF Explained
<1>8. IsTrace(wal', Len(wal'), m, height' + 1, tr) /\ Explains(m, tr)'
  BY <1>1, <1>7 DEF Explains
<1>9. pos + 1 <= m => ~ AppliesTo(cs, rec)
  <2>1. pos + 1 < m => rec.h <= height
    BY <1>0, <1>2, <1>5 DEF WalInv
  <2>2. pos + 1 = m => rec.k = "end"
    BY <1>0, <1>5, MarkerIs
  <2> QED
    BY <1>0, <1>2, <1>5, <2>1, <2>2 DEF AppliesTo
<1>10. \A i \in m + 1 .. Len(wal') - 1 : wal'[i] # Torn
  BY <1>1, <1>7 DEF Placed
<1>11. CASE ~ repaired
  <2>1. At = pos /\ At' = pos + 1
    BY <1>1, <1>11 DEF At
  <2>2. CASE m <= pos
    <3>1. cs = tr[pos] /\ \A i \in m + 1 .. pos : wal[i] # Torn
      BY <1>0, <1>1, <1>5, <1>7, <2>1, <2>2 DEF Placed, InRound
    <3>2. pos + 1 \in m + 1 .. n /\ (pos + 1) - 1 = pos
      BY <1>0, <1>1, <1>5, <2>2
    <3>3. cs' = tr[pos + 1]
      BY <1>4, <1>7, <3>1, <3>2 DEF IsTrace
    <3>4. \A i \in m + 1 .. pos + 1 : wal[i] # Torn
      BY <1>0, <1>1, <1>5, <3>1
    <3>5. m < pos + 1 /\ pos + 1 >= m /\ ~ (pos + 1 < m)
      BY <1>0, <1>5, <2>2
    <3>6. Placed(m, tr)'
      BY <1>1, <1>4, <1>10, <1>11, <2>1, <3>1, <3>2, <3>3, <3>4, <3>5 DEF Placed, InRound
    <3> QED
      BY <1>8, <3>6 DEF Explained
  <2>3. CASE pos < m
    <3>1. cs = NewHeightState(height + 1)
      BY <1>0, <1>1, <1>5, <1>7, <2>1, <2>3 DEF Placed, InRound
    <3>2. pc' = "idle" /\ cs' = NewHeightState(height + 1)
      BY <1>0, <1>4, <1>5, <1>9, <2>3, <3>1
    <3>3. tr[m] = NewHeightState(height + 1)
      BY <1>7 DEF IsTrace
    <3>4. pos + 1 >= m => pos + 1 = m /\ m + 1 .. pos + 1 = {}
      BY <1>0, <1>5, <2>3
    <3>5. Placed(m, tr)'
      BY <1>1, <1>10, <1>11, <2>1, <3>2, <3>3, <3>4 DEF Placed, InRound
    <3> QED
      BY <1>8, <3>5 DEF Explained
  <2> QED
    BY <1>0, <1>5, <2>2, <2>3
<1>12. CASE repaired
  <2>1. At = n /\ At' = n /\ n >= m
    BY <1>0, <1>1, <1>5, <1>12 DEF At
  <2>2. cs = tr[n] /\ \A i \in m + 1 .. n : wal[i] # Torn
    BY <1>1, <1>7, <2>1 DEF Placed, InRound
  <2>3. ~ AppliesTo(cs, rec)
    <3>1. CASE pos + 1 <= m
      BY <1>9, <3>1
    <3>2. CASE pos + 1 > m
      <4>1. pos + 1 \in m + 1 .. n /\ n \in m + 1 .. n /\ pos + 1 <= n
        BY <1>0, <1>1, <1>5, <3>2
      <4>2. rec.h = height + 1 => Past(rec, tr[n])
        BY <1>7, <4>1 DEF IsTrace
      <4> QED
        BY <1>0, <1>2, <2>2, <4>2, PastDoesNotApply DEF AppliesTo
    <3> QED
      BY <1>0, <1>5, <3>1, <3>2
  <2>4. pc' = "idle" /\ cs' = cs
    BY <1>4, <2>3
  <2>5. ~ (n < m)
    BY <1>0, <1>5
  <2>6. Placed(m, tr)'
    BY <1>1, <1>10, <2>1, <2>2, <2>4, <2>5 DEF Placed, InRound
  <2> QED
    BY <1>8, <2>6 DEF Explained
<1> QED
  BY <1>11, <1>12

\* The other steps: they start a trace, keep it, or cut it off.
LEMMA LogExplainsStep ==
  ASSUME TypeOK, TypeOK', PlaceInv, WalInv, SignedInv, LogExplains, [Next]_vars
  PROVE  LogExplains'
<1> USE DEF stores, histories, consensusVars
<1> DEFINE n == Len(wal)
<1>0. /\ wal \in Seq(Record) /\ n \in Nat /\ DOMAIN wal = 1 .. n
      /\ \A i \in 1 .. n : wal[i] \in Record /\ wal[i].h \in Nat
      /\ height \in Nat /\ height + 1 \in Nat /\ synced \in 0 .. n /\ pos \in 0 .. n
      /\ cs \in RoundState /\ synced' \in 0 .. Len(wal') /\ Len(wal') \in Nat
  BY LogFacts, LenProperties DEF TypeOK, LogTypes
\* The trace of before, when the log and the votes stay.
<1>k. ASSUME UNCHANGED <<wal, height, signed>>, skipped \subseteq skipped', synced <= synced',
             NEW m \in DOMAIN wal', wal'[m] = EndHeight(height'), height' + 1 \notin skipped'
      PROVE  /\ m \in 1 .. n /\ wal[m] = EndHeight(height)
             /\ \E tr \in [Nat -> RoundState] :
                  /\ IsTrace(wal, n, m, height + 1, tr) /\ Placed(m, tr)
                  /\ IsTrace(wal', Len(wal'), m, height' + 1, tr) /\ Explains(m, tr)'
  <2>1. m \in 1 .. n /\ wal[m] = EndHeight(height) /\ height + 1 \notin skipped
    BY <1>0, <1>k
  <2>2. PICK tr \in [Nat -> RoundState] : Explained(m, tr)
    BY <1>0, <2>1 DEF LogExplains
  <2>3. IsTrace(wal, n, m, height + 1, tr) /\ Explains(m, tr) /\ Placed(m, tr)
    BY <2>2 DEF Explained
  <2>4. IsTrace(wal', Len(wal'), m, height' + 1, tr)
    BY <1>k, <2>3
  <2>5. Explains(m, tr)'
    <3>1. m + 1 .. synced \subseteq m + 1 .. synced'
      BY <1>0, <1>k, <2>1
    <3> QED
      BY <1>k, <2>3, <3>1 DEF Explains
  <2> QED
    BY <2>1, <2>3, <2>4, <2>5
<1>q. CASE /\ UNCHANGED <<wal, height, signed, skipped>> /\ synced' \in {synced, n}
           /\ pc' \notin {"idle", "sign", "saveBlock", "search"}
  <2> SUFFICES ASSUME NEW m \in DOMAIN wal', wal'[m] = EndHeight(height'),
                      height' + 1 \notin skipped'
               PROVE  \E tr \in [Nat -> RoundState] : Explained(m, tr)'
    BY DEF LogExplains
  <2>1. synced <= synced'
    BY <1>0, <1>q
  <2>2. PICK tr \in [Nat -> RoundState] :
          /\ Placed(m, tr)
          /\ IsTrace(wal', Len(wal'), m, height' + 1, tr) /\ Explains(m, tr)'
    BY <1>k, <1>q, <2>1
  <2>3. Placed(m, tr)'
    BY <1>q, <2>2 DEF Placed, InRound
  <2> QED
    BY <2>2, <2>3 DEF Explained
<1>1. CASE UNCHANGED vars
  <2>1. LogExplains' = LogExplains
    BY <1>1 DEF vars, LogExplains, Explained, Explains, Placed, InRound, At
  <2> QED
    BY <2>1
<1>2. CASE Sign
  <2> DEFINE sig == SignatureFor(vote)
  <2>1. /\ pc = "sign" /\ pc' = "idle" /\ synced' = n /\ vote \in Vote
        /\ UNCHANGED <<wal, height, mode, cs, pos, repaired, skipped>>
        /\ \/ sig # None /\ signed' = signed \cup {sig}
           \/ signed' = signed
    BY <1>2 DEF Sign, FlushAndSync, TypeOK, RoundTypes
  <2> SUFFICES ASSUME NEW m \in DOMAIN wal', wal'[m] = EndHeight(height'),
                      height' + 1 \notin skipped'
               PROVE  \E tr \in [Nat -> RoundState] : Explained(m, tr)'
    BY DEF LogExplains
  <2>2. m \in 1 .. n /\ wal[m] = EndHeight(height) /\ height + 1 \notin skipped
    BY <1>0, <2>1
  <2>3. PICK tr \in [Nat -> RoundState] : Explained(m, tr)
    BY <1>0, <2>2 DEF LogExplains
  <2>4. IsTrace(wal, n, m, height + 1, tr) /\ Explains(m, tr) /\ Placed(m, tr)
    BY <2>3 DEF Explained
  <2>5. At \in 0 .. n /\ At' = At
    BY <1>0, <2>1 DEF At
  <2>6. vote.s # stepPropose => At \in m + 1 .. n /\ Asks(tr[At - 1], wal[At], vote)
    BY <1>0, <2>1, <2>2, <2>4, <2>5 DEF Placed
  <2>7. ASSUME NEW v \in signed', v.h = height + 1, v.s # stepPropose
        PROVE  \E i \in m + 1 .. n : Asks(tr[i - 1], wal[i], v)
    <3>1. CASE v \in signed
      <4>1. PICK i \in m + 1 .. synced : Asks(tr[i - 1], wal[i], v)
        BY <2>4, <2>7, <3>1 DEF Explains
      <4>2. i \in m + 1 .. n
        BY <1>0, <2>2
      <4> QED
        BY <4>1, <4>2
    <3>2. CASE v \notin signed
      <4>1. v = sig /\ sig # None
        BY <2>1, <3>2
      <4>2. v # lss
        <5>1. lss \in signed \/ lss.h = 0
          BY DEF SignedInv
        <5> QED
          BY <1>0, <2>7, <3>2, <5>1
      <4>3. v.h = vote.h /\ v.r = vote.r /\ v.s = vote.s /\ v.b = vote.b
        BY <4>1, <4>2 DEF SignatureFor
      <4>4. At \in m + 1 .. n /\ Asks(tr[At - 1], wal[At], vote)
        BY <2>6, <2>7, <4>3
      <4>5. Asks(tr[At - 1], wal[At], v)
        BY <4>3, <4>4 DEF Asks
      <4> QED
        BY <4>4, <4>5
    <3> QED
      BY <3>1, <3>2
  <2>8. Explains(m, tr)'
    BY <2>1, <2>7 DEF Explains
  <2>9. Placed(m, tr)'
    <3>1. At >= m => cs = tr[At] /\ \A i \in m + 1 .. At : wal[i] # Torn
      BY <2>1, <2>4 DEF Placed, InRound
    <3>2. ~ (At < m)
      BY <2>1, <2>4 DEF Placed, InRound
    <3>3. \A i \in m + 1 .. n - 1 : wal[i] # Torn
      BY <2>4 DEF Placed
    <3> QED
      BY <2>1, <2>5, <3>1, <3>2, <3>3 DEF Placed, InRound
  <2>10. IsTrace(wal', Len(wal'), m, height' + 1, tr)
    BY <2>1, <2>4
  <2> QED
    BY <2>8, <2>9, <2>10 DEF Explained
<1>3. CASE ReceivePeer
  <2>1. PICK rec \in Record :
          /\ pc = "idle" /\ mode = "run" /\ Applies(rec) /\ Handle(rec)
          /\ wal' = Append(wal, rec)
          /\ UNCHANGED <<synced, height, mode, signed, skipped>>
    BY <1>3, ReceivePeerRecord
  <2>2. rec.k \notin {"end", "torn"}
    BY <2>1 DEF Applies
  <2> QED
    BY <2>1, <2>2, ExplainedGrows
<1>4. CASE ReceiveInternal
  <2> DEFINE rec == Head(queue)
  <2>1. /\ rec \in Record /\ rec.k = "proposal" /\ 1 \in DOMAIN queue /\ rec = queue[1]
    BY <1>4, HeadTailProperties DEF ReceiveInternal, TypeOK, LogTypes
  <2>2. /\ pc = "idle" /\ mode = "run" /\ wal' = Append(wal, rec) /\ synced' = Len(wal')
        /\ UNCHANGED <<height, mode, signed, skipped>>
        /\ (Applies(rec) /\ Handle(rec)) \/ (~ Applies(rec) /\ UNCHANGED <<cs, vote, pc>>)
    BY <1>4 DEF ReceiveInternal
  <2> HIDE DEF rec
  <2>3. ~ Applies(rec) => rec.h # height + 1 \/ Past(rec, cs)
    <3>1. cs.h = height + 1 /\ rec.h \in Nat /\ rec.r \in Nat /\ cs.r \in Nat
      BY <1>0, <2>1, <2>2 DEF PlaceInv, InRound, Record, RoundState
    <3>2. \/ rec.h < cs.h
          \/ rec.h = cs.h /\ rec.r < cs.r
          \/ rec.h = cs.h /\ rec.r = cs.r /\ cs.step # "newHeight"
      BY <2>1 DEF PlaceInv
    <3> QED
      BY <1>0, <2>1, <3>1, <3>2 DEF Applies, Past, Rank, RoundState
  <2> QED
    BY <2>1, <2>2, <2>3, ExplainedGrows
<1>5. CASE ReplayMessage
  BY <1>5, ReplayExplained
<1>6. CASE SaveBlock
  <2>1. height' = height + 1 /\ wal' = wal
    BY <1>0, <1>6 DEF SaveBlock, PlaceInv, InRound
  <2>2. ASSUME NEW m \in DOMAIN wal', wal'[m] = EndHeight(height')
        PROVE  FALSE
    <3>1. EndHeight(height + 1).k = "end" /\ EndHeight(height + 1).h = height + 1
      BY <1>0, MarkerIs
    <3>2. wal[m].h <= height
      BY <2>1, <2>2, <3>1 DEF WalInv
    <3> QED
      BY <1>0, <2>1, <2>2, <3>1, <3>2
  <2> QED
    BY <2>2 DEF LogExplains
<1>7. CASE WriteEndHeight
  <2>1. /\ pc = "endHeight" /\ pc' = "syncEnd" /\ wal' = Append(wal, EndHeight(height))
        /\ UNCHANGED <<synced, height, signed>> /\ mode # "handshake"
    BY <1>7 DEF WriteEndHeight, PlaceInv, Finalizing
  <2>2. EndHeight(height) \in Record
    BY <1>0, MarkerIs
  <2>3. /\ Len(wal') = n + 1 /\ DOMAIN wal' = 1 .. n + 1
        /\ \A i \in 1 .. n : wal'[i] = wal[i]
    BY <1>0, <2>1, <2>2, WalAppend
  <2> SUFFICES ASSUME NEW m \in DOMAIN wal', wal'[m] = EndHeight(height'),
                      height' + 1 \notin skipped'
               PROVE  \E tr \in [Nat -> RoundState] : Explained(m, tr)'
    BY DEF LogExplains
  <2>4. m = n + 1
    <3>1. \A i \in 1 .. n : wal[i] # EndHeight(height)
      BY <1>0, <2>1 DEF WalInv
    <3> QED
      BY <1>0, <2>1, <2>3, <3>1
  <2>5. m \in Nat /\ m = Len(wal')
    BY <1>0, <2>3, <2>4
  <2>6. PICK tr \in [Nat -> RoundState] : IsTrace(wal', m, m, height + 1, tr)
    BY <1>0, <2>5, TraceStart
  <2>7. Explains(m, tr)'
    <3>1. \A v \in signed : v.h <= height
      BY <2>1 DEF SignedInv, Finalizing
    <3> QED
      BY <1>0, <2>1, <3>1 DEF Explains
  <2>8. Placed(m, tr)'
    <3>1. m + 1 .. Len(wal') - 1 = {}
      BY <2>5
    <3> QED
      BY <2>1, <3>1 DEF Placed, InRound
  <2> QED
    BY <2>1, <2>5, <2>6, <2>7, <2>8 DEF Explained
<1>8. CASE SyncEndHeight
  <2>1. UNCHANGED <<wal, height, signed, skipped>> /\ synced' = n /\ pc' = "exec"
    BY <1>8 DEF SyncEndHeight, FlushAndSync
  <2> QED
    BY <1>q, <2>1
<1>9. CASE \/ ExecBlock \/ CommitApp \/ SaveState \/ PruneBlocks \/ PruneStates
           \/ Handshake
  <2>1. /\ UNCHANGED <<wal, height, signed, skipped, synced>>
        /\ pc' \notin {"idle", "sign", "saveBlock", "search"}
    BY <1>9 DEF ExecBlock, CommitApp, SaveState, PruneBlocks, PruneStates, Handshake, Die
  <2> QED
    BY <1>q, <2>1
<1>10. CASE ReplayBlock
  <2>1. /\ UNCHANGED <<wal, height, signed, skipped, synced>>
        /\ pc' \notin {"idle", "sign", "saveBlock", "search"}
    BY <1>10 DEF ReplayBlock, Die
  <2> QED
    BY <1>q, <2>1
<1>11. CASE UpdateToState
  <2>1. /\ pc = "update" /\ pc' = "idle" /\ mode # "handshake" /\ state = height
        /\ cs' = NewHeightState(height + 1)
        /\ UNCHANGED <<wal, synced, height, mode, signed, skipped, pos, repaired>>
    BY <1>11 DEF UpdateToState, PlaceInv
  <2> SUFFICES ASSUME NEW m \in DOMAIN wal', wal'[m] = EndHeight(height'),
                      height' + 1 \notin skipped'
               PROVE  \E tr \in [Nat -> RoundState] : Explained(m, tr)'
    BY DEF LogExplains
  <2>2. synced <= synced'
    BY <1>0, <2>1
  <2>3. /\ m \in 1 .. n /\ wal[m] = EndHeight(height)
        /\ \E tr \in [Nat -> RoundState] :
             /\ IsTrace(wal, n, m, height + 1, tr) /\ Placed(m, tr)
             /\ IsTrace(wal', Len(wal'), m, height' + 1, tr) /\ Explains(m, tr)'
    BY <1>k, <2>1, <2>2
  <2>4. PICK tr \in [Nat -> RoundState] :
          /\ IsTrace(wal, n, m, height + 1, tr) /\ Placed(m, tr)
          /\ IsTrace(wal', Len(wal'), m, height' + 1, tr) /\ Explains(m, tr)'
    BY <2>3
  <2>5. m = n
    <3>1. wal[n] = EndHeight(height) /\ n \in DOMAIN wal
      BY <1>0, <2>1, <2>3 DEF WalInv, Finalizing
    <3>2. EndHeight(height).k = "end"
      BY <1>0, MarkerIs
    <3> QED
      BY <1>0, <2>3, <3>1, <3>2 DEF WalInv
  <2>6. At' \in 0 .. n /\ (At' >= m => At' = m)
    <3>1. At' = n \/ At' = pos
      BY <2>1 DEF At
    <3> QED
      BY <1>0, <2>5, <3>1
  <2>7. tr[m] = NewHeightState(height + 1) /\ m + 1 .. m = {} /\ m + 1 .. n - 1 = {}
    BY <1>0, <2>4, <2>5 DEF IsTrace
  <2>8. Placed(m, tr)'
    BY <2>1, <2>6, <2>7 DEF Placed, InRound
  <2> QED
    BY <2>4, <2>8 DEF Explained
<1>12. CASE Start
  <2>1. CASE pc' = "dead"
    <3>1. UNCHANGED <<wal, height, signed, skipped, synced>>
      BY <1>12, <2>1 DEF Start
    <3> QED
      BY <1>q, <2>1, <3>1
  <2>2. CASE pc' # "dead"
    <3>1. /\ pc' = "search" /\ mode = "handshake" /\ mode' = mode
          /\ cs' = NewHeightState(height + 1)
          /\ wal' = (IF wal = <<>> THEN <<EndHeight(0)>> ELSE wal) /\ synced' = Len(wal')
          /\ UNCHANGED <<height, signed, skipped>>
      BY <1>12, <2>2 DEF Start, Die, PlaceInv
    <3> SUFFICES ASSUME NEW m \in DOMAIN wal', wal'[m] = EndHeight(height'),
                        height' + 1 \notin skipped'
                 PROVE  \E tr \in [Nat -> RoundState] : Explained(m, tr)'
      BY DEF LogExplains
    <3>2. CASE wal = <<>>
      <4>1. wal' = <<EndHeight(0)>> /\ signed' = {}
        BY <3>1, <3>2 DEF WalInv
      <4>2. Len(wal') = 1 /\ DOMAIN wal' = {1}
        BY <4>1
      <4>3. m = 1 /\ m \in Nat
        BY <4>2
      <4>4. PICK tr \in [Nat -> RoundState] : IsTrace(wal', m, m, height + 1, tr)
        BY <1>0, <4>3, TraceStart
      <4>5. Explains(m, tr)'
        BY <4>1 DEF Explains
      <4>6. Placed(m, tr)'
        <5>1. m + 1 .. Len(wal') - 1 = {}
          BY <4>2, <4>3
        <5> QED
          BY <3>1, <5>1 DEF Placed, InRound
      <4> QED
        BY <3>1, <4>2, <4>3, <4>4, <4>5, <4>6 DEF Explained
    <3>3. CASE wal # <<>>
      <4>1. wal' = wal /\ synced <= synced'
        BY <1>0, <3>1, <3>3
      <4>2. PICK tr \in [Nat -> RoundState] :
              /\ Placed(m, tr)
              /\ IsTrace(wal', Len(wal'), m, height' + 1, tr) /\ Explains(m, tr)'
        BY <1>k, <3>1, <4>1
      <4>3. Placed(m, tr)'
        BY <3>1, <4>1, <4>2 DEF Placed, InRound
      <4> QED
        BY <4>2, <4>3 DEF Explained
    <3> QED
      BY <3>2, <3>3
  <2> QED
    BY <2>1, <2>2
<1>13. CASE CatchupReplay
  <2>1. PICK resync \in BOOLEAN : SearchForEndHeight(cs.h, resync)
    BY <1>13 DEF CatchupReplay
  <2>2. /\ pc = "search" /\ pc' = "idle"
        /\ UNCHANGED <<wal, synced, height, signed, cs, repaired>>
    BY <1>13 DEF CatchupReplay
  <2>3. cs.h = height + 1 /\ cs.h \in Nat /\ cs.h - 1 = height
    BY <1>0, <2>2 DEF PlaceInv
  <2>4. /\ mode' \in {"replay", "run"} /\ skipped \subseteq skipped'
        /\ mode' = "replay" => pos' \in DOMAIN wal /\ wal[pos'] = EndHeight(height)
        /\ mode' = "run" => height + 1 \in skipped'
    BY <1>0, <2>1, <2>3, SearchTypes
  <2> SUFFICES ASSUME NEW m \in DOMAIN wal', wal'[m] = EndHeight(height'),
                      height' + 1 \notin skipped'
               PROVE  \E tr \in [Nat -> RoundState] : Explained(m, tr)'
    BY DEF LogExplains
  <2>5. mode' = "replay" /\ pos' \in DOMAIN wal /\ wal[pos'] = EndHeight(height)
    BY <2>2, <2>4
  <2>6. synced <= synced'
    BY <1>0, <2>2
  <2>7. /\ m \in 1 .. n /\ wal[m] = EndHeight(height)
        /\ \E tr \in [Nat -> RoundState] :
             /\ IsTrace(wal, n, m, height + 1, tr) /\ Placed(m, tr)
             /\ IsTrace(wal', Len(wal'), m, height' + 1, tr) /\ Explains(m, tr)'
    BY <1>k, <2>2, <2>4, <2>6
  <2>8. PICK tr \in [Nat -> RoundState] :
          /\ IsTrace(wal, n, m, height + 1, tr) /\ Placed(m, tr)
          /\ IsTrace(wal', Len(wal'), m, height' + 1, tr) /\ Explains(m, tr)'
    BY <2>7
  <2>9. pos' = m
    <3>1. EndHeight(height).k = "end"
      BY <1>0, MarkerIs
    <3> QED
      BY <1>0, <2>5, <2>7, <3>1 DEF WalInv
  <2>10. tr[m] = NewHeightState(height + 1) /\ m + 1 .. m = {}
    BY <1>0, <2>7, <2>8 DEF IsTrace
  <2>11. Placed(m, tr)'
    <3>1. CASE repaired
      <4>1. At' = n /\ ~ (n < m) /\ n >= m
        BY <1>0, <2>2, <2>7, <3>1 DEF At
      <4>2. mode = "replay"
        BY <2>2, <3>1 DEF PlaceInv
      <4>3. cs = tr[n]
        BY <2>2, <2>8, <4>2 DEF Placed
      <4>4. \A i \in m + 1 .. n : wal[i] # Torn
        <5>1. \A i \in DOMAIN wal : wal[i] # Torn
          BY <3>1 DEF TypeOK, LogTypes
        <5>2. m + 1 .. n \subseteq DOMAIN wal
          BY <1>0, <2>7
        <5> QED
          BY <5>1, <5>2
      <4>5. \A i \in m + 1 .. n - 1 : wal[i] # Torn
        BY <2>8 DEF Placed
      <4> QED
        BY <2>2, <2>5, <4>1, <4>3, <4>4, <4>5 DEF Placed, InRound
    <3>2. CASE ~ repaired
      <4>1. At' = m /\ ~ (m < m) /\ m >= m
        BY <1>0, <2>2, <2>5, <2>7, <2>9, <3>2 DEF At
      <4>2. mode # "replay"
        BY <2>2, <3>2 DEF PlaceInv
      <4>3. cs = NewHeightState(height + 1)
        BY <2>2, <2>8, <4>2 DEF Placed
      <4>4. \A i \in m + 1 .. n - 1 : wal[i] # Torn
        BY <2>8 DEF Placed
      <4> QED
        BY <2>2, <2>5, <2>10, <3>2, <4>1, <4>3, <4>4 DEF Placed, InRound
    <3> QED
      BY <3>1, <3>2
  <2> QED
    BY <2>8, <2>11 DEF Explained
<1>14. CASE RepairWalFile
  <2>1. /\ ~ repaired /\ pc' = "search"
        /\ FirstTorn \in 1 .. n /\ wal[FirstTorn] = Torn
        /\ \A j \in 1 .. FirstTorn - 1 : wal[j] # Torn
        /\ Len(wal') = FirstTorn - 1 /\ synced' = Len(wal') /\ DOMAIN wal' = 1 .. Len(wal')
        /\ \A i \in 1 .. Len(wal') : wal'[i] = wal[i]
    BY <1>14, RepairLog
  <2>2. /\ pc = "idle" /\ mode = "replay" /\ pos < n /\ wal[pos + 1] = Torn
        /\ UNCHANGED <<mode, cs, height, signed, skipped>>
    BY <1>14 DEF RepairWalFile
  <2> SUFFICES ASSUME NEW m \in DOMAIN wal', wal'[m] = EndHeight(height'),
                      height' + 1 \notin skipped'
               PROVE  \E tr \in [Nat -> RoundState] : Explained(m, tr)'
    BY DEF LogExplains
  <2>3. m \in 1 .. FirstTorn - 1 /\ m \in 1 .. n /\ wal[m] = EndHeight(height)
    BY <1>0, <2>1, <2>2
  <2>4. PICK tr \in [Nat -> RoundState] : Explained(m, tr)
    BY <1>0, <2>2, <2>3 DEF LogExplains
  <2>5. IsTrace(wal, n, m, height + 1, tr) /\ Explains(m, tr) /\ Placed(m, tr)
    BY <2>4 DEF Explained
  <2>6. FirstTorn = n
    <3>1. FirstTorn \notin m + 1 .. n - 1
      BY <2>1, <2>5 DEF Placed
    <3>2. FirstTorn \in 1 .. n /\ m \in 1 .. FirstTorn - 1 /\ n \in Nat
      BY <1>0, <2>1, <2>3
    <3> HIDE DEF n
    <3> QED
      BY <3>1, <3>2
  <2>7. pos = n - 1
    <3>1. pos + 1 \notin 1 .. FirstTorn - 1
      BY <2>1, <2>2
    <3> QED
      BY <1>0, <2>2, <2>6, <3>1
  <2>8. cs = tr[n - 1]
    <3>1. At = n - 1 /\ n - 1 >= m
      BY <1>0, <2>1, <2>2, <2>3, <2>6, <2>7 DEF At
    <3> QED
      BY <2>2, <2>5, <3>1 DEF Placed, InRound
  <2>9. n - 1 \in m .. n /\ Len(wal') = n - 1 /\ m \in Nat
    BY <1>0, <2>1, <2>3, <2>6
  <2>10. IsTrace(wal', n - 1, m, height + 1, tr)
    <3>1. \A i \in m + 1 .. n - 1 : wal'[i] = wal[i]
      BY <1>0, <2>1, <2>3, <2>9
    <3> HIDE DEF n
    <3> QED
      BY <1>0, <2>5, <2>9, <3>1, TracePrefix
  <2>11. Explains(m, tr)'
    <3> SUFFICES ASSUME NEW v \in signed', v.h = height' + 1, v.s # stepPropose
                 PROVE  \E i \in m + 1 .. synced' : Asks(tr[i - 1], wal'[i], v)
      BY DEF Explains
    <3>1. PICK i \in m + 1 .. synced : Asks(tr[i - 1], wal[i], v)
      BY <2>2, <2>5 DEF Explains
    <3>2. i # n
      <4>1. wal[i].k # "torn"
        BY <3>1 DEF Asks
      <4> QED
        BY <1>0, <2>1, <2>6, <4>1, MarkerIs
    <3>3. i \in m + 1 .. synced' /\ i \in 1 .. Len(wal')
      <4>1. synced' = n - 1 /\ Len(wal') = n - 1 /\ n \in Nat /\ synced \in 0 .. n /\ m \in 1 .. n
        BY <1>0, <2>1, <2>3, <2>9
      <4> HIDE DEF n
      <4> QED
        BY <3>2, <4>1
    <3> QED
      BY <2>1, <3>1, <3>3
  <2>12. Placed(m, tr)'
    <3>1. \A i \in m + 1 .. Len(wal') - 1 : wal'[i] # Torn
      BY <1>0, <2>1, <2>3
    <3> QED
      BY <2>1, <2>2, <2>8, <2>9, <3>1 DEF Placed, InRound
  <2> QED
    BY <2>2, <2>9, <2>10, <2>11, <2>12 DEF Explained
<1>15. CASE ReplayDone
  <2>1. /\ pc = "idle" /\ pc' = "idle" /\ mode = "replay" /\ mode' = "run" /\ pos = n
        /\ UNCHANGED <<wal, synced, height, signed, skipped, cs>>
    BY <1>15 DEF ReplayDone
  <2> SUFFICES ASSUME NEW m \in DOMAIN wal', wal'[m] = EndHeight(height'),
                      height' + 1 \notin skipped'
               PROVE  \E tr \in [Nat -> RoundState] : Explained(m, tr)'
    BY DEF LogExplains
  <2>2. synced <= synced'
    BY <1>0, <2>1
  <2>3. /\ m \in 1 .. n
        /\ \E tr \in [Nat -> RoundState] :
             /\ Placed(m, tr)
             /\ IsTrace(wal', Len(wal'), m, height' + 1, tr) /\ Explains(m, tr)'
    BY <1>k, <2>1, <2>2
  <2>4. PICK tr \in [Nat -> RoundState] :
          /\ Placed(m, tr)
          /\ IsTrace(wal', Len(wal'), m, height' + 1, tr) /\ Explains(m, tr)'
    BY <2>3
  <2>5. At = n /\ At' = n /\ n >= m /\ ~ (n < m)
    BY <1>0, <2>1, <2>3 DEF At
  <2>6. Placed(m, tr)'
    BY <2>1, <2>4, <2>5 DEF Placed, InRound
  <2> QED
    BY <2>4, <2>6 DEF Explained
<1>16. CASE Crash
  <2>1. PICK k \in synced .. n :
           /\ Len(wal') = k \/ (Len(wal') = k + 1 /\ k < n /\ wal'[k + 1] = Torn)
           /\ synced' = Len(wal') /\ DOMAIN wal' = 1 .. Len(wal')
           /\ \A i \in 1 .. k : wal'[i] = wal[i]
    BY <1>16, CrashLog
  <2>2. pc' = "handshake" /\ UNCHANGED <<height, signed, skipped>>
    BY <1>16 DEF Crash
  <2> SUFFICES ASSUME NEW m \in DOMAIN wal', wal'[m] = EndHeight(height'),
                      height' + 1 \notin skipped'
               PROVE  \E tr \in [Nat -> RoundState] : Explained(m, tr)'
    BY DEF LogExplains
  <2>3. /\ m \in 1 .. k /\ m \in 1 .. n /\ wal[m] = EndHeight(height)
        /\ k \in Nat /\ k \in m .. n /\ m \in 0 .. k
    <3>1. Torn # EndHeight(height)
      BY <1>0, MarkerIs
    <3> QED
      BY <1>0, <2>1, <2>2, <3>1
  <2>4. PICK tr \in [Nat -> RoundState] : Explained(m, tr)
    BY <1>0, <2>2, <2>3 DEF LogExplains
  <2>5. /\ IsTrace(wal, n, m, height + 1, tr) /\ Explains(m, tr)
        /\ \A i \in m + 1 .. n - 1 : wal[i] # Torn
    BY <2>4 DEF Explained, Placed
  <2>6. \A i \in m + 1 .. k : wal'[i] = wal[i] /\ wal[i] \in Record
    BY <1>0, <2>1, <2>3
  <2>7. IsTrace(wal', k, m, height + 1, tr)
    <3>1. m \in Nat /\ k \in m .. n /\ n \in Nat
      BY <1>0, <2>3
    <3> HIDE DEF n
    <3> QED
      BY <1>0, <2>5, <2>6, <3>1, TracePrefix
  <2>8. PICK e \in [Nat -> RoundState] :
          /\ IsTrace(wal', Len(wal'), m, height + 1, e)
          /\ \A i \in 0 .. k : e[i] = tr[i]
    <3>1. CASE Len(wal') = k
      BY <2>7, <3>1
    <3>2. CASE Len(wal') = k + 1 /\ wal'[k + 1] = Torn
      <4>1. SameRecords(wal', wal', m, k)
        BY <2>6 DEF SameRecords
      <4>2. wal'[k + 1] \in Record /\ Fits(tr[k], wal'[k + 1], height + 1)
        BY <3>2, MarkerIs DEF Fits, Past
      <4>3. PICK ext : ext = [tr EXCEPT ![k + 1] = Applied(tr[k], wal'[k + 1])]
        OBVIOUS
      <4>4. ext \in [Nat -> RoundState] /\ IsTrace(wal', k + 1, m, height + 1, ext)
        BY <1>0, <2>3, <2>7, <4>1, <4>2, <4>3, TraceAppend
      <4>5. \A i \in 0 .. k : ext[i] = tr[i]
        BY <2>3, <4>3
      <4> QED
        BY <3>2, <4>4, <4>5
    <3> QED
      BY <2>1, <3>1, <3>2
  <2>9. Explains(m, e)'
    <3> SUFFICES ASSUME NEW v \in signed', v.h = height' + 1, v.s # stepPropose
                 PROVE  \E i \in m + 1 .. synced' : Asks(e[i - 1], wal'[i], v)
      BY DEF Explains
    <3>1. PICK i \in m + 1 .. synced : Asks(tr[i - 1], wal[i], v)
      BY <2>2, <2>5 DEF Explains
    <3>2. i \in m + 1 .. synced' /\ i \in 1 .. k /\ i - 1 \in 0 .. k
      BY <1>0, <2>1, <2>3
    <3> QED
      BY <2>1, <2>8, <3>1, <3>2
  <2>10. Placed(m, e)'
    <3>1. \A i \in m + 1 .. Len(wal') - 1 : i \in m + 1 .. n - 1 /\ i \in 1 .. k
      BY <1>0, <2>1, <2>3
    <3>2. \A i \in m + 1 .. Len(wal') - 1 : wal'[i] # Torn
      BY <2>1, <2>5, <3>1
    <3> QED
      BY <2>2, <3>2 DEF Placed, InRound
  <2> QED
    BY <2>2, <2>8, <2>9, <2>10 DEF Explained
<1> QED
  BY <1>1, <1>2, <1>3, <1>4, <1>5, <1>6, <1>7, <1>8, <1>9, <1>10, <1>11, <1>12, <1>13, <1>14,
     <1>15, <1>16 DEF Next, Step

-----------------------------------------------------------------------------
(* The lock rule and the votes, across crashes. *)

\* A vote that was refused or broke the lock would have to be asked for by the
\* log, which asks for one vote in a step and keeps the lock.
LEMMA VotesStep ==
  ASSUME TypeOK, RecoveryInv, LastIsGreatest, [Next]_vars
  PROVE  LockSurvives' /\ VotesRecomputed'
<1> USE DEF stores, histories, consensusVars
<1>0. PlaceInv /\ WalInv /\ SignedInv /\ LogExplains /\ LockSurvives /\ VotesRecomputed
  BY DEF RecoveryInv
<1>1. CASE UNCHANGED <<signed, refused>> /\ skipped \subseteq skipped' /\ net \subseteq net'
  <2>1. \A h : KeepsLock(h) => KeepsLock(h)'
    BY <1>1 DEF KeepsLock
  <2> QED
    BY <1>0, <1>1, <2>1 DEF LockSurvives, VotesRecomputed
<1>2. CASE Sign
  <2> DEFINE n == Len(wal)
             h == height + 1
             sig == SignatureFor(vote)
  <2>1. /\ pc = "sign" /\ UNCHANGED <<wal, height, skipped, net>> /\ vote \in Vote
        /\ vote.h = h /\ vote.r \in Nat
    BY <1>0, <1>2 DEF Sign, TypeOK, RoundTypes, PlaceInv, InRound, Vote
  <2>2. /\ n \in Nat /\ DOMAIN wal = 1 .. n /\ height \in Nat /\ h \in Nat
        /\ \A i \in 1 .. n : wal[i] \in Record
        /\ synced \in 0 .. n /\ pos \in 0 .. n /\ signed \subseteq Signature /\ lss \in Signature
    BY LogFacts DEF TypeOK, KeyTypes
  <2>3. \/ /\ sig # None /\ signed' = signed \cup {sig} /\ refused' = refused
        \/ /\ sig = None /\ signed' = signed
           /\ refused' = IF SameHRS(lss, vote) /\ lss.b # vote.b
                        THEN refused \cup {vote} ELSE refused
    BY <1>2 DEF Sign
  \* The trace, and the record of the log that asks for the vote.
  <2>4. ASSUME h \notin skipped, vote.s # stepPropose
        PROVE  \E m \in 1 .. n, tr \in [Nat -> RoundState], j \in Nat :
                 /\ IsTrace(wal, n, m, h, tr) /\ Explains(m, tr)
                 /\ j \in m + 1 .. n /\ Asks(tr[j - 1], wal[j], vote)
    <3>1. PICK m \in 1 .. n : wal[m] = EndHeight(height)
      BY <1>0, <2>1, <2>2, <2>4 DEF WalInv, InRound
    <3>2. PICK tr \in [Nat -> RoundState] : Explained(m, tr)
      BY <1>0, <2>2, <2>4, <3>1 DEF LogExplains
    <3>3. m < At /\ Asks(tr[At - 1], wal[At], vote)
      BY <2>1, <2>4, <3>2 DEF Explained, Placed
    <3>4. At \in 0 .. n
      BY <2>2 DEF At
    <3>5. At \in m + 1 .. n /\ At \in Nat
      BY <2>2, <3>3, <3>4
    <3> QED
      BY <3>2, <3>3, <3>5 DEF Explained
  <2>5. VotesRecomputed'
    <3>1. CASE refused' = refused
      BY <1>0, <2>1, <3>1 DEF VotesRecomputed
    <3>2. CASE refused' # refused
      <4>1. sig = None /\ SameHRS(lss, vote) /\ refused' = refused \cup {vote}
        BY <2>3, <3>2
      <4>2. lss.b # vote.b
        BY <2>3, <3>2
      <4>3. lss \in signed /\ lss.h = h /\ lss.r = vote.r /\ lss.s = vote.s
        <5>1. lss.h = h /\ lss.r = vote.r /\ lss.s = vote.s
          BY <2>1, <4>1 DEF SameHRS
        <5> QED
          BY <1>0, <2>2, <5>1 DEF SignedInv
      <4>4. vote.s # stepPropose => h \in skipped
        <5> SUFFICES ASSUME vote.s # stepPropose, h \notin skipped PROVE FALSE
          OBVIOUS
        <5>1. PICK m \in 1 .. n, tr \in [Nat -> RoundState], j \in Nat :
                /\ IsTrace(wal, n, m, h, tr) /\ Explains(m, tr)
                /\ j \in m + 1 .. n /\ Asks(tr[j - 1], wal[j], vote)
          BY <2>4
        <5>2. PICK i \in m + 1 .. synced : Asks(tr[i - 1], wal[i], lss)
          BY <4>3, <5>1 DEF Explains
        <5>3. m \in Nat /\ i \in m + 1 .. n /\ (i <= j \/ j <= i)
          BY <2>2, <5>1
        <5>4. \A q \in m + 1 .. n : wal[q] \in Record
          BY <2>2, <5>3
        <5>x. n \in Nat /\ h \in Nat /\ j \in m + 1 .. n /\ IsTrace(wal, n, m, h, tr)
          BY <2>2, <5>1
        <5>y. AskedAt(wal, tr, i, lss) /\ AskedAt(wal, tr, j, vote)
          BY <5>1, <5>2 DEF AskedAt
        <5> HIDE DEF n, h
        <5>5. ASSUME i <= j PROVE lss.b = vote.b
          BY <4>3, <5>3, <5>4, <5>5, <5>x, <5>y, AskedOnce
        <5>6. ASSUME j <= i PROVE vote.b = lss.b
          BY <4>3, <5>3, <5>4, <5>6, <5>x, <5>y, AskedOnce
        <5> QED
          BY <4>2, <5>3, <5>5, <5>6
      <4> QED
        BY <1>0, <2>1, <4>1, <4>4 DEF VotesRecomputed
    <3> QED
      BY <3>1, <3>2
  <2>6. LockSurvives'
    <3>1. CASE signed' = signed
      <4>1. \A g : KeepsLock(g) => KeepsLock(g)'
        BY <2>1, <3>1 DEF KeepsLock
      <4> QED
        BY <1>0, <2>1, <4>1 DEF LockSurvives
    <3>2. CASE signed' # signed
      <4>1. signed' = signed \cup {sig} /\ sig # None /\ sig \notin signed
        BY <2>3, <3>2
      <4>2. sig # lss
        <5>1. CASE lss \in signed
          BY <4>1, <5>1
        <5>2. CASE lss.h = 0
          <6>1. ~ SameHRS(lss, vote)
            BY <2>1, <2>2, <5>2 DEF SameHRS
          <6>2. sig.h = h
            BY <2>1, <4>1, <6>1 DEF SignatureFor
          <6> QED
            BY <2>2, <5>2, <6>2
        <5> QED
          BY <1>0, <5>1, <5>2 DEF SignedInv
      <4>3. /\ Before(lss, vote) /\ sig.h = h /\ sig.r = vote.r /\ sig.s = vote.s /\ sig.b = vote.b
        BY <2>1, <4>1, <4>2 DEF SignatureFor
      <4>4. \A v \in signed : v.h \in Nat /\ v.r \in Nat /\ (v.h = h => v.r <= sig.r)
        <5> SUFFICES ASSUME NEW v \in signed
                     PROVE  v.h \in Nat /\ v.r \in Nat /\ (v.h = h => v.r <= sig.r)
          OBVIOUS
        <5>1. v \in Signature /\ (v = lss \/ Before(v, lss))
          BY <2>2 DEF LastIsGreatest
        <5> QED
          BY <2>1, <2>2, <4>3, <5>1 DEF Before, Signature
      <4> SUFFICES ASSUME NEW g \in (1 .. MaxHeight + 1) \ skipped, NEW u \in signed', NEW v \in signed',
                          u.h = g, v.h = g, u.s = stepPrecommit, u.b \in Blocks,
                          v.s = stepPrevote, u.r < v.r, v.b # u.b
                   PROVE  \E p \in net : /\ p.k = "polka" /\ p.h = g /\ u.r < p.r /\ p.r < v.r
                                         /\ p.b # u.b
        BY <2>1 DEF LockSurvives, KeepsLock
      <4>5. CASE u \in signed /\ v \in signed
        BY <1>0, <4>5 DEF LockSurvives, KeepsLock
      <4>6. CASE u = sig
        <5>1. v # sig
          BY <4>6 DEF stepPrevote, stepPrecommit
        <5>2. v \in signed /\ v.h = h
          BY <4>1, <4>3, <4>6, <5>1
        <5> QED
          BY <2>1, <4>3, <4>4, <4>6, <5>2
      <4>7. CASE u \in signed /\ v = sig
        <5>1. h \notin skipped /\ vote.s # stepPropose /\ g = h
          BY <4>3, <4>7 DEF stepPrevote, stepPropose
        <5>2. PICK m \in 1 .. n, tr \in [Nat -> RoundState], j \in Nat :
                /\ IsTrace(wal, n, m, h, tr) /\ Explains(m, tr)
                /\ j \in m + 1 .. n /\ Asks(tr[j - 1], wal[j], vote)
          BY <2>4, <5>1
        <5>3. PICK i \in m + 1 .. synced : Asks(tr[i - 1], wal[i], u)
          BY <4>7, <5>1, <5>2 DEF Explains, stepPrecommit, stepPropose
        <5>4. m \in Nat /\ i \in m + 1 .. n
          BY <2>2, <5>2
        <5>5. \A q \in m + 1 .. n : wal[q] \in Record
          BY <2>2, <5>4
        <5>6. vote.s = stepPrevote /\ u.r < vote.r /\ vote.b # u.b /\ v.r = vote.r
          BY <4>3, <4>7
        <5>x. n \in Nat /\ h \in Nat /\ j \in m + 1 .. n /\ IsTrace(wal, n, m, h, tr)
          BY <2>2, <5>2
        <5>y. AskedAt(wal, tr, i, u) /\ AskedAt(wal, tr, j, vote)
          BY <5>2, <5>3 DEF AskedAt
        <5>z. /\ u.s = stepPrecommit /\ u.b \in Blocks /\ vote.s = stepPrevote
              /\ u.r < vote.r /\ vote.b # u.b
          BY <5>6
        <5> HIDE DEF n, h
        <5>7. PICK q \in m + 1 .. n :
                /\ wal[q].k = "polka" /\ wal[q].h = h /\ u.r < wal[q].r /\ wal[q].r < vote.r
                /\ wal[q].b # u.b
          BY <5>4, <5>5, <5>x, <5>y, <5>z, AskedUnderLock, SMTT(60)
        <5>8. q \in DOMAIN wal
          BY <2>2, <5>4
        <5>9. wal[q] \in net
          BY <1>0, <5>7, <5>8 DEF WalInv
        <5> QED
          BY <5>1, <5>6, <5>7, <5>9
      <4> QED
        BY <4>1, <4>5, <4>6, <4>7
    <3> QED
      BY <3>1, <3>2
  <2> QED
    BY <2>5, <2>6
<1>3. CASE ReceivePeer
  <2>1. UNCHANGED <<signed, refused, skipped>> /\ net \subseteq net'
    BY <1>3, ReceivePeerRecord
  <2> QED
    BY <1>1, <2>1
<1>4. CASE CatchupReplay
  <2>1. PICK resync \in BOOLEAN : SearchForEndHeight(cs.h, resync)
    BY <1>4 DEF CatchupReplay
  <2>2. skipped \subseteq skipped'
    BY <2>1 DEF SearchForEndHeight
  <2> QED
    BY <1>1, <1>4, <2>2 DEF CatchupReplay
<1>5. ASSUME [Next]_vars, ~ Sign, ~ ReceivePeer, ~ CatchupReplay
      PROVE  UNCHANGED <<signed, refused, skipped, net>>
  BY <1>5 DEF Next, Step, vars, ReceiveInternal, SaveBlock, WriteEndHeight, SyncEndHeight,
     ExecBlock, CommitApp, SaveState, PruneBlocks, PruneStates, UpdateToState, Handshake,
     ReplayBlock, Start, ReplayMessage, RepairWalFile, ReplayDone, Crash
<1> QED
  BY <1>1, <1>2, <1>3, <1>4, <1>5

\* The invariant of the log holds in every state.
LEMMA RecoveryInvariant == Spec => []RecoveryInv
<1>1. Init => RecoveryInv
  <2> SUFFICES ASSUME Init PROVE RecoveryInv
    OBVIOUS
  <2>1. /\ lss.h = 0 /\ wal = <<>> /\ height = 0 /\ state = 0
        /\ pc = "handshake" /\ mode = "handshake" /\ cs = NewHeightState(1)
        /\ queue = <<>> /\ ~ repaired /\ signed = {} /\ refused = {}
    BY DEF Init
  <2>2. DOMAIN wal = {} /\ DOMAIN queue = {}
    BY <2>1
  <2>3. Sound(cs)
    BY <2>1, NewHeightSound
  <2>4. PlaceInv
    BY <2>1, <2>2, <2>3 DEF PlaceInv, InRound, Finalizing
  <2>5. WalInv
    BY <2>1, <2>2 DEF WalInv, InRound, Finalizing
  <2>6. SignedInv /\ LogExplains /\ LockSurvives /\ VotesRecomputed
    BY <2>1, <2>2 DEF SignedInv, LogExplains, LockSurvives, KeepsLock, VotesRecomputed
  <2> QED
    BY <2>4, <2>5, <2>6 DEF RecoveryInv
<1>2. TypeOK /\ TypeOK' /\ LastIsGreatest /\ RecoveryInv /\ [Next]_vars => RecoveryInv'
  BY PlaceStep, WalStep, SignedStep, LogExplainsStep, VotesStep DEF RecoveryInv
<1> QED
  BY <1>1, <1>2, RecoveryTypes, SignsInOrder, PTL DEF Spec

\* Whatever the crashes and however the WAL ends, a validator that replays the
\* WAL of a height keeps the lock rule there: it prevotes for another block
\* than it precommitted only behind a polka in between.
THEOREM RecoveryKeepsLock == Spec => []LockSurvives
<1>1. RecoveryInv => LockSurvives
  BY DEF RecoveryInv
<1> QED
  BY <1>1, RecoveryInvariant, PTL

\* And it computes the votes that it had signed again: FilePV refuses a vote
\* as conflicting data only at a height that OnStart started without replay.
THEOREM RecoveryRecomputesVotes == Spec => []VotesRecomputed
<1>1. RecoveryInv => VotesRecomputed
  BY DEF RecoveryInv
<1> QED
  BY <1>1, RecoveryInvariant, PTL

=============================================================================
