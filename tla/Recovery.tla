------------------------------ MODULE Recovery ------------------------------
(***************************************************************************)
(* One Tendermint validator that may crash at any moment: what it has on   *)
(* disk (the last signed vote, the consensus WAL, the block store, the     *)
(* state store, the state of the application), in which order it writes    *)
(* there, and how it finds its way back when it is started again: the      *)
(* handshake with the application, then the replay of the WAL.             *)
(*                                                                         *)
(* The steps of a round are those of ConsensusState reduced to what        *)
(* decides the next vote; a "polka" or a "commit" is the vote that         *)
(* completes two thirds of the prevotes or precommits.  Every height has   *)
(* one committed block (AgreementTheorem), so blocks in the stores, app    *)
(* hashes and states are told apart by their height alone.                 *)
(***************************************************************************)
EXTENDS Integers, Sequences, FiniteSets

CONSTANTS
  Blocks, Nil, None,
  Turns,       \* pairs <<height, round>> in which this validator proposes
  Slack,       \* RetainHeight exceeds the height the app has saved by at most this
  MaxHeight,   \* bound: heights that are decided
  LongHeights, \* bound: heights whose messages are modelled; the others are only decided
  MaxRound,    \* bound: rounds
  MaxCrashes,  \* bound
  TornWrites   \* a crash may leave half of a record at the end of the WAL

ASSUME RecoveryAssumption ==
  /\ Nil \notin Blocks /\ None \notin Blocks /\ Nil # None
  /\ Slack \in Nat /\ MaxHeight \in Nat /\ MaxRound \in Nat
  /\ MaxCrashes \in Nat /\ TornWrites \in BOOLEAN

VARIABLES
  lss,        \* disk: FilePVLastSignState
  wal,        \* disk: the consensus WAL
  synced,     \* disk: its prefix that has been fsynced
  base,       \* disk: BlockStore.Base
  height,     \* disk: BlockStore.Height
  state,      \* disk: LastBlockHeight of the saved state
  vals,       \* disk: heights with a ValidatorsInfo in the state store
  responses,  \* disk: heights with saved ABCIResponses
  appDisk,    \* disk: the height the application has saved
  app,        \* the height of the application
  pc,         \* what the validator is about to do
  mode,       \* "handshake", "replay" or "run": who called it
  cs,         \* its round state
  vote,       \* the message it is about to sign
  queue,      \* internalMsgQueue
  pos,        \* the record of the WAL last replayed
  repaired,   \* OnStart has repaired the WAL
  mock,       \* the block is applied to the mock application
  retain,     \* RetainHeight of the last Commit
  crashes,    \* also the clock: votes of different lives differ in timestamp
  signed,     \* history: what the key has signed
  refused,    \* history: what the key refused as conflicting data
  skipped,    \* history: heights started without replaying the WAL
  net         \* history: what the other validators have proposed and decided

diskVars == <<lss, wal, synced, base, height, state, vals, responses, appDisk>>
stores == <<base, height, state, vals, responses, appDisk, app, mock, retain>>
histories == <<signed, refused, skipped, net>>
vars == <<lss, wal, synced, base, height, state, vals, responses, appDisk, app, pc, mode,
          cs, vote, queue, pos, repaired, mock, retain, crashes, signed, refused, skipped, net>>

Heights == 1 .. MaxHeight
Values == Blocks \cup {Nil}

\* steps of FilePVLastSignState
stepNone == 0
stepPropose == 1
stepPrevote == 2
stepPrecommit == 3

Rec(k, h, r, b) == [k |-> k, h |-> h, r |-> r, b |-> b]
EndHeight(h) == Rec("end", h, 0, None)
Torn == Rec("torn", 0, 0, None)

\* updateToState: the round state at the start of a height.
NewHeightState(h) ==
  [h |-> h, r |-> 0, step |-> "newHeight", prop |-> None, polka |-> FALSE,
   lockR |-> -1, lockB |-> None, validB |-> None]

Init ==
  /\ lss = [h |-> 0, r |-> 0, s |-> stepNone, b |-> None, t |-> 0]
  /\ wal = <<>> /\ synced = 0
  /\ base = 0 /\ height = 0 /\ state = 0 /\ vals = {} /\ responses = {}
  /\ appDisk = 0 /\ app = 0
  /\ pc = "handshake" /\ mode = "handshake"
  /\ cs = NewHeightState(1) /\ vote = None /\ queue = <<>>
  /\ pos = 0 /\ repaired = FALSE /\ mock = FALSE /\ retain = 0
  /\ crashes = 0 /\ signed = {} /\ refused = {} /\ skipped = {} /\ net = {}

-----------------------------------------------------------------------------
(* privval/file.go *)

\* CheckHRS: the order of (height, round, step).
Before(u, v) ==
  \/ u.h < v.h
  \/ u.h = v.h /\ u.r < v.r
  \/ u.h = v.h /\ u.r = v.r /\ u.s < v.s
SameHRS(u, v) == u.h = v.h /\ u.r = v.r /\ u.s = v.s

\* Mutant of SignatureFor: a message signed before is signed again, with the
\* new timestamp.
SignatureRenewed(v) ==
  IF Before(lss, v) \/ (SameHRS(lss, v) /\ lss.b = v.b)
  THEN [h |-> v.h, r |-> v.r, s |-> v.s, b |-> v.b, t |-> crashes]
  ELSE None

\* signVote and signProposal of FilePV: what the key signs for v, None if
\* it refuses.  Two messages that differ in their timestamp only are the
\* same: the signature that was saved, with its timestamp, is given again.
SignatureFor(v) ==
  IF Before(lss, v) THEN [h |-> v.h, r |-> v.r, s |-> v.s, b |-> v.b, t |-> crashes]
  ELSE IF SameHRS(lss, v) /\ lss.b = v.b THEN lss
  ELSE None

\* Mutant of FlushAndSync: nothing is flushed.
FlushNothing == UNCHANGED synced

\* FlushAndSync of the WAL.
FlushAndSync == synced' = Len(wal)

\* signVote, signAddVote and the second half of defaultDecideProposal of
\* State: flush the WAL, sign (saveSigned writes the file before the
\* signature is returned), send to the internal queue.  Only a proposal is
\* kept there: the record of an own vote takes no effect when it is
\* replayed, and its fsync secures nothing that may not survive anyway.
Sign ==
  /\ pc = "sign"
  /\ FlushAndSync
  /\ LET sig == SignatureFor(vote) IN
     IF sig # None
     THEN /\ lss' = sig
          /\ signed' = signed \cup {sig}
          /\ queue' = IF sig.s = stepPropose
                      THEN Append(queue, Rec("proposal", sig.h, sig.r, sig.b)) ELSE queue
          /\ UNCHANGED refused
     ELSE /\ refused' = IF SameHRS(lss, vote) /\ lss.b # vote.b
                        THEN refused \cup {vote} ELSE refused
          /\ UNCHANGED <<lss, signed, queue>>
  /\ vote' = None
  /\ pc' = "idle"
  /\ UNCHANGED <<wal, stores, mode, cs, pos, repaired, crashes, skipped, net>>

-----------------------------------------------------------------------------
(* consensus/state.go: the handlers *)

\* The record takes effect: it is of this height and round, and of the step
\* in which its kind matters.  (A timeout is recorded under the name of its
\* step.)
Applies(rec) ==
  /\ rec.h = cs.h
  /\ \/ rec.k = "newHeight" /\ cs.step = "newHeight"
     \/ rec.k \in {"propose", "proposal"} /\ rec.r = cs.r /\ cs.step = "propose"
     \/ rec.k = "prevote" /\ rec.r = cs.r /\ cs.step = "prevote"
     \/ rec.k = "polka" /\ rec.r = cs.r /\ ~cs.polka /\ cs.step \in {"prevote", "precommit"}
     \/ rec.k = "precommit" /\ rec.r = cs.r /\ cs.step = "precommit"
     \/ rec.k = "commit" /\ cs.step \in {"newHeight", "propose", "prevote", "precommit"}

\* The handler asks the key to sign, or has nothing to sign.
Signing(s, b) ==
  /\ vote' = [h |-> cs.h, r |-> cs'.r, s |-> s, b |-> b]
  /\ pc' = "sign"
NotSigning == vote' = None /\ pc' = "idle"

\* enterNewRound and enterPropose; if it is its turn, the validator proposes
\* the valid block, or one that it makes of what is in the mempool now.
EnterPropose(r) ==
  /\ cs' = [cs EXCEPT !.r = r, !.step = "propose", !.prop = None, !.polka = FALSE]
  /\ IF <<cs.h, r>> \in Turns
     THEN \E b \in IF cs.validB # None THEN {cs.validB} ELSE Blocks : Signing(stepPropose, b)
     ELSE NotSigning

\* enterPrevote and defaultDoPrevote.
EnterPrevote(b) ==
  /\ cs' = [cs EXCEPT !.step = "prevote", !.prop = b]
  /\ Signing(stepPrevote,
             IF cs.lockB # None THEN cs.lockB ELSE IF b # None THEN b ELSE Nil)

\* enterPrecommit without two thirds for one value.
PrecommitNil ==
  /\ cs' = [cs EXCEPT !.step = "precommit"]
  /\ Signing(stepPrecommit, Nil)

\* addVote and enterPrecommit with two thirds of the prevotes for b.
OnPolka(b) ==
  LET unlocks == cs.lockB # None /\ cs.lockR < cs.r /\ cs.lockB # b
      valid == IF b \in Blocks /\ cs.prop = b THEN b ELSE cs.validB
      known == b \in Blocks /\ b \in {cs.lockB, cs.prop}
  IN IF cs.step = "precommit"
     THEN /\ cs' = [cs EXCEPT !.polka = TRUE, !.validB = valid,
                              !.lockR = IF unlocks THEN -1 ELSE @,
                              !.lockB = IF unlocks THEN None ELSE @]
          /\ NotSigning
     ELSE /\ cs' = [cs EXCEPT !.step = "precommit", !.polka = TRUE, !.validB = valid,
                              !.lockR = IF known THEN cs.r ELSE -1,
                              !.lockB = IF known THEN b ELSE None]
          /\ Signing(stepPrecommit, IF known THEN b ELSE Nil)

\* enterCommit: the block is complete, so finalizeCommit follows.
EnterCommit ==
  /\ cs' = [cs EXCEPT !.step = "commit"]
  /\ vote' = None /\ pc' = "saveBlock"

\* handleMsg and handleTimeout.
Handle(rec) ==
  CASE rec.k = "newHeight" -> EnterPropose(0)
    [] rec.k = "propose" -> EnterPrevote(None)
    [] rec.k = "proposal" -> EnterPrevote(rec.b)
    [] rec.k = "prevote" -> PrecommitNil
    [] rec.k = "polka" -> OnPolka(rec.b)
    [] rec.k = "precommit" -> EnterPropose(cs.r + 1)
    [] rec.k = "commit" -> EnterCommit

\* What the other validators can have sent: one proposal and one polka in a
\* round, and no proposal for this validator's own turn.
Sent(rec) ==
  /\ rec.k = "proposal" => <<rec.h, rec.r>> \notin Turns
  /\ \A m \in net : m.k = rec.k /\ m.h = rec.h /\ m.r = rec.r => m.b = rec.b

\* receiveRoutine takes a message of a peer or a timeout: it is written to
\* the WAL without fsync, then handled.
ReceivePeer ==
  \E k \in {"newHeight", "propose", "proposal", "prevote", "polka", "precommit", "commit"} :
  \E b \in (CASE k = "proposal" -> Blocks [] k = "polka" -> Values [] OTHER -> {None}) :
    LET rec == Rec(k, cs.h, cs.r, b) IN
    /\ pc = "idle" /\ mode = "run"
    /\ cs.h \in IF k = "commit" THEN Heights ELSE LongHeights
    /\ k = "precommit" => cs.r < MaxRound
    /\ Applies(rec)
    /\ IF b # None THEN Sent(rec) /\ net' = net \cup {rec} ELSE UNCHANGED net
    /\ wal' = Append(wal, rec)
    /\ Handle(rec)
    /\ UNCHANGED <<lss, synced, stores, mode, queue, pos, repaired, crashes,
                   signed, refused, skipped>>

\* receiveRoutine takes a message of its own, a proposal: WriteSync, then
\* handleMsg.
ReceiveInternal ==
  /\ pc = "idle" /\ mode = "run" /\ queue # <<>>
  /\ LET rec == Head(queue) IN
     /\ wal' = Append(wal, rec)
     /\ synced' = Len(wal')
     /\ IF Applies(rec) THEN Handle(rec) ELSE UNCHANGED <<cs, vote, pc>>
  /\ queue' = Tail(queue)
  /\ UNCHANGED <<lss, stores, mode, pos, repaired, crashes, histories>>

-----------------------------------------------------------------------------
(* consensus/state.go finalizeCommit and state/execution.go ApplyBlock *)

consensusVars == <<lss, wal, synced, cs, vote, queue, pos, repaired, crashes, histories>>

\* A panic or an error that keeps the validator from running.
Die == pc' = "dead"

\* finalizeCommit: BlockStore.SaveBlock, unless the block is there.
SaveBlock ==
  /\ pc = "saveBlock"
  /\ height' = IF height < cs.h THEN cs.h ELSE height
  /\ base' = IF base = 0 THEN cs.h ELSE base
  /\ pc' = "endHeight"
  /\ UNCHANGED <<consensusVars, state, vals, responses, appDisk, app, mode, mock, retain>>

\* finalizeCommit: wal.WriteSync(EndHeightMessage), the record and the fsync.
WriteEndHeight ==
  /\ pc = "endHeight"
  /\ wal' = Append(wal, EndHeight(cs.h))
  /\ pc' = "syncEnd"
  /\ UNCHANGED <<lss, synced, stores, mode, cs, vote, queue, pos, repaired, crashes, histories>>

SyncEndHeight ==
  /\ pc = "syncEnd"
  /\ FlushAndSync
  /\ pc' = "exec"
  /\ UNCHANGED <<lss, wal, stores, mode, cs, vote, queue, pos, repaired, crashes, histories>>

\* getBeginBlockValidatorInfo panics without the validators of the height before.
HasValidators(h) == h > 1 => h - 1 \in vals

\* Mutant of SaveABCIResponses: they are not saved.
SaveNoResponses == UNCHANGED responses

SaveABCIResponses == responses' = responses \cup {height}

\* ApplyBlock: validateBlock, execBlockOnProxyApp, SaveABCIResponses.
ExecBlock ==
  /\ pc = "exec"
  /\ IF HasValidators(height) /\ height = state + 1
     THEN SaveABCIResponses /\ pc' = "commitApp"
     ELSE Die /\ UNCHANGED responses
  /\ UNCHANGED <<consensusVars, base, height, state, vals, appDisk, app, mode, mock, retain>>

\* The application commits block h: it saves its state, or not yet, and
\* names a height below which it needs no blocks (or none, 0).
AppCommit(h) ==
  /\ app' = h
  /\ appDisk' \in {appDisk, h}
  /\ retain' \in {0, IF appDisk' + Slack < h THEN appDisk' + Slack ELSE h}

\* BlockExecutor.Commit, on the application or on the mock of the handshake.
CommitApp ==
  /\ pc = "commitApp"
  /\ IF mock THEN pc' = "saveState" /\ UNCHANGED <<app, appDisk, retain>>
     ELSE IF app = height - 1 THEN pc' = "saveState" /\ AppCommit(height)
     ELSE Die /\ UNCHANGED <<app, appDisk, retain>>
  /\ UNCHANGED <<consensusVars, base, height, state, vals, responses, mode, mock>>

\* dbStore.Save: the validators of the height after the next, then the state.
SaveState ==
  /\ pc = "saveState"
  /\ state' = height
  /\ vals' = vals \cup {height + 2}
  /\ mock' = FALSE
  /\ IF mode = "handshake" THEN pc' = "start" /\ retain' = 0
     ELSE pc' = "pruneBlocks" /\ UNCHANGED retain
  /\ UNCHANGED <<consensusVars, base, height, responses, appDisk, app, mode>>

\* pruneBlocks of State: the block store.
PruneBlocks ==
  /\ pc = "pruneBlocks"
  /\ base' = IF retain > base THEN retain ELSE base
  /\ pc' = IF retain > base THEN "pruneStates" ELSE "update"
  /\ UNCHANGED <<consensusVars, height, state, vals, responses, appDisk, app, mode, mock, retain>>

\* PruneStates: all before the height to retain but the last set of
\* validators that was stored in full, that of the initial height (the
\* validators do not change).
PruneStates ==
  /\ pc = "pruneStates"
  /\ vals' = {h \in vals : h = 1 \/ h >= retain}
  /\ responses' = {h \in responses : h >= retain}
  /\ pc' = "update"
  /\ UNCHANGED <<consensusVars, base, height, state, appDisk, app, mode, mock, retain>>

\* updateToState and scheduleRound0.
UpdateToState ==
  /\ pc = "update"
  /\ cs' = NewHeightState(state + 1)
  /\ retain' = 0
  /\ pc' = "idle"
  /\ UNCHANGED <<lss, wal, synced, base, height, state, vals, responses, appDisk, app, mock,
                 mode, vote, queue, pos, repaired, crashes, histories>>

-----------------------------------------------------------------------------
(* consensus/replay.go: the handshake *)

\* The heights with which ReplayBlocks gives up: an error or a panic.
HandshakeFails ==
  IF height = 0 THEN app # state
  ELSE \/ app = 0 /\ 1 < base
       \/ app > 0 /\ app < base - 1
       \/ height < app
       \/ height < state \/ height > state + 1
       \/ app = height /\ height = state + 1 /\ height \notin responses

\* ReplayBlocks: InitChain for an application without state, then by the
\* heights of application, block store and state.
Handshake ==
  /\ pc = "handshake"
  /\ vals' = IF app = 0 /\ state = 0 THEN vals \cup {1, 2} ELSE vals
  /\ pc' = IF HandshakeFails THEN "dead"
           ELSE IF height = 0 \/ (app = state /\ height = state) THEN "start"
           ELSE IF app < state THEN "replayBlocks"
           ELSE "exec"
  /\ mock' = (app = height /\ height = state + 1)
  /\ UNCHANGED <<consensusVars, base, height, state, responses, appDisk, app, mode, retain>>

\* replayBlocks: ExecCommitBlock for the next block the application lacks,
\* up to the height of the state; the last block of the store, if the state
\* lacks it too, goes through ApplyBlock.
ReplayBlock ==
  /\ pc = "replayBlocks"
  /\ IF app = state
     THEN /\ pc' = IF height = state THEN "start" ELSE "exec"
          /\ UNCHANGED <<app, appDisk>>
     ELSE IF app + 1 >= base /\ HasValidators(app + 1)
     THEN /\ app' = app + 1 /\ appDisk' \in {appDisk, app + 1}
          /\ UNCHANGED pc
     ELSE Die /\ UNCHANGED <<app, appDisk>>
  /\ UNCHANGED <<consensusVars, base, height, state, vals, responses, mode, mock, retain>>

-----------------------------------------------------------------------------
(* consensus/state.go OnStart, consensus/replay.go catchupReplay *)

FirstTorn == CHOOSE i \in DOMAIN wal : wal[i] = Torn /\ \A j \in 1 .. i - 1 : wal[j] # Torn
HasTorn == \E i \in DOMAIN wal : wal[i] = Torn

\* Behind half a record the decoder may or may not fall back into step, so
\* SearchForEndHeight may or may not see what follows it.
Readable(resync) == IF HasTorn /\ ~resync THEN 1 .. FirstTorn - 1 ELSE DOMAIN wal
Marker(h, resync) == {i \in Readable(resync) : wal[i] = EndHeight(h)}

\* catchupReplay finds the marker of the height before, and none of this
\* height; otherwise OnStart proceeds without replay.
SearchForEndHeight(h, resync) ==
  IF Marker(h, resync) = {} /\ Marker(h - 1, resync) # {}
  THEN /\ pos' = CHOOSE i \in Marker(h - 1, resync) : \A j \in Marker(h - 1, resync) : i <= j
       /\ mode' = "replay"
       /\ UNCHANGED skipped
  ELSE /\ mode' = "run" /\ pos' = 0
       /\ skipped' = skipped \cup {h}

\* NewState: reconstructLastCommit needs the block at the height of the
\* state.  OnStart: an empty WAL gets the marker of height 0.
Start ==
  /\ pc = "start"
  /\ IF state > 0 /\ state \notin base .. height
     THEN Die /\ UNCHANGED <<wal, synced, cs>>
     ELSE /\ cs' = NewHeightState(state + 1)
          /\ wal' = IF wal = <<>> THEN <<EndHeight(0)>> ELSE wal
          /\ synced' = Len(wal')
          /\ pc' = "search"
  /\ UNCHANGED <<lss, stores, mode, vote, queue, pos, repaired, crashes, histories>>

CatchupReplay ==
  /\ pc = "search"
  /\ \E resync \in BOOLEAN : SearchForEndHeight(cs.h, resync)
  /\ pc' = "idle"
  /\ UNCHANGED <<lss, wal, synced, stores, cs, vote, queue, repaired, crashes,
                 signed, refused, net>>

\* readReplayMessage: the next record is handled as receiveRoutine would.
ReplayMessage ==
  /\ pc = "idle" /\ mode = "replay" /\ pos < Len(wal)
  /\ wal[pos + 1] # Torn
  /\ LET rec == wal[pos + 1] IN
     IF Applies(rec) THEN Handle(rec) ELSE UNCHANGED <<cs, vote, pc>>
  /\ pos' = pos + 1
  /\ UNCHANGED <<lss, wal, synced, stores, mode, queue, repaired, crashes, histories>>

\* Mutant of Intact: repairWalFile does not copy the record before the torn
\* one.
IntactButOne == FirstTorn - 2

\* repairWalFile copies records until one cannot be decoded.
Intact == FirstTorn - 1

\* Half a record: the WAL is repaired and the replay starts again on the round
\* state as it is by now.  OnStart gives up the second time.
RepairWalFile ==
  /\ pc = "idle" /\ mode = "replay" /\ pos < Len(wal)
  /\ wal[pos + 1] = Torn
  /\ IF repaired THEN Die /\ UNCHANGED <<wal, synced>>
     ELSE /\ wal' = SubSeq(wal, 1, Intact)
          /\ synced' = Intact
          /\ pc' = "search"
  /\ repaired' = TRUE /\ pos' = 0
  /\ UNCHANGED <<lss, stores, mode, cs, vote, queue, crashes, histories>>

\* The WAL is replayed: receiveRoutine starts.
ReplayDone ==
  /\ pc = "idle" /\ mode = "replay" /\ pos = Len(wal)
  /\ mode' = "run" /\ pos' = 0 /\ repaired' = FALSE
  /\ UNCHANGED <<lss, wal, synced, stores, pc, cs, vote, queue, crashes, histories>>

-----------------------------------------------------------------------------

\* The process dies and is started again.  Of what was written to the WAL
\* since the last fsync any prefix is on disk (FlushAndSync also runs every
\* two seconds), and perhaps half of the next record.
Crash ==
  /\ crashes < MaxCrashes /\ pc # "dead"
  /\ crashes' = crashes + 1
  /\ \E n \in synced .. Len(wal) :
     \E tail \in IF TornWrites /\ n < Len(wal) THEN {<<>>, <<Torn>>} ELSE {<<>>} :
       /\ wal' = SubSeq(wal, 1, n) \o tail
       /\ synced' = n + Len(tail)
  /\ app' = appDisk
  /\ pc' = "handshake" /\ mode' = "handshake"
  /\ cs' = NewHeightState(1) /\ vote' = None /\ queue' = <<>>
  /\ pos' = 0 /\ repaired' = FALSE /\ mock' = FALSE /\ retain' = 0
  /\ UNCHANGED <<lss, base, height, state, vals, responses, appDisk, histories>>

Step ==
  \/ Sign \/ ReceiveInternal
  \/ SaveBlock \/ WriteEndHeight \/ SyncEndHeight \/ ExecBlock \/ CommitApp \/ SaveState
  \/ PruneBlocks \/ PruneStates \/ UpdateToState
  \/ Handshake \/ ReplayBlock
  \/ Start \/ CatchupReplay \/ ReplayMessage \/ RepairWalFile \/ ReplayDone

Next == Step \/ ReceivePeer \/ Crash

Spec == Init /\ [][Next]_vars

-----------------------------------------------------------------------------
Record ==
  [k : {"newHeight", "propose", "proposal", "prevote", "polka", "precommit", "commit",
        "end", "torn"},
   h : Nat, r : Nat, b : Values \cup {None}]
Vote == [h : Nat, r : Nat, s : stepNone .. stepPrecommit, b : Values \cup {None}]
Signature ==
  [h : Nat, r : Nat, s : stepNone .. stepPrecommit, b : Values \cup {None}, t : Nat]

RoundState ==
  [h : Nat, r : Nat, step : {"newHeight", "propose", "prevote", "precommit", "commit"},
   prop : Values \cup {None}, polka : BOOLEAN, lockR : Int,
   lockB : Blocks \cup {None}, validB : Blocks \cup {None}]

LogTypes ==
  /\ wal \in Seq(Record)
  /\ synced \in 0 .. Len(wal)
  /\ pos \in 0 .. Len(wal)
  /\ repaired \in BOOLEAN
  /\ repaired => \A i \in DOMAIN wal : wal[i] # Torn
  /\ queue \in Seq({m \in Record : m.k = "proposal"})

StoreTypes ==
  /\ base \in Nat /\ height \in Nat /\ state \in Nat
  /\ vals \subseteq Nat /\ responses \subseteq Nat
  /\ appDisk \in Nat /\ app \in Nat
  /\ mock \in BOOLEAN /\ retain \in Nat

RoundTypes ==
  /\ pc \in {"handshake", "replayBlocks", "start", "search", "idle", "sign", "saveBlock",
             "endHeight", "syncEnd", "exec", "commitApp", "saveState", "pruneBlocks",
             "pruneStates", "update", "dead"}
  /\ mode \in {"handshake", "replay", "run"}
  /\ cs \in RoundState
  /\ pc = "sign" => vote \in Vote

KeyTypes ==
  /\ lss \in Signature
  /\ crashes \in Nat
  /\ signed \subseteq Signature
  /\ refused \subseteq Vote
  /\ skipped \subseteq Nat
  /\ net \subseteq Record

\* The types of the variables; and a WAL that was repaired holds no half a
\* record.
TypeOK == LogTypes /\ StoreTypes /\ RoundTypes /\ KeyTypes

\* Whatever was lost in crashes, the key never signs two different messages
\* for one height, round and step, not even with different timestamps
\* (file.go: "to prevent double signing").
NoDoubleSign == \A u, v \in signed : SameHRS(u, v) => u = v

\* No crash, at whatever point between the writes to the four stores, leads
\* to a panic or an error in the handshake, in applying a block or in
\* OnStart; in particular the application gets every block once and in order.
NoFailure == pc # "dead"

\* A vote that was signed for b2 after a precommit for b1 in an earlier round
\* of the height was allowed by a polka for something else in between.
KeepsLock(h) ==
  \A u, v \in signed :
    /\ u.h = h /\ v.h = h /\ u.s = stepPrecommit /\ u.b \in Blocks
    /\ v.s = stepPrevote /\ u.r < v.r /\ v.b # u.b
    => \E m \in net : m.k = "polka" /\ m.h = h /\ u.r < m.r /\ m.r < v.r /\ m.b # u.b

\* Where the WAL is replayed the validator finds its lock again: it keeps the
\* lock rule across crashes, and computes the votes it had signed again, so
\* that the key never refuses one ("Otherwise, we may not recompute the same
\* vote to sign, and the privValidator will refuse to sign anything").
LockSurvives == \A h \in (1 .. MaxHeight + 1) \ skipped : KeepsLock(h)
VotesRecomputed == \A v \in refused : v.s # stepPropose => v.h \in skipped

\* docs/tendermint-core/running-in-production.md: the WAL "is used to ensure
\* we can recover from a crash at any point in the consensus state machine".
LockAlwaysSurvives == \A h \in 1 .. MaxHeight + 1 : KeepsLock(h)

=============================================================================
