--------------------------- MODULE ConsensusState ---------------------------
(***************************************************************************)
(* One Tendermint validator in one height: the round state that            *)
(* receiveRoutine alone updates, its handlers for proposals, block parts,  *)
(* votes, timeouts and transactions, and the ticker that times it out.     *)
(*                                                                         *)
(* A handler runs to its end under cs.mtx, so it is one step; the enter    *)
(* functions it calls are operators from a state of the validator to the   *)
(* next.  Of a vote set the code reads only whether it has votes of more   *)
(* than two thirds of the power, and for what; a vote that is added leaves *)
(* the set in any state it can grow to, so the votes of the others, of     *)
(* the validator itself and conflicting ones need not be told apart.       *)
(***************************************************************************)
EXTENDS LockRule, FiniteSets

CONSTANTS
  Invalid,        \* blocks that ValidateBlock rejects
  Garbled,        \* invalid blocks that cannot be decoded, or are too large
  Turns,          \* possible sets of rounds in which this validator is the proposer
  MyBlock,        \* what createProposalBlock makes
  WaitForTxs,     \* values of config.WaitForTxs() /\ ~needProofBlock(height)
  EmptyInterval,  \* config.CreateEmptyBlocksInterval > 0
  MaxTocks        \* bound: timeouts sent to the validator and not yet handled

ASSUME InputsAssumption ==
  /\ Garbled \subseteq Invalid /\ Invalid \subseteq Blocks
  /\ Turns \subseteq SUBSET Rounds /\ MyBlock \in Blocks \ Invalid
  /\ WaitForTxs \subseteq BOOLEAN /\ EmptyInterval \in BOOLEAN /\ MaxTocks \in Nat

\* RoundStepType
NewHeight == 1
NewRound == 2
Propose == 3
Prevote == 4
PrevoteWait == 5
Precommit == 6
PrecommitWait == 7   \* the step of a timeout, never of the state
Commit == 8

\* What a VoteSet answers: no two thirds, two thirds of any votes, or two
\* thirds for one value.
Few == "few"
Any == "any"
VoteSet == Values \cup {Few, Any}

ASSUME AnswersAssumption == Few \notin Values /\ Any \notin Values

Grown(v) == IF v = Few THEN VoteSet \ Invalid
            ELSE IF v = Any THEN (Values \ Invalid) \cup {Any} ELSE {v}

\* With less than a third of the power faulty: once a block is committed, in
\* whatever round, every polka from that round on is for it (theorem
\* SettledTheorem of ConsensusStateProofs).
Consistent(prevotes, precommits) ==
  \A r, q \in Rounds : precommits[r] \in Blocks =>
    /\ precommits[q] \in Blocks => precommits[q] = precommits[r]
    /\ q >= r /\ prevotes[q] \in Values => prevotes[q] = precommits[r]

\* Nobody is locked in round 0: a block gets a polka there only after the
\* proposer, who may be this validator, has signed a proposal.
Proposed(s, r, v) == r = 0 /\ 0 \in s.myRounds /\ v \in Blocks => s.mine[0] # None

VARIABLE cs

NewPartSetFromHeader(b) == [of |-> b, full |-> FALSE]
HasHeader(parts, b) == parts # None /\ parts.of = b

ASSUME NilAssumption == None \notin [of : Blocks, full : BOOLEAN]

\* updateToState and scheduleRound0: a new height.
Init ==
  \E wait \in WaitForTxs, turns \in Turns :
  cs = [waitForTxs |-> wait, myRounds |-> turns, round |-> 0, step |-> NewHeight, hvsRound |-> 0,
        proposal |-> None, block |-> None, parts |-> None,
        lockedRound |-> -1, lockedBlock |-> None, lockedParts |-> None,
        validRound |-> -1, validBlock |-> None, validParts |-> None,
        prevotes |-> [r \in Rounds |-> Few], precommits |-> [r \in Rounds |-> Few],
        commitRound |-> -1, triggered |-> FALSE, decided |-> None,
        failed |-> FALSE,
        \* what was signed
        pv |-> [r \in Rounds |-> None], pc |-> [r \in Rounds |-> None],
        mine |-> [r \in Rounds |-> None],
        \* the ticker's timeoutInfo, whether its timer runs, and what it sent
        ti |-> [round |-> 0, step |-> NewHeight], armed |-> TRUE, tocks |-> {}]

Panic(s) == [s EXCEPT !.failed = TRUE]

(***************************************************************************)
(* The ticker keeps one timer; a timeout for a later round or step         *)
(* replaces it, any other is ignored.                                      *)
(***************************************************************************)
\* Mutant of ScheduleTimeout: it forgets the step that it replaced.
ScheduleAny(s, r, step) ==
  IF r < s.ti.round THEN s
  ELSE [s EXCEPT !.ti = [round |-> r, step |-> step], !.armed = TRUE]

ScheduleTimeout(s, r, step) ==
  IF r < s.ti.round \/ (r = s.ti.round /\ step <= s.ti.step)
  THEN s
  ELSE [s EXCEPT !.ti = [round |-> r, step |-> step], !.armed = TRUE]

(***************************************************************************)
(* signAddVote: the vote is for cs.Round, whatever round was entered.  It  *)
(* comes back through the internal queue as one more vote.                 *)
(***************************************************************************)
SignPrevote(s, x) == [s EXCEPT !.pv[s.round] = x]
SignPrecommit(s, x) == [s EXCEPT !.pc[s.round] = x]

isProposalComplete(s) ==
  /\ s.proposal # None /\ s.block # None
  /\ s.proposal.pol >= 0 => s.prevotes[s.proposal.pol] \in Values

Unlock(s) == [s EXCEPT !.lockedRound = -1, !.lockedBlock = None, !.lockedParts = None]

SetValid(s, r) ==
  [s EXCEPT !.validRound = r, !.validBlock = s.block, !.validParts = s.parts]

\* Mutant of doPrevote: a complete proposal is prevoted in spite of the lock.
doPrevoteProposal(s) ==
  IF s.block # None /\ s.block \notin Invalid THEN SignPrevote(s, s.block)
  ELSE IF s.lockedBlock # None THEN SignPrevote(s, s.lockedBlock)
  ELSE SignPrevote(s, Nil)

doPrevote(s) ==
  IF s.lockedBlock # None THEN SignPrevote(s, s.lockedBlock)
  ELSE IF s.block = None \/ s.block \in Invalid THEN SignPrevote(s, Nil)
  ELSE SignPrevote(s, s.block)

enterPrevote(s, r) ==
  IF r < s.round \/ (r = s.round /\ Prevote <= s.step)
  THEN s
  ELSE [doPrevote(s) EXCEPT !.round = r, !.step = Prevote]

enterPrevoteWait(s, r) ==
  IF r < s.round \/ (r = s.round /\ PrevoteWait <= s.step) THEN s
  ELSE IF s.prevotes[r] = Few THEN Panic(s)
  ELSE [ScheduleTimeout(s, r, PrevoteWait) EXCEPT !.round = r, !.step = PrevoteWait]

\* HeightVoteSet.POLInfo: the last round, of those tracked, with a polka.
POLRound(s) ==
  LET polkas == {r \in Rounds : r <= s.hvsRound /\ s.prevotes[r] \in Values}
  IN IF polkas = {} THEN -1 ELSE CHOOSE r \in polkas : \A q \in polkas : q <= r

\* Mutant of Relock: the lock keeps its round.
RelockKeepsRound(s, r) == s

\* A polka for the locked block renews the lock.
Relock(s, r) == [s EXCEPT !.lockedRound = r]

\* The vote of enterPrecommit, and the lock.
doPrecommit(s, r) ==
  LET maj == s.prevotes[r] IN
  CASE maj \notin Values -> SignPrecommit(s, Nil)
    [] maj \in Values /\ POLRound(s) < r -> Panic(s)
    [] maj = Nil /\ POLRound(s) >= r -> SignPrecommit(Unlock(s), Nil)
    [] maj \in Blocks /\ POLRound(s) >= r ->
         IF s.lockedBlock = maj
         THEN SignPrecommit(Relock(s, r), maj)
         ELSE IF s.block = maj
         THEN IF s.block \in Invalid THEN Panic(s)
              ELSE SignPrecommit([s EXCEPT !.lockedRound = r, !.lockedBlock = s.block,
                                           !.lockedParts = s.parts], maj)
         ELSE LET fetch == IF HasHeader(s.parts, maj) THEN s
                           ELSE [s EXCEPT !.block = None, !.parts = NewPartSetFromHeader(maj)]
              IN SignPrecommit(Unlock(fetch), Nil)

enterPrecommit(s, r) ==
  IF r < s.round \/ (r = s.round /\ Precommit <= s.step)
  THEN s
  ELSE [doPrecommit(s, r) EXCEPT !.round = r, !.step = Precommit]

enterPrecommitWait(s, r) ==
  IF r < s.round \/ (r = s.round /\ s.triggered) THEN s
  ELSE IF s.precommits[r] = Few THEN Panic(s)
  ELSE [ScheduleTimeout(s, r, PrecommitWait) EXCEPT !.triggered = TRUE]

\* The proposal is for the valid block, if there is one.
decideProposal(s, r) ==
  IF r \notin s.myRounds THEN s
  ELSE [s EXCEPT !.mine[r] =
          IF s.validBlock # None THEN [block |-> s.validBlock, pol |-> s.validRound]
          ELSE [block |-> MyBlock, pol |-> s.validRound]]

enterPropose(s, r) ==
  IF r < s.round \/ (r = s.round /\ Propose <= s.step) THEN s
  ELSE LET done == [decideProposal(ScheduleTimeout(s, r, Propose), r)
                      EXCEPT !.round = r, !.step = Propose]
       IN IF isProposalComplete(done) THEN enterPrevote(done, r) ELSE done

enterNewRound(s, r) ==
  IF r < s.round \/ (r = s.round /\ s.step # NewHeight) THEN s
  ELSE LET kept == IF r = 0 THEN s
                   ELSE [s EXCEPT !.proposal = None, !.block = None, !.parts = None]
           entered == [kept EXCEPT !.round = r, !.step = NewRound,
                                   !.hvsRound = r + 1, !.triggered = FALSE]
       IN IF ~(s.waitForTxs /\ r = 0) THEN enterPropose(entered, r)
          ELSE IF EmptyInterval THEN ScheduleTimeout(entered, r, NewRound)
          ELSE entered

\* finalizeCommit, up to the next height.
finalizeCommit(s) ==
  IF s.step # Commit THEN s
  ELSE IF ~HasHeader(s.parts, s.precommits[s.commitRound]) \/ s.block \in Invalid
  THEN Panic(s)
  ELSE [s EXCEPT !.decided = s.block]

tryFinalizeCommit(s) ==
  LET maj == s.precommits[s.commitRound] IN
  IF maj \in Blocks /\ s.block = maj THEN finalizeCommit(s) ELSE s

\* Mutant of enterCommit: the locked block is moved without its parts.
enterCommitBlockOnly(s, r) ==
  IF Commit <= s.step THEN s
  ELSE IF s.precommits[r] \notin Values THEN Panic(s)
  ELSE LET maj == s.precommits[r]
           moved == IF s.lockedBlock = maj THEN [s EXCEPT !.block = s.lockedBlock] ELSE s
           fetch == IF moved.block = maj \/ HasHeader(moved.parts, maj) THEN moved
                    ELSE [moved EXCEPT !.block = None, !.parts = NewPartSetFromHeader(maj)]
       IN tryFinalizeCommit([fetch EXCEPT !.step = Commit, !.commitRound = r])

enterCommit(s, r) ==
  IF Commit <= s.step THEN s
  ELSE IF s.precommits[r] \notin Values THEN Panic(s)
  ELSE LET maj == s.precommits[r]
           moved == IF s.lockedBlock = maj
                    THEN [s EXCEPT !.block = s.lockedBlock, !.parts = s.lockedParts] ELSE s
           fetch == IF moved.block = maj \/ HasHeader(moved.parts, maj) THEN moved
                    ELSE [moved EXCEPT !.block = None, !.parts = NewPartSetFromHeader(maj)]
       IN tryFinalizeCommit([fetch EXCEPT !.step = Commit, !.commitRound = r])

(***************************************************************************)
(* addVote, after the vote was added to the set of its round.              *)
(***************************************************************************)
\* A polka releases an older lock on something else.
unlockByPolka(s, r) ==
  LET maj == s.prevotes[r] IN
  IF /\ maj \in Values
     /\ s.lockedBlock # None /\ s.lockedBlock # maj
     /\ s.lockedRound < r /\ r <= s.round
  THEN Unlock(s) ELSE s

\* Mutant of validByPolka: the block that is not the polka's is kept.
validByPolkaKeepsBlock(s, r) ==
  LET maj == s.prevotes[r] IN
  IF ~(maj \in Blocks /\ s.validRound < r /\ r = s.round) THEN s
  ELSE LET known == IF s.block = maj THEN SetValid(s, r) ELSE s
       IN IF HasHeader(known.parts, maj) THEN known
          ELSE [known EXCEPT !.parts = NewPartSetFromHeader(maj)]

\* A polka of the current round makes the proposal valid, or shows which
\* block to wait for.
validByPolka(s, r) ==
  LET maj == s.prevotes[r] IN
  IF ~(maj \in Blocks /\ s.validRound < r /\ r = s.round) THEN s
  ELSE LET known == IF s.block = maj THEN SetValid(s, r) ELSE [s EXCEPT !.block = None]
       IN IF HasHeader(known.parts, maj) THEN known
          ELSE [known EXCEPT !.parts = NewPartSetFromHeader(maj)]

addPrevote(s, r) ==
  LET maj == s.prevotes[r]
      a == validByPolka(unlockByPolka(s, r), r)
  IN CASE a.round < r /\ maj # Few -> enterNewRound(a, r)
       [] a.round = r /\ Prevote <= a.step ->
            IF maj \in Values /\ (isProposalComplete(a) \/ maj = Nil) THEN enterPrecommit(a, r)
            ELSE IF maj # Few THEN enterPrevoteWait(a, r) ELSE a
       [] a.round > r /\ a.proposal # None /\ a.proposal.pol = r /\ isProposalComplete(a) ->
            enterPrevote(a, a.round)
       [] OTHER -> a

addPrecommit(s, r) ==
  LET maj == s.precommits[r] IN
  IF maj \in Values
  THEN LET a == enterPrecommit(enterNewRound(s, r), r)
       IN IF maj = Nil THEN enterPrecommitWait(a, r) ELSE enterCommit(a, r)
  ELSE IF s.round <= r /\ maj # Few THEN enterPrecommitWait(enterNewRound(s, r), r)
  ELSE s

(***************************************************************************)
(* The steps of receiveRoutine, until the height is decided.               *)
(***************************************************************************)
Running == ~cs.failed /\ cs.decided = None

ReceivePrevote ==
  /\ Running
  /\ \E r \in Rounds : \E v \in Grown(cs.prevotes[r]) :
       /\ Consistent([cs.prevotes EXCEPT ![r] = v], cs.precommits) /\ Proposed(cs, r, v)
       /\ cs' = addPrevote([cs EXCEPT !.prevotes[r] = v], r)

ReceivePrecommit ==
  /\ Running
  /\ \E r \in Rounds : \E v \in Grown(cs.precommits[r]) :
       /\ Consistent(cs.prevotes, [cs.precommits EXCEPT ![r] = v])
       /\ cs' = addPrecommit([cs EXCEPT !.precommits[r] = v], r)

\* What the proposer of the round may have signed.
Proposals(s) ==
  IF s.round \in s.myRounds THEN {s.mine[s.round]} \ {None}
  ELSE [block : Blocks, pol : -1 .. s.round - 1]

\* defaultSetProposal
SetProposal ==
  /\ Running /\ cs.proposal = None
  /\ \E p \in Proposals(cs) :
       cs' = [cs EXCEPT !.proposal = p,
                        !.parts = IF @ = None THEN NewPartSetFromHeader(p.block) ELSE @]

\* Mutant of validByParts: a polka for another block counts.
validByAnyParts(s) ==
  LET maj == s.prevotes[s.round] IN
  IF maj \in Blocks /\ s.validRound < s.round THEN SetValid(s, s.round) ELSE s

\* The completed block had its polka before.
validByParts(s) ==
  LET maj == s.prevotes[s.round] IN
  IF maj \in Blocks /\ s.validRound < s.round /\ s.block = maj THEN SetValid(s, s.round) ELSE s

\* addProposalBlockPart, the last part of the block
AddProposalBlockPart ==
  /\ Running /\ cs.parts # None /\ ~cs.parts.full
  /\ LET b == cs.parts.of
         maj == cs.prevotes[cs.round]
         full == [cs EXCEPT !.parts.full = TRUE]
         valid == validByParts([full EXCEPT !.block = b])
     IN cs' = IF b \in Garbled THEN full
              ELSE IF valid.step <= Propose /\ isProposalComplete(valid)
              THEN LET voted == enterPrevote(valid, valid.round)
                   IN IF maj \in Values THEN enterPrecommit(voted, voted.round) ELSE voted
              ELSE IF valid.step = Commit THEN tryFinalizeCommit(valid)
              ELSE valid

\* timeoutRoutine: the timer ends and a goroutine sends it to the validator.
Tick ==
  /\ Running /\ cs.armed /\ Cardinality(cs.tocks) < MaxTocks
  /\ cs' = [cs EXCEPT !.armed = FALSE, !.tocks = @ \cup {cs.ti}]

\* The last round of the model ends here.
handleTimeout(t) ==
  /\ Running
  /\ ~(t.step = PrecommitWait /\ t.round = MaxRound)
  /\ LET s == [cs EXCEPT !.tocks = @ \ {t}]
     IN cs' = IF t.round < s.round \/ (t.round = s.round /\ t.step < s.step) THEN s
              ELSE CASE t.step = NewHeight -> enterNewRound(s, 0)
                     [] t.step = NewRound -> enterPropose(s, 0)
                     [] t.step = Propose -> enterPrevote(s, t.round)
                     [] t.step = PrevoteWait -> enterPrecommit(s, t.round)
                     [] t.step = PrecommitWait ->
                          enterNewRound(enterPrecommit(s, t.round), t.round + 1)

HandleTimeout == \E t \in cs.tocks : handleTimeout(t)

handleTxsAvailable ==
  /\ Running /\ cs.waitForTxs /\ cs.round = 0
  /\ \/ cs.step = NewHeight /\ cs' = ScheduleTimeout(cs, 0, NewRound)
     \/ cs.step = NewRound /\ cs' = enterPropose(cs, 0)

Done == ~Running /\ UNCHANGED cs

Next ==
  \/ ReceivePrevote \/ ReceivePrecommit \/ SetProposal \/ AddProposalBlockPart
  \/ Tick \/ HandleTimeout \/ handleTxsAvailable \/ Done

Spec == Init /\ [][Next]_cs

(***************************************************************************)
(* Properties.                                                             *)
(***************************************************************************)
PartSets == [of : Blocks, full : BOOLEAN]
Steps == {NewHeight, NewRound, Propose, Prevote, PrevoteWait, Precommit, Commit}
Timeouts == [round : Rounds, step : (Steps \ {Prevote, Precommit, Commit}) \cup {PrecommitWait}]
ProposalMsgs == [block : Blocks, pol : -1 .. MaxRound - 1]

\* The fields of the round state have their types.
TypeOK ==
  /\ cs.round \in Rounds /\ cs.step \in Steps /\ cs.hvsRound \in 0 .. MaxRound + 1
  /\ cs.proposal \in ProposalMsgs \cup {None}
  /\ cs.mine \in [Rounds -> ProposalMsgs \cup {None}]
  /\ {cs.block, cs.lockedBlock, cs.validBlock, cs.decided} \subseteq Blocks \cup {None}
  /\ {cs.parts, cs.lockedParts, cs.validParts} \subseteq PartSets \cup {None}
  /\ {cs.lockedRound, cs.validRound, cs.commitRound} \subseteq Rounds \cup {-1}
  /\ cs.prevotes \in [Rounds -> VoteSet] /\ cs.precommits \in [Rounds -> VoteSet]
  /\ cs.pv \in Ballots /\ cs.pc \in Ballots
  /\ cs.triggered \in BOOLEAN /\ cs.failed \in BOOLEAN /\ cs.armed \in BOOLEAN
  /\ cs.ti \in Timeouts /\ cs.tocks \subseteq Timeouts

\* No order of votes, parts, proposals and timeouts makes a handler panic, so
\* receiveRoutine never ends in CONSENSUS FAILURE.
NoConsensusFailure == ~cs.failed

\* What a validator sees of the polkas.
PolkasSeen(s) == {t \in Rounds \X Values : s.prevotes[t[1]] = t[2]}

\* Every vote the validator signs is one that LockRule allows it, whatever
\* handlers ran before: it implements the validators of Agreement.
KeepsLockRule ==
  [][\A r \in Rounds :
       /\ cs'.pv[r] # cs.pv[r] =>
            MayPrevote(cs.pv, cs.pc, PolkasSeen(cs'), r, cs'.pv[r])
       /\ cs'.pc[r] # cs.pc[r] =>
            MayPrecommit(cs'.pv, cs.pc, PolkasSeen(cs'), r, cs'.pc[r])]_cs

\* A lock is on the block of the latest precommit for a block, and its round
\* is that precommit's: relocking moves it.
LockIsLastPrecommit ==
  cs.lockedBlock # None =>
    /\ cs.pc[cs.lockedRound] = cs.lockedBlock
    /\ \A r \in Rounds : r > cs.lockedRound => cs.pc[r] \in {Nil, None}

\* The state has its types, and ProposalBlock is there exactly when ProposalBlockParts, of the same block,
\* is complete; no part would be added to a complete set, so a block lost here
\* would never come back.  The locked and the valid block have all their parts.
PartsMatchBlock ==
  /\ TypeOK
  /\ cs.block # None => cs.parts = [of |-> cs.block, full |-> TRUE]
  /\ cs.parts # None /\ cs.parts.full /\ cs.parts.of \notin Garbled
       => cs.block = cs.parts.of
  /\ cs.lockedBlock # None => cs.lockedParts = [of |-> cs.lockedBlock, full |-> TRUE]
  /\ cs.validBlock # None => cs.validParts = [of |-> cs.validBlock, full |-> TRUE]

\* The valid block has a polka in the valid round, so the proof-of-lock round
\* of every proposal the validator signs is an earlier one with that polka.
ProposalJustified ==
  /\ cs.validBlock # None => cs.prevotes[cs.validRound] = cs.validBlock
  /\ \A r \in Rounds : cs.mine[r] # None /\ cs.mine[r].pol >= 0 =>
       cs.mine[r].pol < r /\ cs.prevotes[cs.mine[r].pol] = cs.mine[r].block

\* A validator that waits has a timeout on its way that ends the wait: the
\* ticker holds one timer, ignores timeouts and replaces others, yet never the
\* last one that matters.
WaitIsTimed ==
  LET coming == cs.tocks \cup (IF cs.armed THEN {cs.ti} ELSE {})
      Timed(steps) == \E t \in coming : t.round = cs.round /\ t.step \in steps
  IN Running =>
       /\ cs.step = NewHeight => Timed({NewHeight, NewRound})
       /\ cs.step = NewRound /\ EmptyInterval => Timed({NewRound, PrecommitWait})
       /\ cs.step \in {Propose, PrevoteWait} => Timed(cs.step .. PrecommitWait)
       /\ cs.triggered /\ cs.step # Commit => Timed({PrecommitWait})

=============================================================================
