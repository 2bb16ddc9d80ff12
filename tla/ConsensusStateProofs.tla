------------------------ MODULE ConsensusStateProofs ------------------------
(***************************************************************************)
(* Theorems about one Tendermint validator in one height, for any number   *)
(* of rounds and blocks, any proposer schedule and any backlog of          *)
(* timeouts.                                                               *)
(*                                                                         *)
(* The handlers are built from the enter functions, which take a round     *)
(* state to the next, so the invariant is stated of a round state s and    *)
(* each of these functions is shown to keep it.  The last part composes    *)
(* validators that vote in this way (Agreement).                           *)
(***************************************************************************)
EXTENDS ConsensusState, Agreement, WellFoundedInduction, TLAPS

(***************************************************************************)
(* The inductive invariant.                                                *)
(***************************************************************************)
Fields ==
  {"waitForTxs", "myRounds", "round", "step", "hvsRound", "proposal", "block", "parts",
   "lockedRound", "lockedBlock", "lockedParts", "validRound", "validBlock", "validParts",
   "prevotes", "precommits", "commitRound", "triggered", "decided", "failed",
   "pv", "pc", "mine", "ti", "armed", "tocks"}

\* What TypeOK says of cs.
Typed(s) ==
  /\ DOMAIN s = Fields
  /\ s.waitForTxs \in BOOLEAN /\ s.myRounds \subseteq Rounds
  /\ s.round \in Rounds /\ s.step \in Steps /\ s.hvsRound \in 0 .. MaxRound + 1
  /\ s.proposal \in ProposalMsgs \cup {None}
  /\ s.mine \in [Rounds -> ProposalMsgs \cup {None}]
  /\ s.block \in Blocks \cup {None} /\ s.parts \in PartSets \cup {None}
  /\ s.lockedBlock \in Blocks \cup {None} /\ s.lockedParts \in PartSets \cup {None}
  /\ s.validBlock \in Blocks \cup {None} /\ s.validParts \in PartSets \cup {None}
  /\ s.decided \in Blocks \cup {None}
  /\ s.lockedRound \in Rounds \cup {-1} /\ s.validRound \in Rounds \cup {-1}
  /\ s.commitRound \in Rounds \cup {-1}
  /\ s.prevotes \in [Rounds -> VoteSet] /\ s.precommits \in [Rounds -> VoteSet]
  /\ s.pv \in Ballots /\ s.pc \in Ballots
  /\ s.triggered \in BOOLEAN /\ s.failed \in BOOLEAN /\ s.armed \in BOOLEAN
  /\ s.ti \in Timeouts /\ s.tocks \subseteq Timeouts

\* The round state did not panic and is one in which nothing will: votes of
\* two thirds are for blocks that are valid, the vote sets of the current
\* round are tracked, and only round 0 waits before its proposal.
Sane(s) ==
  /\ ~s.failed
  /\ \A r \in Rounds : s.prevotes[r] \notin Invalid /\ s.precommits[r] \notin Invalid
  /\ s.round <= s.hvsRound
  /\ s.step = Commit => s.commitRound \in Rounds
  /\ s.step < Propose => s.round = 0

\* The blocks and their parts (PartsMatchBlock).
PartsMatch(s) ==
  /\ s.block # None => s.parts = [of |-> s.block, full |-> TRUE]
  /\ s.parts # None /\ s.parts.full /\ s.parts.of \notin Garbled => s.block = s.parts.of
  /\ s.lockedBlock # None => s.lockedParts = [of |-> s.lockedBlock, full |-> TRUE]
  /\ s.validBlock # None => s.validParts = [of |-> s.validBlock, full |-> TRUE]

\* Nothing was signed beyond the current round and step.
SignedSoFar(s) ==
  /\ NothingAfter(s.pv, s.pc, s.round)
  /\ s.step < Prevote => s.pv[s.round] = None
  /\ s.step < Precommit => s.pc[s.round] = None

\* A polka for something else followed the precommit of round q.
Outvoted(s, q) ==
  \E p \in Rounds : p > q /\ p <= s.round /\ s.prevotes[p] \in Values /\ s.prevotes[p] # s.pc[q]

\* The lock is the last precommit for a block, and every other block that was
\* precommitted has been outvoted since.
LockKept(s) ==
  /\ s.lockedBlock # None =>
       /\ s.lockedRound \in Rounds
       /\ s.pc[s.lockedRound] = s.lockedBlock
       /\ \A r \in Rounds : r > s.lockedRound => s.pc[r] \in {Nil, None}
  /\ \A q \in Rounds : s.pc[q] \in Blocks => s.pc[q] = s.lockedBlock \/ Outvoted(s, q)

\* The valid block has its polka, and so had what was proposed.
ValidKept(s) ==
  /\ s.validBlock = None => s.validRound = -1
  /\ s.validBlock # None =>
       /\ s.validRound \in Rounds /\ s.validRound <= s.round
       /\ s.prevotes[s.validRound] = s.validBlock
  /\ \A r \in Rounds : s.mine[r] # None /\ s.mine[r].pol >= 0 =>
       s.mine[r].pol < r /\ s.prevotes[s.mine[r].pol] = s.mine[r].block
  /\ s.step < Propose => s.mine[0] = None
  /\ 0 \in s.myRounds /\ s.mine[0] = None => s.prevotes[0] \notin Blocks

\* The timeouts that the validator has still to handle, and those it is past.
Coming(s) == s.tocks \cup (IF s.armed THEN {s.ti} ELSE {})
Past(s, t) == t.round < s.round \/ (t.round = s.round /\ t.step < s.step)

\* A timeout was scheduled by the round it is for, and by a step that it ends
\* or an earlier one.
Scheduled(s, t) ==
  /\ t.round <= s.round
  /\ t.step \in {NewHeight, NewRound} => t.round = 0
  /\ t.round = s.round /\ t.step \in {Propose, PrevoteWait} => t.step <= s.step
  /\ t.round = s.round /\ t.step = PrecommitWait => s.step # NewHeight

\* The ticker's timeout is the last one that matters: it is on its way, or is
\* the timeout x that is being handled, or the validator is past it.
TimerCore(s, x) ==
  /\ Scheduled(s, s.ti) /\ \A t \in s.tocks : Scheduled(s, t)
  /\ s.ti \in Coming(s) \/ s.ti = x \/ Past(s, s.ti)
  /\ s.triggered => s.ti.round = s.round /\ s.ti.step = PrecommitWait

\* A step that waits has scheduled the timeout that ends it, or the ticker holds
\* a later one.
TimerKept(s, x) ==
  /\ TimerCore(s, x)
  /\ s.step = NewHeight => s.ti.round = s.round
  /\ s.step = NewRound /\ EmptyInterval => s.ti.round = s.round /\ s.ti.step >= NewRound
  /\ s.step \in {Propose, PrevoteWait} => s.ti.round = s.round /\ s.ti.step >= s.step

Inv(s) ==
  Typed(s) /\ Sane(s) /\ PartsMatch(s) /\ SignedSoFar(s) /\ LockKept(s) /\ ValidKept(s)

\* Between two handlers no timeout is being handled.
NoTimeout == [round |-> -1, step |-> NewHeight]

CSInv == Inv(cs) /\ TimerKept(cs, NoTimeout)

(***************************************************************************)
(* Votes.  A handler may sign a prevote and then a precommit; what it      *)
(* signed is judged against the state it started from.                     *)
(***************************************************************************)
\* The votes that t has and s has not were allowed.
VotesOK(s, t) ==
  \A r \in Rounds :
    /\ t.pv[r] # s.pv[r] => MayPrevote(s.pv, s.pc, PolkasSeen(t), r, t.pv[r])
    /\ t.pc[r] # s.pc[r] => MayPrecommit(t.pv, s.pc, PolkasSeen(t), r, t.pc[r])

\* Two parts of a handler sign correctly if each does and no prevote follows a
\* precommit.
LEMMA VotesCompose ==
  ASSUME NEW s, NEW t, NEW u, VotesOK(s, t), VotesOK(t, u),
         t.prevotes = u.prevotes, s.pc = t.pc \/ t.pv = u.pv
  PROVE  VotesOK(s, u)
  <1>0. PolkasSeen(t) = PolkasSeen(u)
    BY DEF PolkasSeen
  <1>1. \A r \in Rounds : /\ t.pv[r] # s.pv[r] => s.pv[r] = None
                          /\ t.pc[r] # s.pc[r] => s.pc[r] = None
    BY DEF VotesOK, MayPrevote, MayPrecommit
  <1>2. ASSUME NEW r \in Rounds, u.pv[r] # s.pv[r]
        PROVE  MayPrevote(s.pv, s.pc, PolkasSeen(u), r, u.pv[r])
    <2>1. CASE t.pv[r] = u.pv[r]
      BY <1>0, <1>2, <2>1 DEF VotesOK
    <2>2. CASE t.pv[r] # u.pv[r]
      <3>1. MayPrevote(t.pv, t.pc, PolkasSeen(u), r, u.pv[r])
        BY <2>2 DEF VotesOK
      <3>2. s.pv[r] = None /\ s.pc[r] = None /\ NothingAfter(s.pv, s.pc, r)
        BY <1>1, <3>1 DEF MayPrevote, NothingAfter
      <3>3. \A q \in Rounds : s.pc[q] \in Blocks => t.pc[q] = s.pc[q]
        BY <1>1, ValuesAssumption
      <3> QED  BY <3>1, <3>2, <3>3 DEF MayPrevote, Released
    <2> QED  BY <2>1, <2>2
  <1>3. ASSUME NEW r \in Rounds, u.pc[r] # s.pc[r]
        PROVE  MayPrecommit(u.pv, s.pc, PolkasSeen(u), r, u.pc[r])
    <2>1. CASE t.pc[r] = u.pc[r]
      <3>1. MayPrecommit(t.pv, s.pc, PolkasSeen(u), r, u.pc[r]) /\ t.pv = u.pv
        BY <1>0, <1>3, <2>1 DEF VotesOK
      <3> QED  BY <3>1
    <2>2. CASE t.pc[r] # u.pc[r]
      <3>1. MayPrecommit(u.pv, t.pc, PolkasSeen(u), r, u.pc[r])
        BY <2>2 DEF VotesOK
      <3> QED  BY <1>1, <3>1 DEF MayPrecommit, NothingAfter
    <2> QED  BY <2>1, <2>2
  <1> QED  BY <1>2, <1>3 DEF VotesOK

(***************************************************************************)
(* Frames: what a function leaves alone.                                   *)
(***************************************************************************)
Frame(s, t, changed) ==
  DOMAIN t = Fields /\ \A f \in Fields \ changed : t[f] = s[f]

\* Rounds and steps are integers.
LEMMA Numbers ==
  ASSUME NEW s, Typed(s)
  PROVE  /\ s.round \in Int /\ s.step \in Int /\ s.step \in 1 .. 8
         /\ \A r \in Rounds : r \in Int /\ r >= 0 /\ r <= MaxRound
         /\ MaxRound \in Int
         /\ s.ti.round \in Rounds /\ s.ti.step \in Int /\ s.ti.step \in 1 .. 7
         /\ \A t \in s.tocks : t.round \in Rounds /\ t.step \in Int /\ t.step \in 1 .. 7
  BY MaxRoundAssumption DEF Typed, Rounds, Steps, Timeouts, NewHeight, NewRound, Propose, Prevote,
         PrevoteWait, Precommit, PrecommitWait, Commit

(***************************************************************************)
(* The enter functions.                                                    *)
(***************************************************************************)

\* A prevote is signed for the current round.
LEMMA enterPrevoteFrame ==
  ASSUME NEW s, Typed(s), NEW r \in Rounds, r = s.round, s.step < Prevote,
         NEW t, t = enterPrevote(s, r)
  PROVE  /\ Frame(s, t, {"pv", "step"}) /\ t.step = Prevote
         /\ t.pv = [s.pv EXCEPT ![s.round] =
                      IF s.lockedBlock # None THEN s.lockedBlock
                      ELSE IF s.block = None \/ s.block \in Invalid THEN Nil ELSE s.block]
  <1> DEFINE v == IF s.lockedBlock # None THEN s.lockedBlock
                  ELSE IF s.block = None \/ s.block \in Invalid THEN Nil ELSE s.block
  <1>1. doPrevote(s) = [s EXCEPT !.pv[s.round] = v]
    BY DEF doPrevote, SignPrevote
  <1> HIDE DEF v
  <1>2. t = [[s EXCEPT !.pv[s.round] = v] EXCEPT !.round = s.round, !.step = Prevote]
    BY <1>1, Numbers DEF enterPrevote, Prevote
  <1>3. Frame(s, t, {"pv", "step"}) /\ t.step = Prevote /\ t.pv = [s.pv EXCEPT ![s.round] = v]
    BY <1>2 DEF Frame, Fields, Typed
  <1> QED  BY <1>3 DEF v

\* Prevoting in the current round: the validator signs for its lock, or has
\* none and then every block it precommitted was outvoted.
LEMMA enterPrevoteKeeps ==
  ASSUME NEW s, Inv(s), NEW x, TimerKept(s, x), NEW r \in Rounds, r <= s.round,
         NEW t, t = enterPrevote(s, r)
  PROVE  /\ Inv(t) /\ TimerKept(t, x) /\ VotesOK(s, t)
         /\ t.round = s.round /\ s.step <= t.step
         /\ r = s.round => Prevote <= t.step
         /\ t.pc = s.pc /\ t.prevotes = s.prevotes /\ t.precommits = s.precommits
  <1>0. Typed(s) /\ Sane(s) /\ PartsMatch(s) /\ SignedSoFar(s) /\ LockKept(s) /\ ValidKept(s)
    BY DEF Inv
  <1>1. s.round \in Int /\ r \in Int /\ s.step \in Int
    BY <1>0, Numbers
  <1>2. CASE ~(r = s.round /\ s.step < Prevote)
    <2>1. t = s
      BY <1>1, <1>2 DEF enterPrevote, Prevote
    <2> QED  BY <1>1, <1>2, <2>1 DEF VotesOK, Prevote
  <1>3. CASE r = s.round /\ s.step < Prevote
    <2> DEFINE v == IF s.lockedBlock # None THEN s.lockedBlock
                    ELSE IF s.block = None \/ s.block \in Invalid THEN Nil ELSE s.block
    <2>2. /\ DOMAIN t = Fields /\ \A f \in Fields \ {"pv", "step"} : t[f] = s[f]
          /\ t.pv = [s.pv EXCEPT ![s.round] = v] /\ t.step = Prevote
      BY <1>0, <1>3, enterPrevoteFrame DEF Frame
    <2>3. v \in Values
      BY <1>0 DEF Typed, Values
    <2>4. \A p \in Rounds : s.pc[p] \in Blocks /\ s.pc[p] # v => Outvoted(s, p)
      BY <1>0, ValuesAssumption DEF LockKept
    <2> HIDE DEF v
    <2>5. Typed(t)
      BY <1>0, <2>2, <2>3 DEF Typed, Fields, Ballots, Steps, Prevote
    <2>6. Sane(t) /\ PartsMatch(t) /\ LockKept(t)
      BY <1>0, <2>2 DEF Sane, PartsMatch, LockKept, Outvoted, Fields, Prevote, Commit, Propose
    <2>7. ValidKept(t)
      BY <1>0, <2>2 DEF ValidKept, Fields, Prevote, Propose
    <2>8. SignedSoFar(t)
      BY <1>0, <1>1, <1>3, <2>2
         DEF SignedSoFar, NothingAfter, Fields, Prevote, Precommit, Typed, Ballots
    <2>9. TimerKept(t, x)
      BY <1>0, <1>1, <1>3, <2>2
         DEF TimerKept, TimerCore, Scheduled, Coming, Past, Fields, Prevote, Propose, PrevoteWait,
            NewHeight, NewRound, PrecommitWait, Typed, Timeouts, Steps, Rounds
    <2>10. VotesOK(s, t)
      <3> SUFFICES ASSUME NEW q \in Rounds, t.pv[q] # s.pv[q]
                   PROVE  MayPrevote(s.pv, s.pc, PolkasSeen(t), q, t.pv[q])
        BY <2>2 DEF VotesOK, Fields
      <3>1. q = s.round /\ t.pv[q] = v
        BY <1>0, <2>2 DEF Typed, Ballots
      <3>2. s.pv[q] = None /\ s.pc[q] = None /\ NothingAfter(s.pv, s.pc, q)
        BY <1>0, <1>1, <1>3, <3>1 DEF SignedSoFar, Prevote, Precommit
      <3>3. ASSUME NEW p \in Rounds, s.pc[p] \in Blocks, s.pc[p] # v
            PROVE  Released(s.pc, PolkasSeen(t), p, q)
        BY <2>2, <2>4, <3>1, <3>3 DEF Outvoted, Released, PolkasSeen, Fields
      <3> QED  BY <3>1, <3>2, <3>3 DEF MayPrevote
    <2>11. t.round = s.round /\ t.pc = s.pc /\ t.prevotes = s.prevotes
           /\ t.precommits = s.precommits /\ s.step <= t.step /\ Prevote <= t.step
      BY <1>1, <1>3, <2>2 DEF Fields, Prevote
    <2> QED  BY <2>5, <2>6, <2>7, <2>8, <2>9, <2>10, <2>11 DEF Inv
  <1> QED  BY <1>2, <1>3

\* The last round with a polka is not before one that is tracked and has a
\* polka, so enterPrecommit's sanity check of POLInfo holds.
LEMMA POLRoundReaches ==
  ASSUME NEW s, Typed(s), NEW r \in Rounds, r <= s.hvsRound, s.prevotes[r] \in Values
  PROVE  ~(POLRound(s) < r) /\ POLRound(s) >= r
  <1> DEFINE polkas == {q \in Rounds : q <= s.hvsRound /\ s.prevotes[q] \in Values}
             gaps == {n \in Nat : \E q \in polkas : n = MaxRound - q}
  <1>0. MaxRound \in Int /\ \A q \in Rounds : q \in Int /\ q >= 0 /\ q <= MaxRound
    BY Numbers
  <1>1. r \in polkas
    OBVIOUS
  <1>2. gaps # {} /\ gaps \in SUBSET Nat
    <2>1. MaxRound - r \in gaps
      BY <1>0, <1>1
    <2> QED  BY <2>1
  <1>3. \E n \in gaps : \A m \in gaps : n <= m
    <2>1. IsWellFoundedOn(OpToRel(<, Nat), Nat)
      BY NatLessThanWellFounded
    <2> HIDE DEF gaps
    <2>2. PICK n \in gaps : \A m \in gaps : ~(<<m, n>> \in OpToRel(<, Nat))
      BY <1>2, <2>1, WFMin, Zenon
    <2>3. \A m \in gaps : ~(m < n)
      BY <1>2, <2>2, Zenon DEF OpToRel
    <2> QED  BY <1>2, <2>3, SMT
  <1>4. \E q \in polkas : \A p \in polkas : p <= q
    <2>1. PICK n \in gaps : \A m \in gaps : n <= m
      BY <1>3
    <2>2. PICK q \in polkas : n = MaxRound - q
      BY <2>1
    <2>3. ASSUME NEW p \in polkas PROVE p <= q
      <3>1. MaxRound - p \in gaps
        BY <1>0
      <3> QED  BY <1>0, <2>1, <2>2, <3>1
    <2> QED  BY <2>3
  <1>5. POLRound(s) = CHOOSE q \in polkas : \A p \in polkas : p <= q
    BY <1>1 DEF POLRound
  <1>6. POLRound(s) \in polkas /\ \A p \in polkas : p <= POLRound(s)
    BY <1>4, <1>5
  <1> QED  BY <1>0, <1>1, <1>6

\* The three ways in which a lock ends up after a precommit is signed.
Locks(s, t) ==
  /\ s.prevotes[s.round] \in Blocks /\ t.lockedRound = s.round
  /\ t.lockedBlock = s.prevotes[s.round]
  /\ \/ t.lockedBlock = s.lockedBlock /\ t.lockedParts = s.lockedParts
     \/ t.lockedBlock = s.block /\ t.lockedParts = s.parts
  /\ t.pc = [s.pc EXCEPT ![s.round] = t.lockedBlock]
  /\ t.block = s.block /\ t.parts = s.parts

KeepsLock(s, t) ==
  /\ t.lockedRound = s.lockedRound /\ t.lockedBlock = s.lockedBlock
  /\ t.lockedParts = s.lockedParts /\ t.block = s.block /\ t.parts = s.parts
  /\ t.pc = [s.pc EXCEPT ![s.round] = Nil]

Unlocks(s, t) ==
  /\ s.prevotes[s.round] \in Values /\ s.lockedBlock # s.prevotes[s.round]
  /\ t.lockedRound = -1 /\ t.lockedBlock = None /\ t.lockedParts = None
  /\ t.pc = [s.pc EXCEPT ![s.round] = Nil]
  /\ \/ t.block = s.block /\ t.parts = s.parts
     \/ /\ s.prevotes[s.round] \in Blocks /\ t.block = None
        /\ t.parts = NewPartSetFromHeader(s.prevotes[s.round])

\* A precommit is signed for the current round; nothing panics.
LEMMA enterPrecommitFrame ==
  ASSUME NEW s, Typed(s), Sane(s), NEW r \in Rounds, r = s.round, s.step < Precommit,
         NEW t, t = enterPrecommit(s, r)
  PROVE  /\ Frame(s, t, {"pc", "step", "lockedRound", "lockedBlock", "lockedParts",
                         "block", "parts"})
         /\ t.step = Precommit
         /\ Locks(s, t) \/ KeepsLock(s, t) \/ Unlocks(s, t)
  <1> DEFINE maj == s.prevotes[r]
             d == doPrecommit(s, r)
             F == {"pc", "lockedRound", "lockedBlock", "lockedParts", "block", "parts"}
  <1>1. maj \in Values => ~(POLRound(s) < r) /\ POLRound(s) >= r
    BY POLRoundReaches DEF Sane
  <1>2. maj \notin Invalid
    BY DEF Sane
  <1>3. DOMAIN s = Fields
    BY DEF Typed
  <1>4. Frame(s, d, F) /\ (Locks(s, d) \/ KeepsLock(s, d) \/ Unlocks(s, d))
    <2>1. CASE maj \notin Values
      <3>1. d = SignPrecommit(s, Nil)
        BY <2>1 DEF doPrecommit, Values
      <3>2. Frame(s, d, F) /\ KeepsLock(s, d)
        BY <1>3, <3>1 DEF SignPrecommit, Frame, Fields, KeepsLock
      <3> QED  BY <3>2
    <2>2. CASE maj = Nil
      <3>1. d = SignPrecommit(Unlock(s), Nil)
        BY <1>1, <2>2, ValuesAssumption DEF doPrecommit, Values
      <3>2. s.lockedBlock # maj
        BY <2>2, ValuesAssumption DEF Typed
      <3>3. /\ Frame(s, d, F) /\ d.lockedRound = -1 /\ d.lockedBlock = None
            /\ d.lockedParts = None /\ d.pc = [s.pc EXCEPT ![s.round] = Nil]
            /\ d.block = s.block /\ d.parts = s.parts
        BY <1>3, <3>1 DEF SignPrecommit, Unlock, Frame, Fields
      <3> QED  BY <2>2, <3>2, <3>3 DEF Unlocks, Values
    <2>3. CASE maj \in Blocks /\ s.lockedBlock = maj
      <3>1. d = SignPrecommit(Relock(s, r), maj)
        BY <1>1, <2>3, ValuesAssumption DEF doPrecommit, Values
      <3>2. /\ Frame(s, d, F) /\ d.lockedRound = s.round /\ d.lockedBlock = s.lockedBlock
            /\ d.lockedParts = s.lockedParts /\ d.pc = [s.pc EXCEPT ![s.round] = maj]
            /\ d.block = s.block /\ d.parts = s.parts
        BY <1>3, <3>1 DEF SignPrecommit, Relock, Frame, Fields
      <3> QED  BY <2>3, <3>2 DEF Locks
    <2>4. CASE maj \in Blocks /\ s.lockedBlock # maj /\ s.block = maj
      <3>1. d = SignPrecommit([s EXCEPT !.lockedRound = r, !.lockedBlock = s.block,
                                        !.lockedParts = s.parts], maj)
        BY <1>1, <1>2, <2>4, ValuesAssumption DEF doPrecommit, Values
      <3>2. /\ Frame(s, d, F) /\ d.lockedRound = s.round /\ d.lockedBlock = s.block
            /\ d.lockedParts = s.parts /\ d.pc = [s.pc EXCEPT ![s.round] = maj]
            /\ d.block = s.block /\ d.parts = s.parts
        BY <1>3, <3>1 DEF SignPrecommit, Frame, Fields
      <3> QED  BY <2>4, <3>2 DEF Locks
    <2>5. CASE maj \in Blocks /\ s.lockedBlock # maj /\ s.block # maj
      <3> DEFINE fetch == IF HasHeader(s.parts, maj) THEN s
                          ELSE [s EXCEPT !.block = None, !.parts = NewPartSetFromHeader(maj)]
      <3>1. d = SignPrecommit(Unlock(fetch), Nil)
        BY <1>1, <2>5, ValuesAssumption DEF doPrecommit, Values
      <3>2. /\ Frame(s, fetch, {"block", "parts"})
            /\ \/ fetch.block = s.block /\ fetch.parts = s.parts
               \/ fetch.block = None /\ fetch.parts = NewPartSetFromHeader(maj)
        BY <1>3 DEF Frame, Fields
      <3> HIDE DEF fetch
      <3>3. /\ Frame(fetch, d, F) /\ d.lockedRound = -1 /\ d.lockedBlock = None
            /\ d.lockedParts = None /\ d.pc = [fetch.pc EXCEPT ![fetch.round] = Nil]
            /\ d.block = fetch.block /\ d.parts = fetch.parts
        BY <3>1, <3>2 DEF SignPrecommit, Unlock, Frame, Fields
      <3>4. Frame(s, d, F) /\ fetch.pc = s.pc /\ fetch.round = s.round
        BY <3>2, <3>3 DEF Frame, Fields
      <3> QED  BY <2>5, <3>2, <3>3, <3>4 DEF Unlocks, Values
    <2> QED  BY <2>1, <2>2, <2>3, <2>4, <2>5 DEF Values
  <1>5. t = [d EXCEPT !.round = s.round, !.step = Precommit]
    BY Numbers DEF enterPrecommit, Precommit
  <1> HIDE DEF d
  <1>6. Frame(d, t, {"step"}) /\ t.step = Precommit
    BY <1>4, <1>5 DEF Frame, Fields
  <1>7. Frame(s, t, F \cup {"step"})
    BY <1>4, <1>6 DEF Frame, Fields
  <1>8. Locks(s, t) \/ KeepsLock(s, t) \/ Unlocks(s, t)
    BY <1>4, <1>6 DEF Frame, Fields, Locks, KeepsLock, Unlocks
  <1>9. F \cup {"step"} = {"pc", "step", "lockedRound", "lockedBlock", "lockedParts",
                           "block", "parts"}
    OBVIOUS
  <1> QED  BY <1>6, <1>7, <1>8, <1>9

\* Precommitting in the current round: the validator locks the block of a
\* polka, or signs nil and keeps its lock or, having seen a polka for something
\* else, gives it up.
LEMMA enterPrecommitKeeps ==
  ASSUME NEW s, Inv(s), NEW x, TimerKept(s, x), NEW r \in Rounds, r <= s.round,
         NEW t, t = enterPrecommit(s, r)
  PROVE  /\ Inv(t) /\ TimerKept(t, x) /\ VotesOK(s, t)
         /\ t.round = s.round /\ s.step <= t.step
         /\ r = s.round => Precommit <= t.step
         /\ t.pv = s.pv /\ t.prevotes = s.prevotes /\ t.precommits = s.precommits
  <1>0. Typed(s) /\ Sane(s) /\ PartsMatch(s) /\ SignedSoFar(s) /\ LockKept(s) /\ ValidKept(s)
    BY DEF Inv
  <1>1. s.round \in Int /\ r \in Int /\ s.step \in Int /\ \A q \in Rounds : q \in Int
    BY <1>0, Numbers
  <1>2. CASE ~(r = s.round /\ s.step < Precommit)
    <2>1. t = s
      BY <1>1, <1>2 DEF enterPrecommit, Precommit
    <2> QED  BY <1>1, <1>2, <2>1 DEF VotesOK, Precommit
  <1>3. CASE r = s.round /\ s.step < Precommit
    <2>1. /\ DOMAIN t = Fields /\ t.step = Precommit
          /\ \A f \in Fields \ {"pc", "step", "lockedRound", "lockedBlock", "lockedParts",
                                "block", "parts"} : t[f] = s[f]
          /\ Locks(s, t) \/ KeepsLock(s, t) \/ Unlocks(s, t)
      BY <1>0, <1>3, enterPrecommitFrame DEF Frame
    <2>2. /\ t.round = s.round /\ t.pv = s.pv /\ t.prevotes = s.prevotes
          /\ t.precommits = s.precommits /\ t.validBlock = s.validBlock
          /\ t.validParts = s.validParts /\ t.validRound = s.validRound
      BY <2>1 DEF Fields
    <2>3. Typed(t)
      <3>1. /\ t.pc \in Ballots
            /\ t.block \in Blocks \cup {None} /\ t.parts \in PartSets \cup {None}
            /\ t.lockedBlock \in Blocks \cup {None} /\ t.lockedParts \in PartSets \cup {None}
            /\ t.lockedRound \in Rounds \cup {-1}
        <4>1. CASE Locks(s, t)
          BY <1>0, <4>1 DEF Typed, Locks, Ballots, Values
        <4>2. CASE KeepsLock(s, t)
          BY <1>0, <4>2 DEF Typed, KeepsLock, Ballots, Values
        <4>3. CASE Unlocks(s, t)
          <5>1. s.prevotes[s.round] \in Blocks
                  => NewPartSetFromHeader(s.prevotes[s.round]) \in PartSets
            BY DEF NewPartSetFromHeader, PartSets
          <5> QED  BY <1>0, <4>3, <5>1 DEF Typed, Unlocks, Ballots, Values
        <4> QED  BY <2>1, <4>1, <4>2, <4>3
      <3> QED  BY <1>0, <2>1, <3>1 DEF Typed, Fields, Steps, Precommit
    <2>4. Sane(t) /\ ValidKept(t)
      BY <1>0, <2>1 DEF Sane, ValidKept, Fields, Precommit, Commit, Propose
    <2>5. PartsMatch(t)
      <3>1. CASE Locks(s, t)
        BY <1>0, <2>2, <3>1, ValuesAssumption DEF PartsMatch, Locks
      <3>2. CASE KeepsLock(s, t)
        BY <1>0, <2>2, <3>2 DEF PartsMatch, KeepsLock
      <3>3. CASE Unlocks(s, t)
        <4>1. CASE t.block = s.block /\ t.parts = s.parts
          BY <1>0, <2>2, <3>3, <4>1 DEF PartsMatch, Unlocks
        <4>2. CASE t.block = None /\ t.parts = NewPartSetFromHeader(s.prevotes[s.round])
          <5>1. t.parts.full = FALSE
            BY <4>2 DEF NewPartSetFromHeader
          <5> QED  BY <1>0, <2>2, <3>3, <4>2, <5>1 DEF PartsMatch, Unlocks
        <4> QED  BY <3>3, <4>1, <4>2 DEF Unlocks
      <3> QED  BY <2>1, <3>1, <3>2, <3>3
    <2>6. PICK v \in Values :
            /\ t.pc = [s.pc EXCEPT ![s.round] = v]
            /\ v \in Blocks => s.prevotes[s.round] = v /\ Locks(s, t)
            /\ v = Nil \/ v \in Blocks
      <3>1. CASE Locks(s, t)
        BY <3>1 DEF Locks, Values
      <3>2. CASE KeepsLock(s, t) \/ Unlocks(s, t)
        BY <3>2, ValuesAssumption DEF KeepsLock, Unlocks, Values
      <3> QED  BY <2>1, <3>1, <3>2
    <2>7. s.pc[s.round] = None /\ NothingAfter(s.pv, s.pc, s.round)
      BY <1>0, <1>3 DEF SignedSoFar
    <2>8. s.round \in Rounds /\ s.pc \in [Rounds -> Values \cup {None}]
      BY <1>0 DEF Typed, Ballots
    <2>9. SignedSoFar(t)
      BY <1>1, <2>1, <2>2, <2>6, <2>7, <2>8 DEF SignedSoFar, NothingAfter, Prevote, Precommit
    <2>10. LockKept(t)
      <3>0. \A q \in Rounds : (q > s.round => s.pc[q] = None) /\ (q # s.round => t.pc[q] = s.pc[q])
        <4>1. \A q \in Rounds : q > s.round => s.pc[q] = None
          BY <2>7 DEF NothingAfter
        <4>2. \A q \in Rounds : q # s.round => t.pc[q] = s.pc[q]
          BY <2>6, <2>8
        <4> QED  BY <4>1, <4>2
      <3>1. \A q \in Rounds : s.pc[q] \in Blocks => q < s.round /\ t.pc[q] = s.pc[q]
        BY <1>1, <2>7, <3>0, ValuesAssumption
      <3>2. \A q \in Rounds : s.pc[q] \in Blocks /\ Outvoted(s, q) => Outvoted(t, q)
        BY <2>2, <3>1 DEF Outvoted
      <3>3. \A q \in Rounds : t.pc[q] \in Blocks =>
               s.pc[q] \in Blocks \/ (q = s.round /\ t.pc[q] = v /\ v \in Blocks)
        BY <2>6, <2>8
      <3>4. ASSUME s.prevotes[s.round] \in Values, NEW q \in Rounds, s.pc[q] \in Blocks,
                   s.pc[q] # s.prevotes[s.round]
            PROVE  Outvoted(t, q)
        <4>1. q < s.round /\ t.pc[q] = s.pc[q]
          BY <3>1, <3>4
        <4>2. s.round > q /\ s.round <= s.round
          BY <1>1, <4>1
        <4> QED  BY <2>2, <2>8, <3>4, <4>1, <4>2 DEF Outvoted
      <3>5. CASE Locks(s, t)
        <4>1. \A q \in Rounds : t.pc[q] \in Blocks => t.pc[q] = t.lockedBlock \/ Outvoted(t, q)
          BY <2>6, <2>8, <3>1, <3>3, <3>4, <3>5 DEF Locks, Values
        <4>2. \A q \in Rounds : q > t.lockedRound => t.pc[q] \in {Nil, None}
          <5>1. t.lockedRound = s.round
            BY <3>5 DEF Locks
          <5> QED  BY <1>1, <3>0, <5>1
        <4> QED  BY <2>8, <3>5, <4>1, <4>2 DEF LockKept, Locks
      <3>6. CASE KeepsLock(s, t)
        <4>1. \A q \in Rounds : t.pc[q] \in Blocks => s.pc[q] \in Blocks /\ t.pc[q] = s.pc[q]
          BY <2>8, <3>6, ValuesAssumption DEF KeepsLock
        <4>2. \A q \in Rounds : t.pc[q] \in Blocks => t.pc[q] = t.lockedBlock \/ Outvoted(t, q)
          BY <1>0, <3>2, <3>6, <4>1 DEF LockKept, KeepsLock
        <4>3. t.lockedBlock # None => s.pc[s.lockedRound] \in Blocks
          BY <1>0, <3>6 DEF LockKept, KeepsLock, Typed
        <4>4. t.lockedBlock # None =>
                 /\ t.lockedRound \in Rounds /\ t.pc[t.lockedRound] = t.lockedBlock
                 /\ \A q \in Rounds : q > t.lockedRound => t.pc[q] \in {Nil, None}
          BY <1>0, <1>1, <2>8, <3>1, <3>6, <4>3 DEF LockKept, KeepsLock
        <4> QED  BY <4>2, <4>4 DEF LockKept
      <3>7. CASE Unlocks(s, t)
        <4>1. \A q \in Rounds : t.pc[q] \in Blocks => s.pc[q] \in Blocks /\ t.pc[q] = s.pc[q]
          BY <2>8, <3>7, ValuesAssumption DEF Unlocks
        <4>2. \A q \in Rounds : s.pc[q] \in Blocks => Outvoted(t, q)
          BY <1>0, <3>2, <3>4, <3>7 DEF LockKept, Unlocks
        <4> QED  BY <3>7, <4>1, <4>2 DEF LockKept, Unlocks
      <3> QED  BY <2>1, <3>5, <3>6, <3>7
    <2>11. TimerKept(t, x)
      <3>1. t.ti = s.ti /\ t.tocks = s.tocks /\ t.armed = s.armed /\ t.triggered = s.triggered
        BY <2>1 DEF Fields
      <3> QED  BY <1>0, <1>1, <1>3, <2>1, <2>2, <3>1, Numbers
               DEF TimerKept, TimerCore, Scheduled, Coming, Past, Precommit, Propose, PrevoteWait,
                   NewHeight, NewRound, PrecommitWait
    <2>12. VotesOK(s, t)
      <3> SUFFICES ASSUME NEW q \in Rounds, t.pc[q] # s.pc[q]
                   PROVE  MayPrecommit(t.pv, s.pc, PolkasSeen(t), q, t.pc[q])
        BY <2>2 DEF VotesOK
      <3>1. q = s.round /\ t.pc[q] = v
        BY <2>6, <2>8
      <3>2. v \in Blocks => <<q, v>> \in PolkasSeen(t)
        BY <2>2, <2>6, <3>1 DEF PolkasSeen
      <3> QED  BY <2>2, <2>7, <3>1, <3>2 DEF MayPrecommit
    <2>13. s.step <= t.step /\ Precommit <= t.step
      BY <1>1, <1>3, <2>1 DEF Precommit
    <2> QED  BY <2>2, <2>3, <2>4, <2>5, <2>9, <2>10, <2>11, <2>12, <2>13 DEF Inv
  <1> QED  BY <1>2, <1>3

\* The lock's part of the invariant depends on a few fields only.
LEMMA LockKeptFrame ==
  ASSUME NEW s, NEW t, LockKept(s), t.pc = s.pc, t.lockedRound = s.lockedRound,
         t.lockedBlock = s.lockedBlock, t.round = s.round, t.prevotes = s.prevotes
  PROVE  LockKept(t)
  BY DEF LockKept, Outvoted

\* The ticker takes a timeout that is later than its own.
LEMMA ScheduleFrame ==
  ASSUME NEW s, Typed(s), NEW r, NEW n, NEW t, t = ScheduleTimeout(s, r, n)
  PROVE  /\ Frame(s, t, {"ti", "armed"})
         /\ \/ /\ r < s.ti.round \/ (r = s.ti.round /\ n <= s.ti.step)
               /\ t.ti = s.ti /\ t.armed = s.armed
            \/ /\ ~(r < s.ti.round \/ (r = s.ti.round /\ n <= s.ti.step))
               /\ t.ti = [round |-> r, step |-> n] /\ t.armed = TRUE
  <1>1. CASE r < s.ti.round \/ (r = s.ti.round /\ n <= s.ti.step)
    BY <1>1 DEF ScheduleTimeout, Frame, Fields, Typed
  <1>2. CASE ~(r < s.ti.round \/ (r = s.ti.round /\ n <= s.ti.step))
    <2>1. t = [s EXCEPT !.ti = [round |-> r, step |-> n], !.armed = TRUE]
      BY <1>2 DEF ScheduleTimeout
    <2> QED  BY <1>2, <2>1 DEF Frame, Fields, Typed
  <1> QED  BY <1>1, <1>2

\* What scheduling does to a state whose timers are kept: the ticker holds the
\* new timeout or a later one of the same round.
LEMMA ScheduleKeeps ==
  ASSUME NEW s, Typed(s), NEW x, TimerCore(s, x),
         NEW n \in {NewRound, Propose, PrevoteWait, PrecommitWait},
         NEW t, t = ScheduleTimeout(s, s.round, n)
  PROVE  /\ Frame(s, t, {"ti", "armed"})
         /\ t.ti \in Timeouts /\ t.armed \in BOOLEAN
         /\ t.ti.round = s.round /\ t.ti.step >= n
         /\ t.ti = s.ti \/ t.ti.step = n
         /\ t.ti \in Coming(t) \/ t.ti = x \/ Past(s, t.ti)
         /\ s.triggered => t.ti = s.ti
  <1>1. /\ s.round \in Int /\ s.ti.round \in Int /\ s.ti.step \in Int /\ s.ti.step \in 1 .. 7
        /\ s.round \in Rounds /\ s.ti.round <= s.round
    BY Numbers DEF Typed, TimerCore, Scheduled
  <1>2. n \in Int /\ n <= PrecommitWait
    BY DEF NewRound, Propose, PrevoteWait, PrecommitWait
  <1>3. [round |-> s.round, step |-> n] \in Timeouts
    BY <1>1 DEF Timeouts, Steps, NewHeight, NewRound, Propose, Prevote, PrevoteWait, Precommit,
         PrecommitWait, Commit
  <1>4. Frame(s, t, {"ti", "armed"})
    BY ScheduleFrame, Zenon
  <1>5. t.tocks = s.tocks
    BY <1>4 DEF Frame, Fields
  <1>6. \/ /\ s.round < s.ti.round \/ (s.round = s.ti.round /\ n <= s.ti.step)
           /\ t.ti = s.ti /\ t.armed = s.armed
        \/ /\ ~(s.round < s.ti.round \/ (s.round = s.ti.round /\ n <= s.ti.step))
           /\ t.ti = [round |-> s.round, step |-> n] /\ t.armed = TRUE
    BY DEF ScheduleTimeout, Typed, Fields
  <1>7. ~(s.round < s.ti.round)
    BY <1>1
  <1>8. CASE t.ti = s.ti /\ t.armed = s.armed /\ s.round = s.ti.round /\ n <= s.ti.step
    <2>1. Coming(t) = Coming(s)
      BY <1>5, <1>8 DEF Coming
    <2>2. t.ti \in Coming(t) \/ t.ti = x \/ Past(s, t.ti)
      BY <1>8, <2>1 DEF TimerCore
    <2>3. t.ti \in Timeouts /\ t.armed \in BOOLEAN
      BY <1>8 DEF Typed
    <2> QED  BY <1>1, <1>2, <1>4, <1>8, <2>2, <2>3
  <1>9. CASE /\ ~(s.round < s.ti.round \/ (s.round = s.ti.round /\ n <= s.ti.step))
             /\ t.ti = [round |-> s.round, step |-> n] /\ t.armed = TRUE
    <2>1. t.ti \in Coming(t)
      BY <1>9 DEF Coming
    <2>2. t.ti.round = s.round /\ t.ti.step = n
      BY <1>9
    <2>3. ~s.triggered
      BY <1>1, <1>2, <1>9 DEF TimerCore
    <2>4. t.ti \in Timeouts /\ t.armed \in BOOLEAN
      BY <1>3, <1>9
    <2> QED  BY <1>2, <1>4, <2>1, <2>2, <2>3, <2>4
  <1> QED  BY <1>6, <1>7, <1>8, <1>9, Zenon

\* Waiting for more prevotes, once there are two thirds of any.
LEMMA enterPrevoteWaitKeeps ==
  ASSUME NEW s, Inv(s), NEW x, TimerKept(s, x), NEW r \in Rounds, r = s.round,
         Prevote <= s.step, s.prevotes[r] # Few,
         NEW t, t = enterPrevoteWait(s, r)
  PROVE  /\ Inv(t) /\ TimerKept(t, x) /\ VotesOK(s, t)
         /\ t.round = s.round /\ s.step <= t.step
         /\ t.prevotes = s.prevotes /\ t.precommits = s.precommits
  <1>0. /\ Typed(s) /\ Sane(s) /\ PartsMatch(s) /\ SignedSoFar(s) /\ LockKept(s) /\ ValidKept(s)
        /\ TimerCore(s, x)
    BY DEF Inv, TimerKept
  <1>1. s.round \in Int /\ s.step \in Int
    BY <1>0, Numbers
  <1>2. CASE PrevoteWait <= s.step
    <2>1. t = s
      BY <1>1, <1>2 DEF enterPrevoteWait
    <2> QED  BY <1>1, <2>1 DEF VotesOK
  <1>3. CASE ~(PrevoteWait <= s.step)
    <2> DEFINE d == ScheduleTimeout(s, s.round, PrevoteWait)
    <2>1. t = [d EXCEPT !.round = s.round, !.step = PrevoteWait]
      BY <1>1, <1>3 DEF enterPrevoteWait
    <2>2. /\ Frame(s, d, {"ti", "armed"})
          /\ d.ti \in Timeouts /\ d.armed \in BOOLEAN
          /\ d.ti.round = s.round /\ d.ti.step >= PrevoteWait
          /\ d.ti = s.ti \/ d.ti.step = PrevoteWait
          /\ d.ti \in Coming(d) \/ d.ti = x \/ Past(s, d.ti)
          /\ s.triggered => d.ti = s.ti
      BY <1>0, ScheduleKeeps
    <2> HIDE DEF d
    <2>3. /\ Frame(d, t, {"step"}) /\ t.step = PrevoteWait
      BY <2>1, <2>2 DEF Frame, Fields
    <2>4. /\ DOMAIN t = Fields /\ \A f \in Fields \ {"ti", "armed", "step"} : t[f] = s[f]
          /\ t.ti = d.ti /\ t.armed = d.armed /\ t.tocks = d.tocks
      BY <2>2, <2>3 DEF Frame, Fields
    <2>5. Typed(t)
      BY <1>0, <2>2, <2>3, <2>4 DEF Typed, Fields, Steps
    <2>6. Sane(t) /\ PartsMatch(t) /\ LockKept(t) /\ ValidKept(t)
      <3>1. Sane(t) /\ PartsMatch(t)
        <4>1. Sane(t)
          BY <1>0, <2>3, <2>4 DEF Sane, Fields, PrevoteWait, Commit, Propose
        <4>2. PartsMatch(t)
          BY <1>0, <2>4 DEF PartsMatch, Fields
        <4> QED  BY <4>1, <4>2
      <3>2. LockKept(t)
        <4>1. /\ t.pc = s.pc /\ t.lockedRound = s.lockedRound /\ t.lockedBlock = s.lockedBlock
              /\ t.round = s.round /\ t.prevotes = s.prevotes
          BY <2>4 DEF Fields
        <4> QED  BY <1>0, <4>1, LockKeptFrame
      <3>3. ValidKept(t)
        BY <1>0, <2>3, <2>4 DEF ValidKept, Fields, PrevoteWait, Propose
      <3> QED  BY <3>1, <3>2, <3>3
    <2>7. SignedSoFar(t)
      BY <1>0, <1>1, <1>3, <2>3, <2>4 DEF SignedSoFar, Fields, Prevote, PrevoteWait, Precommit
    <2>8. TimerKept(t, x)
      <3>1. t.round = s.round /\ t.tocks = s.tocks /\ t.triggered = s.triggered
        BY <2>4 DEF Fields
      <3>2. Scheduled(t, t.ti)
        BY <1>0, <1>1, <1>3, <2>2, <2>3, <2>4, <3>1
           DEF TimerCore, Scheduled, NewHeight, NewRound, Propose,
              PrevoteWait, PrecommitWait
      <3>3. \A u \in t.tocks : Scheduled(t, u)
        BY <1>0, <1>1, <1>3, <2>3, <3>1, Numbers
           DEF TimerCore, Scheduled, NewHeight, NewRound, Propose,
              PrevoteWait, PrecommitWait
      <3>4. t.ti \in Coming(t) \/ t.ti = x \/ Past(t, t.ti)
        BY <1>0, <1>1, <1>3, <2>2, <2>3, <2>4, <3>1, <2>5, Numbers DEF Coming, Past
      <3> QED  BY <1>0, <2>2, <2>3, <2>4, <3>1, <3>2, <3>3, <3>4
               DEF TimerKept, TimerCore, NewHeight, NewRound, Propose, PrevoteWait
    <2>9. VotesOK(s, t) /\ t.round = s.round /\ t.prevotes = s.prevotes /\ t.precommits = s.precommits
      BY <2>4 DEF VotesOK, Fields
    <2>10. s.step <= t.step
      BY <1>1, <1>3, <2>3 DEF PrevoteWait
    <2> QED  BY <2>5, <2>6, <2>7, <2>8, <2>9, <2>10 DEF Inv
  <1> QED  BY <1>2, <1>3

\* The blocks' part of the invariant depends on a few fields only.
LEMMA PartsMatchFrame ==
  ASSUME NEW s, NEW t, PartsMatch(s), t.block = s.block, t.parts = s.parts,
         t.lockedBlock = s.lockedBlock, t.lockedParts = s.lockedParts,
         t.validBlock = s.validBlock, t.validParts = s.validParts
  PROVE  PartsMatch(t)
  BY DEF PartsMatch

\* The valid block's part of the invariant depends on a few fields only.
LEMMA ValidKeptFrame ==
  ASSUME NEW s, NEW t, ValidKept(s), t.validBlock = s.validBlock, t.validRound = s.validRound,
         t.round = s.round, t.prevotes = s.prevotes, t.mine = s.mine, t.myRounds = s.myRounds,
         s.step < Propose \/ ~(t.step < Propose)
  PROVE  ValidKept(t)
  BY DEF ValidKept

\* A step that ends nothing: only the step, the ticker and the flags change.
LEMMA QuietKeeps ==
  ASSUME NEW s, Inv(s), NEW t,
         Frame(s, t, {"step", "hvsRound", "triggered", "ti", "armed", "tocks"}),
         s.step <= t.step, t.step \in Steps, s.step < Prevote => t.step < Prevote,
         t.step = Commit => s.step = Commit, s.step < Precommit => t.step < Precommit,
         t.hvsRound \in 0 .. MaxRound + 1, s.round <= t.hvsRound,
         t.triggered \in BOOLEAN, t.ti \in Timeouts, t.armed \in BOOLEAN, t.tocks \subseteq Timeouts
  PROVE  Inv(t)
  <1>0. Typed(s) /\ Sane(s) /\ PartsMatch(s) /\ SignedSoFar(s) /\ LockKept(s) /\ ValidKept(s)
    BY DEF Inv
  <1>1. /\ DOMAIN t = Fields
        /\ \A f \in Fields \ {"step", "hvsRound", "triggered", "ti", "armed", "tocks"} : t[f] = s[f]
    BY DEF Frame
  <1>2. /\ t.round = s.round /\ t.prevotes = s.prevotes /\ t.precommits = s.precommits
        /\ t.failed = s.failed /\ t.commitRound = s.commitRound
        /\ t.block = s.block /\ t.parts = s.parts
        /\ t.lockedBlock = s.lockedBlock /\ t.lockedParts = s.lockedParts
        /\ t.lockedRound = s.lockedRound
        /\ t.validBlock = s.validBlock /\ t.validParts = s.validParts
        /\ t.validRound = s.validRound
        /\ t.pv = s.pv /\ t.pc = s.pc /\ t.mine = s.mine /\ t.myRounds = s.myRounds
    BY <1>1 DEF Fields
  <1>3. s.step \in Int /\ t.step \in Int
    BY <1>0, Numbers
       DEF Steps, NewHeight, NewRound, Propose, Prevote, PrevoteWait, Precommit, Commit
  <1>4. Typed(t)
    BY <1>0, <1>1 DEF Typed, Fields
  <1>5. Sane(t)
    BY <1>0, <1>2, <1>3 DEF Sane, Propose
  <1>6. PartsMatch(t)
    BY <1>0, <1>2, PartsMatchFrame
  <1>7. SignedSoFar(t)
    BY <1>0, <1>2, <1>3 DEF SignedSoFar, Prevote, Precommit
  <1>8. LockKept(t)
    BY <1>0, <1>2, LockKeptFrame
  <1>9. ValidKept(t)
    <2>1. s.step < Propose \/ ~(t.step < Propose)
      BY <1>3 DEF Propose
    <2> QED  BY <1>0, <1>2, <2>1, ValidKeptFrame
  <1> QED  BY <1>4, <1>5, <1>6, <1>7, <1>8, <1>9 DEF Inv

\* Waiting for more precommits, once there are two thirds of any: the timeout
\* that ends the round is set, whatever the step.
LEMMA enterPrecommitWaitKeeps ==
  ASSUME NEW s, Inv(s), NEW x, TimerKept(s, x), NEW r \in Rounds, r <= s.round,
         s.step # NewHeight, s.precommits[r] # Few,
         NEW t, t = enterPrecommitWait(s, r)
  PROVE  /\ Inv(t) /\ TimerKept(t, x) /\ VotesOK(s, t)
         /\ t.round = s.round /\ t.step = s.step /\ t.pv = s.pv /\ t.pc = s.pc
         /\ t.prevotes = s.prevotes /\ t.precommits = s.precommits
  <1>0. Typed(s) /\ TimerCore(s, x) /\ Sane(s)
    BY DEF Inv, TimerKept
  <1>1. s.round \in Int /\ s.step \in Int /\ r \in Int
    BY <1>0, Numbers
  <1>2. CASE r < s.round \/ (r = s.round /\ s.triggered)
    <2>1. t = s
      BY <1>2 DEF enterPrecommitWait
    <2> QED  BY <2>1 DEF VotesOK
  <1>3. CASE ~(r < s.round \/ (r = s.round /\ s.triggered))
    <2> DEFINE d == ScheduleTimeout(s, s.round, PrecommitWait)
    <2>0. r = s.round
      BY <1>1, <1>3
    <2>1. t = [d EXCEPT !.triggered = TRUE]
      BY <1>3, <2>0 DEF enterPrecommitWait
    <2>2. /\ Frame(s, d, {"ti", "armed"})
          /\ d.ti \in Timeouts /\ d.armed \in BOOLEAN
          /\ d.ti.round = s.round /\ d.ti.step >= PrecommitWait
          /\ d.ti = s.ti \/ d.ti.step = PrecommitWait
          /\ d.ti \in Coming(d) \/ d.ti = x \/ Past(s, d.ti)
          /\ s.triggered => d.ti = s.ti
      BY <1>0, ScheduleKeeps
    <2> HIDE DEF d
    <2>3. Frame(d, t, {"triggered"}) /\ t.triggered = TRUE
      BY <2>1, <2>2 DEF Frame, Fields
    <2>4. /\ Frame(s, t, {"step", "hvsRound", "triggered", "ti", "armed", "tocks"})
          /\ t.ti = d.ti /\ t.armed = d.armed /\ t.tocks = s.tocks /\ d.tocks = s.tocks
          /\ t.step = s.step /\ t.round = s.round /\ t.hvsRound = s.hvsRound
          /\ t.pv = s.pv /\ t.pc = s.pc /\ t.prevotes = s.prevotes /\ t.precommits = s.precommits
      BY <2>2, <2>3 DEF Frame, Fields
    <2>5. Inv(t)
      <3>1. /\ t.step \in Steps /\ t.hvsRound \in 0 .. MaxRound + 1
            /\ t.ti \in Timeouts /\ t.armed \in BOOLEAN /\ t.tocks \subseteq Timeouts
        BY <1>0, <2>2, <2>4 DEF Typed
      <3>2. s.round <= t.hvsRound /\ s.step <= t.step
        BY <1>0, <1>1, <2>4 DEF Sane
      <3>3. t.triggered \in BOOLEAN
        BY <2>3
      <3> QED  BY <2>4, <3>1, <3>2, <3>3, QuietKeeps
    <2>6. TimerKept(t, x)
      <3>0. t.ti.step = PrecommitWait
        <4>1. s.ti.step \in 1 .. 7
          BY <1>0, Numbers
        <4> QED  BY <2>2, <2>4, <4>1 DEF PrecommitWait
      <3>1. Scheduled(t, t.ti)
        BY <1>1, <2>2, <2>4, <3>0
           DEF Scheduled, NewHeight, NewRound, Propose, PrevoteWait, PrecommitWait
      <3>2. \A u \in t.tocks : Scheduled(t, u)
        BY <1>0, <2>4 DEF TimerCore, Scheduled
      <3>3. t.ti \in Coming(t) \/ t.ti = x \/ Past(t, t.ti)
        BY <2>2, <2>4 DEF Coming, Past
      <3>4. TimerCore(t, x)
        BY <2>2, <2>4, <3>0, <3>1, <3>2, <3>3 DEF TimerCore
      <3>5. t.step \in {Propose, PrevoteWait} => t.ti.step >= t.step
        BY <3>0 DEF Propose, PrevoteWait, PrecommitWait
      <3> QED  BY <2>2, <2>4, <3>0, <3>4, <3>5 DEF TimerKept, NewHeight, NewRound, PrecommitWait
    <2> QED  BY <2>4, <2>5, <2>6 DEF VotesOK
  <1> QED  BY <1>2, <1>3

\* What the proposer of round r signs: nothing in the rounds of others.
LEMMA decideProposalFrame ==
  ASSUME NEW s, DOMAIN s = Fields, NEW r, NEW t, t = decideProposal(s, r)
  PROVE  /\ Frame(s, t, {"mine"})
         /\ t.mine = IF r \in s.myRounds
                     THEN [s.mine EXCEPT ![r] =
                             [block |-> IF s.validBlock # None THEN s.validBlock ELSE MyBlock,
                              pol |-> s.validRound]]
                     ELSE s.mine
  <1>1. CASE r \notin s.myRounds
    BY <1>1 DEF decideProposal, Frame
  <1>2. CASE r \in s.myRounds
    <2> DEFINE p == [block |-> IF s.validBlock # None THEN s.validBlock ELSE MyBlock,
                     pol |-> s.validRound]
    <2>1. t = [s EXCEPT !.mine[r] = p]
      BY <1>2 DEF decideProposal
    <2> HIDE DEF p
    <2>2. Frame(s, t, {"mine"}) /\ t.mine = [s.mine EXCEPT ![r] = p]
      BY <2>1 DEF Frame, Fields
    <2> QED  BY <1>2, <2>2 DEF p
  <1> QED  BY <1>1, <1>2

\* enterPropose before it looks for a complete proposal.
Proposing(s, r) ==
  [decideProposal(ScheduleTimeout(s, r, Propose), r) EXCEPT !.round = r, !.step = Propose]

\* Round 0 enters its propose step, perhaps after it waited for transactions:
\* the validator that proposes there knows of no polka yet.
LEMMA ProposingKeeps ==
  ASSUME NEW s, Inv(s), NEW x, TimerCore(s, x), s.round = 0, s.step < Propose,
         NEW t, t = Proposing(s, 0)
  PROVE  /\ Inv(t) /\ TimerKept(t, x) /\ t.round = 0 /\ t.step = Propose
         /\ t.pv = s.pv /\ t.pc = s.pc /\ t.prevotes = s.prevotes /\ t.precommits = s.precommits
  <1>0. /\ Typed(s) /\ Sane(s) /\ PartsMatch(s) /\ SignedSoFar(s) /\ LockKept(s) /\ ValidKept(s)
    BY DEF Inv
  <1>1. s.step \in Int /\ 0 \in Rounds
    BY <1>0, Numbers DEF Typed
  <1> DEFINE d == ScheduleTimeout(s, s.round, Propose)
             e == decideProposal(d, 0)
  <1>2. /\ Frame(s, d, {"ti", "armed"})
        /\ d.ti \in Timeouts /\ d.armed \in BOOLEAN
        /\ d.ti.round = s.round /\ d.ti.step >= Propose
        /\ d.ti = s.ti \/ d.ti.step = Propose
        /\ d.ti \in Coming(d) \/ d.ti = x \/ Past(s, d.ti)
        /\ s.triggered => d.ti = s.ti
    BY <1>0, ScheduleKeeps
  <1>3. t = [e EXCEPT !.round = 0, !.step = Propose]
    BY DEF Proposing
  <1> HIDE DEF d
  <1>4. /\ d.mine = s.mine /\ d.myRounds = s.myRounds /\ d.validBlock = s.validBlock
        /\ d.validRound = s.validRound /\ DOMAIN d = Fields
    BY <1>2 DEF Frame, Fields
  <1>5. /\ Frame(d, e, {"mine"})
        /\ e.mine = IF 0 \in d.myRounds
                    THEN [d.mine EXCEPT ![0] =
                            [block |-> IF d.validBlock # None THEN d.validBlock ELSE MyBlock,
                             pol |-> d.validRound]]
                    ELSE d.mine
    BY <1>4, decideProposalFrame
  <1> HIDE DEF e
  <1>6. Frame(e, t, {"round", "step"}) /\ t.step = Propose /\ t.round = 0
    BY <1>3, <1>5 DEF Frame, Fields
  <1>7. /\ Frame(s, t, {"ti", "armed", "step", "mine"}) /\ t.mine = e.mine
        /\ t.ti = d.ti /\ t.armed = d.armed
    BY <1>2, <1>5, <1>6 DEF Frame, Fields
  <1>8. 0 \in s.myRounds => s.validBlock = None /\ s.validRound = -1
    <2> SUFFICES ASSUME 0 \in s.myRounds, s.validBlock # None PROVE FALSE
      BY <1>0 DEF ValidKept
    <2>1. s.prevotes[0] \notin Blocks
      BY <1>0 DEF ValidKept
    <2>2. s.validRound = 0 /\ s.prevotes[s.validRound] = s.validBlock
      BY <1>0, Numbers DEF ValidKept
    <2> QED  BY <1>0, <2>1, <2>2 DEF Typed
  <1>9. \/ t.mine = s.mine /\ 0 \notin s.myRounds
        \/ t.mine = [s.mine EXCEPT ![0] = [block |-> MyBlock, pol |-> -1]]
    BY <1>4, <1>5, <1>7, <1>8
  <1>10. /\ DOMAIN t = Fields
         /\ \A f \in Fields \ {"ti", "armed", "step", "mine"} : t[f] = s[f]
    BY <1>7 DEF Frame
  <1>11. /\ t.prevotes = s.prevotes /\ t.precommits = s.precommits /\ t.hvsRound = s.hvsRound
         /\ t.failed = s.failed /\ t.block = s.block /\ t.parts = s.parts
         /\ t.lockedBlock = s.lockedBlock /\ t.lockedParts = s.lockedParts
         /\ t.lockedRound = s.lockedRound
         /\ t.validBlock = s.validBlock /\ t.validParts = s.validParts
         /\ t.validRound = s.validRound /\ t.myRounds = s.myRounds
         /\ t.pv = s.pv /\ t.pc = s.pc /\ t.tocks = s.tocks /\ t.triggered = s.triggered
    BY <1>10 DEF Fields
  <1>12. Typed(t)
    <2>1. [block |-> MyBlock, pol |-> -1] \in ProposalMsgs
      BY InputsAssumption, MaxRoundAssumption DEF ProposalMsgs
    <2>2. t.mine \in [Rounds -> ProposalMsgs \cup {None}]
      BY <1>0, <1>9, <2>1 DEF Typed
    <2>3. t.step \in Steps
      BY <1>6 DEF Steps
    <2> QED  BY <1>0, <1>2, <1>7, <1>10, <2>2, <2>3 DEF Typed, Fields
  <1>13. Sane(t)
    BY <1>0, <1>6, <1>11 DEF Sane, Propose, Commit
  <1>14. PartsMatch(t) /\ LockKept(t)
    BY <1>0, <1>6, <1>11, PartsMatchFrame, LockKeptFrame
  <1>15. SignedSoFar(t)
    BY <1>0, <1>1, <1>6, <1>11 DEF SignedSoFar, Propose, Prevote, Precommit
  <1>16. ValidKept(t)
    <2>1. \A q \in Rounds : t.mine[q] # None /\ t.mine[q].pol >= 0 =>
            t.mine[q].pol < q /\ t.prevotes[t.mine[q].pol] = t.mine[q].block
      <3> SUFFICES ASSUME NEW q \in Rounds, t.mine[q] # None, t.mine[q].pol >= 0
                   PROVE  t.mine[q] = s.mine[q]
        BY <1>0, <1>11 DEF ValidKept
      <3>1. t.mine[0] = s.mine[0] \/ t.mine[0].pol = -1
        BY <1>0, <1>1, <1>9 DEF Typed
      <3>2. q # 0 => t.mine[q] = s.mine[q]
        BY <1>0, <1>9 DEF Typed
      <3> QED  BY <3>1, <3>2
    <2>2. 0 \in t.myRounds /\ t.mine[0] = None => t.prevotes[0] \notin Blocks
      BY <1>0, <1>11 DEF ValidKept, Propose
    <2> QED  BY <1>0, <1>6, <1>11, <2>1, <2>2 DEF ValidKept, Propose
  <1>17. TimerKept(t, x)
    <2>1. Scheduled(t, t.ti)
      <3>1. s.ti.round = 0 => s.ti.step # PrevoteWait
        BY <1>1 DEF TimerCore, Scheduled, Propose, PrevoteWait
      <3>2. t.ti.step \in 1 .. 7 /\ t.ti.step # PrevoteWait
        BY <1>2, <1>7, <1>12, <3>1, Numbers DEF Propose, PrevoteWait
      <3> QED  BY <1>2, <1>6, <1>7, <3>2
         DEF Scheduled, NewHeight, NewRound, Propose, PrevoteWait, PrecommitWait
    <2>2. \A u \in t.tocks : Scheduled(t, u)
      BY <1>0, <1>1, <1>6, <1>11, Numbers DEF TimerCore, Scheduled, NewHeight, NewRound, Propose,
            PrevoteWait, PrecommitWait
    <2>3. t.ti \in Coming(t) \/ t.ti = x \/ Past(t, t.ti)
      <3>1. Coming(t) = Coming(d)
        BY <1>2, <1>7, <1>11 DEF Coming, Frame, Fields
      <3>2. Past(s, d.ti) => Past(t, d.ti)
        BY <1>0, <1>1, <1>2, <1>6, <1>7, <1>12, Numbers DEF Past, Propose
      <3> QED  BY <1>2, <1>7, <3>1, <3>2
    <2>4. t.triggered => t.ti.round = t.round /\ t.ti.step = PrecommitWait
      BY <1>2, <1>6, <1>7, <1>11 DEF TimerCore
    <2>5. TimerCore(t, x)
      BY <2>1, <2>2, <2>3, <2>4 DEF TimerCore
    <2> QED  BY <1>2, <1>6, <1>7, <2>5 DEF TimerKept, NewHeight, NewRound, Propose
  <1> QED  BY <1>6, <1>11, <1>12, <1>13, <1>14, <1>15, <1>16, <1>17 DEF Inv

\* Round 0 enters its propose step, and prevotes at once if the proposal is
\* complete.
LEMMA enterProposeEnters ==
  ASSUME NEW s, Inv(s), NEW x, TimerCore(s, x), s.round = 0, s.step < Propose,
         NEW t, t = enterPropose(s, 0)
  PROVE  /\ Inv(t) /\ TimerKept(t, x) /\ VotesOK(s, t) /\ t.round = 0 /\ Propose <= t.step
         /\ t.pc = s.pc /\ t.prevotes = s.prevotes /\ t.precommits = s.precommits
  <1> DEFINE d == Proposing(s, 0)
  <1>1. s.step \in Int /\ 0 \in Rounds
    BY Numbers DEF Inv, Typed
  <1>2. t = IF isProposalComplete(d) THEN enterPrevote(d, 0) ELSE d
    BY <1>1 DEF enterPropose, Proposing, Propose
  <1>3. /\ Inv(d) /\ TimerKept(d, x) /\ d.round = 0 /\ d.step = Propose
        /\ d.pv = s.pv /\ d.pc = s.pc /\ d.prevotes = s.prevotes /\ d.precommits = s.precommits
    BY ProposingKeeps
  <1> HIDE DEF d
  <1>4. VotesOK(s, d)
    BY <1>3 DEF VotesOK
  <1>5. CASE t = d
    BY <1>3, <1>4, <1>5 DEF Propose
  <1>6. CASE t = enterPrevote(d, 0)
    <2>1. /\ Inv(t) /\ TimerKept(t, x) /\ VotesOK(d, t) /\ t.round = d.round /\ d.step <= t.step
          /\ t.pc = d.pc /\ t.prevotes = d.prevotes /\ t.precommits = d.precommits
      <3>1. 0 <= d.round
        BY <1>3
      <3> QED  BY <1>1, <1>3, <1>6, <3>1, enterPrevoteKeeps
    <2>2. VotesOK(s, t)
      BY <1>3, <1>4, <2>1, VotesCompose
    <2> QED  BY <1>3, <2>1, <2>2
  <1> QED  BY <1>2, <1>5, <1>6

\* A later round begins: the proposal of the former one is forgotten, the votes
\* and the lock stay, and the proposer of the round proposes the valid block.
LEMMA LaterRound ==
  ASSUME NEW s, Inv(s), NEW x, TimerCore(s, x), NEW r \in Rounds, s.round < r,
         NEW t, t = enterNewRound(s, r)
  PROVE  /\ Inv(t) /\ TimerKept(t, x) /\ t.round = r /\ t.step = Propose
         /\ t.pv = s.pv /\ t.pc = s.pc /\ t.prevotes = s.prevotes /\ t.precommits = s.precommits
  <1>0. Typed(s) /\ Sane(s) /\ PartsMatch(s) /\ SignedSoFar(s) /\ LockKept(s) /\ ValidKept(s)
    BY DEF Inv
  <1>1. /\ s.round \in Int /\ r \in Int /\ s.round >= 0 /\ r > 0 /\ s.step \in Int
        /\ s.ti.round \in Int /\ s.ti.round < r /\ MaxRound \in Int /\ r <= MaxRound
        /\ \A q \in Rounds : q \in Int
    <2>1. s.ti.round <= s.round
      BY DEF TimerCore, Scheduled
    <2> QED  BY <1>0, <2>1, Numbers DEF Typed
  <1> DEFINE k == [s EXCEPT !.proposal = None, !.block = None, !.parts = None]
             e == [k EXCEPT !.round = r, !.step = NewRound, !.hvsRound = r + 1,
                            !.triggered = FALSE]
             d == ScheduleTimeout(e, r, Propose)
             m == decideProposal(d, r)
             p == [m EXCEPT !.round = r, !.step = Propose]
  <1>2. enterNewRound(s, r) = enterPropose(e, r)
    <2>1. /\ ~(r < s.round \/ (r = s.round /\ s.step # NewHeight))
          /\ ~(r = 0) /\ ~(s.waitForTxs /\ r = 0)
      BY <1>1
    <2> QED  BY <2>1, Zenon DEF enterNewRound
  <1>3. /\ Frame(s, e, {"proposal", "block", "parts", "round", "step", "hvsRound", "triggered"})
        /\ e.proposal = None /\ e.block = None /\ e.parts = None /\ e.round = r
        /\ e.step = NewRound /\ e.hvsRound = r + 1 /\ e.triggered = FALSE
    BY <1>0 DEF Typed, Frame, Fields
  <1> HIDE DEF e
  <1>4. enterPropose(e, r) = IF isProposalComplete(p) THEN enterPrevote(p, r) ELSE p
    BY <1>1, <1>3 DEF enterPropose, Propose, NewRound
  <1>5. DOMAIN e = Fields /\ e.ti = s.ti /\ e.tocks = s.tocks
    BY <1>3 DEF Frame, Fields
  <1>6. d = [e EXCEPT !.ti = [round |-> r, step |-> Propose], !.armed = TRUE]
    BY <1>1, <1>5 DEF ScheduleTimeout
  <1>7. /\ Frame(e, d, {"ti", "armed"}) /\ d.ti = [round |-> r, step |-> Propose] /\ d.armed = TRUE
    BY <1>5, <1>6 DEF Frame, Fields
  <1> HIDE DEF d
  <1>8. /\ Frame(d, m, {"mine"})
        /\ m.mine = IF r \in d.myRounds
                    THEN [d.mine EXCEPT ![r] =
                            [block |-> IF d.validBlock # None THEN d.validBlock ELSE MyBlock,
                             pol |-> d.validRound]]
                    ELSE d.mine
    <2>1. DOMAIN d = Fields
      BY <1>7 DEF Frame
    <2> QED  BY <2>1, decideProposalFrame
  <1> HIDE DEF m
  <1>9. Frame(m, p, {"round", "step"}) /\ p.round = r /\ p.step = Propose
    BY <1>8 DEF Frame, Fields
  <1> HIDE DEF p
  <1>10. p.proposal = None
    BY <1>3, <1>7, <1>8, <1>9 DEF Frame, Fields
  <1>11. t = p
    BY <1>2, <1>4, <1>10 DEF isProposalComplete
  <1>12. /\ DOMAIN t = Fields
         /\ \A f \in Fields \ {"proposal", "block", "parts", "round", "step", "hvsRound",
                               "triggered", "ti", "armed", "mine"} : t[f] = s[f]
         /\ t.proposal = None /\ t.block = None /\ t.parts = None /\ t.round = r
         /\ t.step = Propose /\ t.hvsRound = r + 1 /\ t.triggered = FALSE
         /\ t.ti = [round |-> r, step |-> Propose] /\ t.armed = TRUE /\ t.mine = m.mine
    BY <1>3, <1>7, <1>8, <1>9, <1>11 DEF Frame, Fields
  <1>13. /\ d.myRounds = s.myRounds /\ d.mine = s.mine /\ d.validBlock = s.validBlock
         /\ d.validRound = s.validRound
    BY <1>3, <1>7 DEF Frame, Fields
  <1>14. /\ t.prevotes = s.prevotes /\ t.precommits = s.precommits /\ t.failed = s.failed
         /\ t.lockedBlock = s.lockedBlock /\ t.lockedParts = s.lockedParts
         /\ t.lockedRound = s.lockedRound
         /\ t.validBlock = s.validBlock /\ t.validParts = s.validParts
         /\ t.validRound = s.validRound /\ t.myRounds = s.myRounds
         /\ t.pv = s.pv /\ t.pc = s.pc /\ t.tocks = s.tocks
    BY <1>12 DEF Fields
  <1>15. \/ t.mine = s.mine
         \/ /\ s.validBlock = None
            /\ t.mine = [s.mine EXCEPT ![r] = [block |-> MyBlock, pol |-> -1]]
         \/ /\ s.validBlock \in Blocks /\ s.validRound \in Rounds /\ s.validRound < r
            /\ s.prevotes[s.validRound] = s.validBlock
            /\ t.mine = [s.mine EXCEPT ![r] = [block |-> s.validBlock, pol |-> s.validRound]]
    <2>1. s.validBlock = None => s.validRound = -1
      BY <1>0 DEF ValidKept
    <2>2. s.validBlock # None => /\ s.validBlock \in Blocks /\ s.validRound \in Rounds
                                 /\ s.validRound < r /\ s.prevotes[s.validRound] = s.validBlock
      <3>1. s.validBlock # None => /\ s.validRound \in Rounds /\ s.validRound <= s.round
                                   /\ s.prevotes[s.validRound] = s.validBlock
        BY <1>0, Zenon DEF ValidKept
      <3>2. s.validBlock # None => s.validBlock \in Blocks
        BY <1>0 DEF Typed
      <3>3. s.validRound \in Rounds /\ s.validRound <= s.round => s.validRound < r
        BY <1>1 DEF Rounds
      <3> QED  BY <3>1, <3>2, <3>3
    <2>3. t.mine = IF r \in s.myRounds
                    THEN [s.mine EXCEPT ![r] =
                            [block |-> IF s.validBlock # None THEN s.validBlock ELSE MyBlock,
                             pol |-> s.validRound]]
                    ELSE s.mine
      BY <1>8, <1>12, <1>13
    <2> QED  BY <2>1, <2>2, <2>3
  <1>16. Typed(t)
    <2>1. /\ [block |-> MyBlock, pol |-> -1] \in ProposalMsgs
          /\ s.validBlock \in Blocks /\ s.validRound \in Rounds /\ s.validRound < r =>
               [block |-> s.validBlock, pol |-> s.validRound] \in ProposalMsgs
      BY <1>1, InputsAssumption, MaxRoundAssumption DEF ProposalMsgs, Rounds
    <2>2. t.mine \in [Rounds -> ProposalMsgs \cup {None}]
      BY <1>0, <1>15, <2>1 DEF Typed
    <2>3. t.step \in Steps /\ t.hvsRound \in 0 .. MaxRound + 1
      BY <1>1, <1>12 DEF Steps
    <2>4. t.ti \in Timeouts
      BY <1>12
         DEF Timeouts, Steps, NewHeight, NewRound, Propose, Prevote, PrevoteWait, Precommit, Commit
    <2>5. t.triggered \in BOOLEAN /\ t.armed \in BOOLEAN
      BY <1>12
    <2> QED  BY <1>0, <1>12, <2>2, <2>3, <2>4, <2>5 DEF Typed, Fields
  <1>17. Sane(t)
    BY <1>0, <1>1, <1>12, <1>14 DEF Sane, Propose, Commit
  <1>18. PartsMatch(t)
    BY <1>0, <1>12, <1>14 DEF PartsMatch
  <1>19. SignedSoFar(t)
    BY <1>0, <1>1, <1>12, <1>14 DEF SignedSoFar, NothingAfter, Propose, Prevote, Precommit
  <1>20. LockKept(t)
    <2>1. \A q \in Rounds : Outvoted(s, q) => Outvoted(t, q)
      <3>1. \A n \in Rounds : n <= s.round => n <= t.round
        BY <1>1, <1>12 DEF Rounds
      <3> QED  BY <1>14, <3>1, Zenon DEF Outvoted
    <2> QED  BY <1>0, <1>14, <2>1 DEF LockKept
  <1>21. ValidKept(t)
    <2>1. \A q \in Rounds : t.mine[q] # None /\ t.mine[q].pol >= 0 =>
            t.mine[q].pol < q /\ t.prevotes[t.mine[q].pol] = t.mine[q].block
      <3> SUFFICES ASSUME NEW q \in Rounds, t.mine[q] # None, t.mine[q].pol >= 0
                   PROVE  t.mine[q].pol < q /\ s.prevotes[t.mine[q].pol] = t.mine[q].block
        BY <1>14
      <3>1. CASE t.mine[q] = s.mine[q]
        BY <1>0, <3>1 DEF ValidKept
      <3>2. CASE q = r /\ t.mine[q] # s.mine[q]
        <4>1. t.mine[q].pol = -1 \/
                /\ s.validRound < r /\ s.prevotes[s.validRound] = s.validBlock
                /\ t.mine[q].block = s.validBlock /\ t.mine[q].pol = s.validRound
          BY <1>0, <1>15, <3>2 DEF Typed
        <4> QED  BY <3>2, <4>1
      <3>3. q # r => t.mine[q] = s.mine[q]
        BY <1>0, <1>15 DEF Typed
      <3> QED  BY <3>1, <3>2, <3>3
    <2>2. 0 \in t.myRounds /\ t.mine[0] = None => t.prevotes[0] \notin Blocks
      <3>1. t.mine[0] = s.mine[0]
        BY <1>0, <1>1, <1>15, MaxRoundAssumption DEF Typed, Rounds
      <3> QED  BY <1>0, <1>14, <3>1 DEF ValidKept
    <2>3. s.validBlock # None => s.validRound <= r
      <3>1. s.validBlock # None => s.validRound \in Rounds /\ s.validRound <= s.round
        BY <1>0, Zenon DEF ValidKept
      <3> QED  BY <1>1, <3>1 DEF Rounds
    <2> QED  BY <1>0, <1>12, <1>14, <2>1, <2>2, <2>3 DEF ValidKept, Propose
  <1>22. TimerKept(t, x)
    <2>0. t.ti.round = r /\ t.ti.step = Propose
      BY <1>12
    <2>1. Scheduled(t, t.ti)
      BY <1>1, <1>12, <2>0 DEF Scheduled, NewHeight, NewRound, Propose, PrevoteWait, PrecommitWait
    <2>2. \A u \in t.tocks : Scheduled(t, u)
      <3>1. \A u \in s.tocks : /\ u.round \in Rounds /\ u.round <= s.round
                               /\ u.step \in {NewHeight, NewRound} => u.round = 0
        BY <1>0, Numbers, Zenon DEF TimerCore, Scheduled
      <3>2. \A u \in s.tocks : u.round <= r /\ u.round # r
        BY <1>1, <3>1 DEF Rounds
      <3> QED  BY <1>12, <1>14, <3>1, <3>2, Zenon DEF Scheduled
    <2>3. t.ti \in Coming(t)
      BY <1>12 DEF Coming
    <2>4. TimerCore(t, x)
      BY <1>12, <2>1, <2>2, <2>3 DEF TimerCore
    <2> QED  BY <1>12, <2>0, <2>4 DEF TimerKept, NewHeight, NewRound, Propose
  <1> QED  BY <1>12, <1>14, <1>16, <1>17, <1>18, <1>19, <1>20, <1>21, <1>22 DEF Inv

\* Round 0 is proposed for unless it has been, or is over.
LEMMA enterProposeKeeps ==
  ASSUME NEW s, Inv(s), NEW x, TimerKept(s, x), NEW t, t = enterPropose(s, 0)
  PROVE  /\ Inv(t) /\ TimerKept(t, x) /\ VotesOK(s, t)
         /\ t.round = s.round /\ (s.round = 0 => Propose <= t.step)
         /\ t.prevotes = s.prevotes /\ t.precommits = s.precommits
  <1>1. s.step \in Int /\ s.round \in Int /\ s.round >= 0 /\ TimerCore(s, x)
    BY Numbers DEF Inv, Typed, TimerKept
  <1>2. CASE s.round = 0 /\ s.step < Propose
    BY <1>1, <1>2, enterProposeEnters
  <1>3. CASE ~(s.round = 0 /\ s.step < Propose)
    <2>1. t = s
      BY <1>1, <1>3 DEF enterPropose, Propose
    <2> QED  BY <1>1, <1>3, <2>1 DEF VotesOK, Propose
  <1> QED  BY <1>2, <1>3

\* enterNewRound before it proposes in round 0.
Entered0(s) ==
  [s EXCEPT !.round = 0, !.step = NewRound, !.hvsRound = 1, !.triggered = FALSE]

\* Round 0 is entered with the timers of the new height.
LEMMA Entered0Keeps ==
  ASSUME NEW s, Inv(s), NEW x, TimerKept(s, x), s.round = 0, s.step = NewHeight,
         NEW e, e = Entered0(s)
  PROVE  /\ Inv(e) /\ TimerCore(e, x) /\ e.round = 0 /\ e.step = NewRound
         /\ ~e.triggered
         /\ e.pv = s.pv /\ e.pc = s.pc /\ e.prevotes = s.prevotes /\ e.precommits = s.precommits
  <1>0. Typed(s) /\ Sane(s) /\ TimerCore(s, x)
    BY DEF Inv, TimerKept
  <1>1. /\ DOMAIN e = Fields /\ e.round = s.round /\ e.step = NewRound /\ e.hvsRound = 1
        /\ e.triggered = FALSE /\ e.ti = s.ti /\ e.armed = s.armed /\ e.tocks = s.tocks
        /\ e.pv = s.pv /\ e.pc = s.pc /\ e.prevotes = s.prevotes /\ e.precommits = s.precommits
        /\ Frame(s, e, {"step", "hvsRound", "triggered", "ti", "armed", "tocks"})
    BY <1>0 DEF Entered0, Typed, Fields, Frame
  <1>2. Inv(e)
    <2>1. /\ s.step <= e.step /\ (s.step < Prevote => e.step < Prevote)
          /\ e.step = Commit => s.step = Commit
          /\ s.step < Precommit => e.step < Precommit
      BY <1>1 DEF NewHeight, NewRound, Prevote, Precommit, Commit
    <2>2. e.step \in Steps /\ e.hvsRound \in 0 .. MaxRound + 1 /\ s.round <= e.hvsRound
      BY <1>1, MaxRoundAssumption DEF Steps
    <2>3. e.ti \in Timeouts /\ e.tocks \subseteq Timeouts
      BY <1>0, <1>1 DEF Typed
    <2>4. e.triggered \in BOOLEAN /\ e.armed \in BOOLEAN
      BY <1>0, <1>1 DEF Typed
    <2>5. Frame(s, e, {"step", "hvsRound", "triggered", "ti", "armed", "tocks"})
      BY <1>1
    <2> QED  BY <2>1, <2>2, <2>3, <2>4, <2>5, QuietKeeps
  <1>3. \A u \in s.tocks \cup {s.ti} : Scheduled(s, u) => Scheduled(e, u)
    <2> SUFFICES ASSUME NEW u \in s.tocks \cup {s.ti}, Scheduled(s, u)
                 PROVE  Scheduled(e, u)
      OBVIOUS
    <2>1. u.step \in Int /\ u.step \in 1 .. 7
      BY <1>0, Numbers
    <2> QED  BY <1>1, <2>1 DEF Scheduled, NewHeight, NewRound, Propose, PrevoteWait, PrecommitWait
  <1>4. e.ti \in Coming(e) \/ e.ti = x \/ Past(e, e.ti)
    <2>1. Coming(e) = Coming(s)
      BY <1>1 DEF Coming
    <2>2. Past(s, s.ti) => Past(e, e.ti)
      <3>1. s.ti.round \in Int /\ s.ti.step \in Int
        BY <1>0, Numbers DEF Rounds
      <3> QED  BY <1>1, <3>1 DEF Past, NewHeight, NewRound
    <2> QED  BY <1>0, <1>1, <2>1, <2>2 DEF TimerCore
  <1>5. TimerCore(e, x)
    BY <1>0, <1>1, <1>3, <1>4 DEF TimerCore
  <1> QED  BY <1>1, <1>2, <1>5

\* Entering a round that is over or was entered does nothing; afterwards the
\* validator is in the round or in a later one.
LEMMA enterNewRoundKeeps ==
  ASSUME NEW s, Inv(s), NEW x, TimerKept(s, x), NEW r \in Rounds,
         NEW t, t = enterNewRound(s, r)
  PROVE  /\ Inv(t) /\ TimerKept(t, x) /\ VotesOK(s, t)
         /\ t.round = IF s.round < r THEN r ELSE s.round
         /\ t.step # NewHeight /\ t.pc = s.pc /\ (r > 0 => t.pv = s.pv)
         /\ t.prevotes = s.prevotes /\ t.precommits = s.precommits
  <1>0. Typed(s) /\ Sane(s) /\ TimerCore(s, x)
    BY DEF Inv, TimerKept
  <1>1. s.step \in Int /\ s.round \in Int /\ s.round >= 0 /\ r \in Int /\ r >= 0 /\ s.round \in Rounds
    BY <1>0, Numbers DEF Typed, Rounds
  <1>2. CASE r < s.round \/ (r = s.round /\ s.step # NewHeight)
    <2>1. t = s
      BY <1>2 DEF enterNewRound
    <2>2. s.step # NewHeight
      BY <1>0, <1>1, <1>2 DEF Sane, NewHeight, Propose
    <2>3. ~(s.round < r)
      BY <1>1, <1>2
    <2> QED  BY <2>1, <2>2, <2>3 DEF VotesOK
  <1>3. CASE s.round < r
    <2>1. /\ Inv(t) /\ TimerKept(t, x) /\ t.round = r /\ t.step = Propose
          /\ t.pv = s.pv /\ t.pc = s.pc /\ t.prevotes = s.prevotes /\ t.precommits = s.precommits
      BY <1>0, <1>3, LaterRound
    <2>2. t.step # NewHeight
      BY <2>1 DEF NewHeight, Propose
    <2> QED  BY <1>3, <2>1, <2>2 DEF VotesOK
  <1>4. CASE r = s.round /\ s.step = NewHeight
    <2>0. r = 0 /\ s.round = 0 /\ ~(s.round < r) /\ ~(r > 0)
      BY <1>0, <1>4 DEF Sane, NewHeight, Propose
    <2> DEFINE e == Entered0(s)
    <2>1. t = IF ~s.waitForTxs THEN enterPropose(e, 0)
              ELSE IF EmptyInterval THEN ScheduleTimeout(e, 0, NewRound) ELSE e
      <3>1. ~(r < s.round \/ (r = s.round /\ s.step # NewHeight)) /\ r = 0 /\ r + 1 = 1
        BY <1>1, <1>4, <2>0
      <3> QED  BY <3>1 DEF enterNewRound, Entered0
    <2>2. /\ Inv(e) /\ TimerCore(e, x) /\ e.round = 0 /\ e.step = NewRound
          /\ ~e.triggered
          /\ e.pv = s.pv /\ e.pc = s.pc /\ e.prevotes = s.prevotes /\ e.precommits = s.precommits
      BY <1>4, <2>0, Entered0Keeps
    <2> HIDE DEF e
    <2>3. CASE t = enterPropose(e, 0)
      <3>1. e.step < Propose
        BY <2>2 DEF NewRound, Propose
      <3>2. /\ Inv(t) /\ TimerKept(t, x) /\ VotesOK(e, t) /\ t.round = 0 /\ Propose <= t.step
            /\ t.pc = e.pc /\ t.prevotes = e.prevotes /\ t.precommits = e.precommits
        BY <2>2, <2>3, <3>1, enterProposeEnters
      <3>3. VotesOK(s, t)
        BY <2>2, <3>2 DEF VotesOK
      <3>4. t.step # NewHeight
        BY <3>2 DEF Propose, NewHeight
      <3> QED  BY <2>0, <2>2, <3>2, <3>3, <3>4
    <2>4. CASE EmptyInterval /\ t = ScheduleTimeout(e, 0, NewRound)
      <3>0. Typed(e) /\ Sane(e)
        BY <2>2 DEF Inv
      <3>1. /\ Frame(e, t, {"ti", "armed"})
            /\ t.ti \in Timeouts /\ t.armed \in BOOLEAN
            /\ t.ti.round = e.round /\ t.ti.step >= NewRound
            /\ t.ti = e.ti \/ t.ti.step = NewRound
            /\ t.ti \in Coming(t) \/ t.ti = x \/ Past(e, t.ti)
        BY <2>2, <2>4, <3>0, ScheduleKeeps
      <3>2. /\ Frame(e, t, {"step", "hvsRound", "triggered", "ti", "armed", "tocks"})
            /\ t.round = e.round /\ t.step = e.step /\ t.hvsRound = e.hvsRound
            /\ t.triggered = e.triggered /\ t.tocks = e.tocks
            /\ t.pv = e.pv /\ t.pc = e.pc /\ t.prevotes = e.prevotes /\ t.precommits = e.precommits
        BY <3>1 DEF Frame, Fields
      <3>3. Inv(t)
        <4>1. /\ e.step <= t.step /\ t.step \in Steps /\ t.hvsRound \in 0 .. MaxRound + 1
              /\ e.round <= t.hvsRound /\ t.tocks \subseteq Timeouts
          BY <2>2, <3>0, <3>2 DEF Sane, Typed, NewRound
        <4>2. t.triggered \in BOOLEAN
          BY <3>0, <3>2 DEF Typed
        <4> QED  BY <2>2, <3>1, <3>2, <4>1, <4>2, QuietKeeps
      <3>4. Scheduled(t, t.ti)
        BY <2>2, <3>1, <3>2 DEF TimerCore, Scheduled, NewHeight, NewRound, Propose, PrevoteWait,
              PrecommitWait
      <3>5. \A u \in t.tocks : Scheduled(t, u)
        BY <2>2, <3>2 DEF TimerCore, Scheduled
      <3>6. t.ti \in Coming(t) \/ t.ti = x \/ Past(t, t.ti)
        BY <3>1, <3>2 DEF Past
      <3>7. TimerCore(t, x)
        BY <2>2, <3>2, <3>4, <3>5, <3>6 DEF TimerCore
      <3>8. TimerKept(t, x)
        BY <2>2, <3>1, <3>2, <3>7 DEF TimerKept, NewHeight, NewRound, Propose, PrevoteWait
      <3>9. t.step # NewHeight
        BY <2>2, <3>2 DEF NewRound, NewHeight
      <3> QED  BY <2>0, <2>2, <3>2, <3>3, <3>8, <3>9 DEF VotesOK
    <2>5. CASE ~EmptyInterval /\ t = e
      <3>1. TimerKept(t, x) /\ t.step # NewHeight
        BY <2>2, <2>5 DEF TimerKept, NewHeight, NewRound, Propose, PrevoteWait
      <3> QED  BY <2>0, <2>2, <2>5, <3>1 DEF VotesOK
    <2> QED  BY <2>1, <2>3, <2>4, <2>5
  <1> QED  BY <1>1, <1>2, <1>3, <1>4

\* The parts of a block are not nil.
LEMMA WholeSets ==
  ASSUME NEW b \in Blocks
  PROVE  [of |-> b, full |-> TRUE] # None
  <1>1. [of |-> b, full |-> TRUE] \in [of : Blocks, full : BOOLEAN]
    OBVIOUS
  <1> QED  BY <1>1, NilAssumption

\* The timers' part of the invariant depends on a few fields only.
LEMMA TimerKeptFrame ==
  ASSUME NEW s, NEW t, NEW x, TimerKept(s, x), t.round = s.round, t.step = s.step, t.ti = s.ti,
         t.armed = s.armed, t.tocks = s.tocks, t.triggered = s.triggered
  PROVE  TimerKept(t, x)
  <1>1. Coming(t) = Coming(s)
    BY DEF Coming
  <1>2. TimerCore(t, x)
    BY <1>1 DEF TimerKept, TimerCore, Scheduled, Past
  <1> QED  BY <1>2 DEF TimerKept

\* A change of the proposal, its block or what is decided signs nothing and
\* starts nothing.
LEMMA BlockKeeps ==
  ASSUME NEW s, Inv(s), NEW x, TimerKept(s, x), NEW t,
         Frame(s, t, {"proposal", "block", "parts", "decided"}),
         t.proposal \in ProposalMsgs \cup {None}, t.block \in Blocks \cup {None},
         t.parts \in PartSets \cup {None}, t.decided \in Blocks \cup {None}, PartsMatch(t)
  PROVE  /\ Inv(t) /\ TimerKept(t, x) /\ VotesOK(s, t)
         /\ t.round = s.round /\ t.step = s.step /\ t.pv = s.pv /\ t.pc = s.pc
         /\ t.prevotes = s.prevotes /\ t.precommits = s.precommits
  <1>0. Typed(s) /\ Sane(s) /\ SignedSoFar(s) /\ LockKept(s) /\ ValidKept(s)
    BY DEF Inv
  <1>1. DOMAIN t = Fields /\ \A f \in Fields \ {"proposal", "block", "parts", "decided"} : t[f] = s[f]
    BY DEF Frame
  <1>2. /\ t.round = s.round /\ t.step = s.step /\ t.hvsRound = s.hvsRound
        /\ t.prevotes = s.prevotes /\ t.precommits = s.precommits
        /\ t.failed = s.failed /\ t.commitRound = s.commitRound
        /\ t.lockedBlock = s.lockedBlock /\ t.lockedRound = s.lockedRound
        /\ t.validBlock = s.validBlock /\ t.validRound = s.validRound
        /\ t.pv = s.pv /\ t.pc = s.pc /\ t.mine = s.mine /\ t.myRounds = s.myRounds
    BY <1>1 DEF Fields
  <1>3. t.ti = s.ti /\ t.armed = s.armed /\ t.tocks = s.tocks /\ t.triggered = s.triggered
    BY <1>1 DEF Fields
  <1>4. Typed(t)
    BY <1>0, <1>1 DEF Typed, Fields
  <1>5. Sane(t)
    BY <1>0, <1>2 DEF Sane
  <1>6. SignedSoFar(t)
    BY <1>0, <1>2 DEF SignedSoFar
  <1>7. LockKept(t)
    BY <1>0, <1>2, LockKeptFrame
  <1>8. ValidKept(t)
    BY <1>0, <1>2 DEF ValidKept
  <1>9. TimerKept(t, x)
    BY <1>2, <1>3, TimerKeptFrame
  <1>10. VotesOK(s, t)
    BY <1>2 DEF VotesOK
  <1> QED  BY <1>2, <1>4, <1>5, <1>6, <1>7, <1>8, <1>9, <1>10 DEF Inv

\* A block that has its commit is whole and valid, so finalizeCommit decides.
LEMMA tryFinalizeCommitKeeps ==
  ASSUME NEW s, Inv(s), NEW x, TimerKept(s, x), s.step = Commit,
         NEW t, t = tryFinalizeCommit(s)
  PROVE  /\ Inv(t) /\ TimerKept(t, x) /\ VotesOK(s, t)
         /\ t.round = s.round /\ t.step = s.step /\ t.pv = s.pv /\ t.pc = s.pc
         /\ t.prevotes = s.prevotes /\ t.precommits = s.precommits
  <1>0. Typed(s) /\ Sane(s) /\ PartsMatch(s)
    BY DEF Inv
  <1> DEFINE maj == s.precommits[s.commitRound]
  <1>1. CASE ~(maj \in Blocks /\ s.block = maj)
    <2>1. t = s
      BY <1>1 DEF tryFinalizeCommit
    <2> QED  BY <2>1 DEF VotesOK
  <1>2. CASE maj \in Blocks /\ s.block = maj
    <2>1. s.block # None /\ s.block \in Blocks
      BY <1>2, ValuesAssumption
    <2>2. s.parts = [of |-> s.block, full |-> TRUE]
      BY <1>0, <2>1 DEF PartsMatch
    <2>3. s.parts # None /\ s.parts.of = maj
      <3>1. s.parts # None
        BY <2>1, <2>2, WholeSets
      <3> QED  BY <1>2, <2>2, <3>1
    <2>4. s.block \notin Invalid
      BY <1>0, <1>2 DEF Sane
    <2>5. t = [s EXCEPT !.decided = s.block]
      BY <1>2, <2>3, <2>4 DEF tryFinalizeCommit, finalizeCommit, HasHeader
    <2>6. /\ Frame(s, t, {"proposal", "block", "parts", "decided"}) /\ t.proposal = s.proposal
          /\ t.block = s.block /\ t.parts = s.parts /\ t.decided = s.block
          /\ t.lockedBlock = s.lockedBlock /\ t.lockedParts = s.lockedParts
          /\ t.validBlock = s.validBlock /\ t.validParts = s.validParts
      BY <1>0, <2>5 DEF Frame, Fields, Typed
    <2>7. PartsMatch(t)
      BY <1>0, <2>6, PartsMatchFrame
    <2>8. /\ t.proposal \in ProposalMsgs \cup {None} /\ t.block \in Blocks \cup {None}
          /\ t.parts \in PartSets \cup {None} /\ t.decided \in Blocks \cup {None}
      BY <1>0, <2>1, <2>6 DEF Typed
    <2> QED  BY <2>6, <2>7, <2>8, BlockKeeps
  <1> QED  BY <1>1, <1>2

\* The block to commit is the locked one, the proposal or one to be fetched.
LEMMA enterCommitKeeps ==
  ASSUME NEW s, Inv(s), NEW x, TimerKept(s, x), NEW r \in Rounds, s.precommits[r] \in Blocks,
         NEW t, t = enterCommit(s, r)
  PROVE  /\ Inv(t) /\ TimerKept(t, x) /\ VotesOK(s, t)
         /\ t.round = s.round /\ t.pv = s.pv /\ t.prevotes = s.prevotes
  <1>0. Typed(s) /\ Sane(s) /\ PartsMatch(s) /\ SignedSoFar(s) /\ LockKept(s) /\ ValidKept(s)
    BY DEF Inv
  <1>1. s.step \in Int /\ s.step \in 1 .. 8 /\ s.round \in Int
    BY <1>0, Numbers
  <1>2. CASE Commit <= s.step
    <2>1. t = s
      BY <1>2 DEF enterCommit
    <2> QED  BY <2>1 DEF VotesOK
  <1>3. CASE ~(Commit <= s.step)
    <2> DEFINE maj == s.precommits[r]
               moved == IF s.lockedBlock = maj
                        THEN [s EXCEPT !.block = s.lockedBlock, !.parts = s.lockedParts] ELSE s
               fetch == IF moved.block = maj \/ HasHeader(moved.parts, maj) THEN moved
                        ELSE [moved EXCEPT !.block = None, !.parts = NewPartSetFromHeader(maj)]
               c == [fetch EXCEPT !.step = Commit, !.commitRound = r]
    <2>1. t = tryFinalizeCommit(c)
      BY <1>3 DEF enterCommit, Values
    <2>2. /\ Frame(s, moved, {"block", "parts"})
          /\ \/ moved.block = s.block /\ moved.parts = s.parts
             \/ s.lockedBlock = maj /\ moved.block = s.lockedBlock /\ moved.parts = s.lockedParts
      BY <1>0 DEF Frame, Fields, Typed
    <2> HIDE DEF moved
    <2>3. /\ Frame(s, fetch, {"block", "parts"})
          /\ \/ fetch.block = moved.block /\ fetch.parts = moved.parts
             \/ fetch.block = None /\ fetch.parts = NewPartSetFromHeader(maj)
      BY <2>2 DEF Frame, Fields
    <2> HIDE DEF fetch
    <2>4. /\ DOMAIN c = Fields
          /\ \A f \in Fields \ {"block", "parts", "step", "commitRound"} : c[f] = s[f]
          /\ c.block = fetch.block /\ c.parts = fetch.parts /\ c.step = Commit /\ c.commitRound = r
      BY <2>3 DEF Frame, Fields
    <2> HIDE DEF c
    <2>5. /\ c.round = s.round /\ c.hvsRound = s.hvsRound
          /\ c.prevotes = s.prevotes /\ c.precommits = s.precommits /\ c.failed = s.failed
          /\ c.lockedBlock = s.lockedBlock /\ c.lockedRound = s.lockedRound
          /\ c.lockedParts = s.lockedParts /\ c.validParts = s.validParts
          /\ c.validBlock = s.validBlock /\ c.validRound = s.validRound
          /\ c.pv = s.pv /\ c.pc = s.pc /\ c.mine = s.mine /\ c.myRounds = s.myRounds
          /\ c.ti = s.ti /\ c.tocks = s.tocks
      BY <2>4 DEF Fields
    <2>6. c.armed = s.armed /\ c.triggered = s.triggered
      BY <2>4 DEF Fields
    <2>7. \/ c.block = s.block /\ c.parts = s.parts
          \/ s.lockedBlock = maj /\ c.block = s.lockedBlock /\ c.parts = s.lockedParts
          \/ c.block = None /\ c.parts = NewPartSetFromHeader(maj)
      BY <2>2, <2>3, <2>4
    <2>8. NewPartSetFromHeader(maj) \in PartSets /\ NewPartSetFromHeader(maj).full = FALSE
      BY DEF NewPartSetFromHeader, PartSets
    <2>9. PartsMatch(c)
      <3>1. CASE c.block = s.block /\ c.parts = s.parts
        BY <1>0, <2>5, <3>1, PartsMatchFrame
      <3>2. CASE s.lockedBlock = maj /\ c.block = s.lockedBlock /\ c.parts = s.lockedParts
        <4>1. c.block # None /\ c.parts = [of |-> c.block, full |-> TRUE]
          BY <1>0, <3>2, ValuesAssumption DEF PartsMatch
        <4> QED  BY <1>0, <2>5, <4>1 DEF PartsMatch
      <3>3. CASE c.block = None /\ c.parts = NewPartSetFromHeader(maj)
        BY <1>0, <2>5, <2>8, <3>3 DEF PartsMatch
      <3> QED  BY <2>7, <3>1, <3>2, <3>3
    <2>10. Typed(c)
      <3>1. c.block \in Blocks \cup {None} /\ c.parts \in PartSets \cup {None}
        BY <1>0, <2>7, <2>8 DEF Typed
      <3>2. c.step \in Steps /\ c.commitRound \in Rounds \cup {-1}
        BY <2>4 DEF Steps
      <3> QED  BY <1>0, <2>4, <3>1, <3>2 DEF Typed, Fields
    <2>11. Sane(c)
      BY <1>0, <2>4, <2>5 DEF Sane, Commit, Propose
    <2>12. SignedSoFar(c)
      BY <1>0, <2>4, <2>5 DEF SignedSoFar, Commit, Prevote, Precommit
    <2>13. LockKept(c)
      BY <1>0, <2>5, LockKeptFrame
    <2>14. ValidKept(c)
      <3>1. ~(c.step < Propose)
        BY <2>4 DEF Commit, Propose
      <3> QED  BY <1>0, <2>5, <3>1, ValidKeptFrame
    <2>15. TimerKept(c, x)
      <3>1. TimerCore(s, x)
        BY DEF TimerKept
      <3>2. \A u \in s.tocks \cup {s.ti} : Scheduled(s, u) => Scheduled(c, u)
        <4> SUFFICES ASSUME NEW u \in s.tocks \cup {s.ti}, Scheduled(s, u)
                     PROVE  Scheduled(c, u)
          OBVIOUS
        <4>1. u.step \in Int /\ u.step \in 1 .. 7
          BY <1>0, Numbers
        <4> QED  BY <1>1, <2>4, <2>5, <4>1
                 DEF Scheduled, NewHeight, NewRound, Propose, PrevoteWait, PrecommitWait, Commit
      <3>3. s.ti \in Coming(c) \/ s.ti = x \/ Past(c, s.ti)
        <4>1. Coming(c) = Coming(s)
          BY <2>5, <2>6 DEF Coming
        <4>2. Past(s, s.ti) => Past(c, s.ti)
          <5>1. s.ti.step \in Int
            BY <1>0, Numbers
          <5> QED  BY <1>1, <2>4, <2>5, <5>1 DEF Past, Commit
        <4> QED  BY <3>1, <4>1, <4>2 DEF TimerCore
      <3>4. TimerCore(c, x)
        BY <2>5, <2>6, <3>1, <3>2, <3>3 DEF TimerCore
      <3> QED  BY <2>4, <3>4 DEF TimerKept, NewHeight, NewRound, Propose, PrevoteWait, Commit
    <2>16. Inv(c)
      BY <2>9, <2>10, <2>11, <2>12, <2>13, <2>14 DEF Inv
    <2>17. /\ Inv(t) /\ TimerKept(t, x) /\ VotesOK(c, t)
           /\ t.round = c.round /\ t.step = c.step /\ t.pv = c.pv /\ t.pc = c.pc
           /\ t.prevotes = c.prevotes /\ t.precommits = c.precommits
      BY <2>1, <2>4, <2>15, <2>16, tryFinalizeCommitKeeps
    <2> QED  BY <2>5, <2>17 DEF VotesOK
  <1> QED  BY <1>2, <1>3

(***************************************************************************)
(* A vote is added.                                                        *)
(***************************************************************************)
\* A set with two thirds for one value stays so, and no set gets them for a
\* block that is invalid.
LEMMA GrownVotes ==
  ASSUME NEW w \in VoteSet, w \notin Invalid, NEW v \in Grown(w)
  PROVE  v \in VoteSet /\ v \notin Invalid /\ (w \in Values => v = w)
  <1>1. Any \notin Invalid /\ Few \notin Invalid
    BY InputsAssumption, AnswersAssumption DEF Values
  <1>2. CASE w = Few
    BY <1>2, AnswersAssumption DEF Grown
  <1>3. CASE w = Any /\ w # Few
    BY <1>1, <1>3, AnswersAssumption DEF Grown, VoteSet
  <1>4. CASE w # Any /\ w # Few
    BY <1>4 DEF Grown
  <1> QED  BY <1>2, <1>3, <1>4

\* One more prevote: what was outvoted, valid or proposed for good reason
\* stays so.
LEMMA PrevoteAdded ==
  ASSUME NEW s, Inv(s), NEW x, TimerKept(s, x), NEW r \in Rounds,
         NEW v \in Grown(s.prevotes[r]), Proposed(s, r, v),
         NEW t, t = [s EXCEPT !.prevotes[r] = v]
  PROVE  /\ Inv(t) /\ TimerKept(t, x) /\ t.pv = s.pv /\ t.pc = s.pc
         /\ t.prevotes[r] = v
  <1>0. Typed(s) /\ Sane(s) /\ PartsMatch(s) /\ SignedSoFar(s) /\ LockKept(s) /\ ValidKept(s)
    BY DEF Inv
  <1>1. /\ DOMAIN t = Fields /\ \A f \in Fields \ {"prevotes"} : t[f] = s[f]
        /\ t.prevotes = [s.prevotes EXCEPT ![r] = v]
    BY <1>0 DEF Typed, Fields
  <1>2. s.prevotes \in [Rounds -> VoteSet]
    BY <1>0 DEF Typed
  <1>3. v \in VoteSet /\ v \notin Invalid /\ (s.prevotes[r] \in Values => v = s.prevotes[r])
    <2>1. s.prevotes[r] \in VoteSet /\ s.prevotes[r] \notin Invalid
      BY <1>0, <1>2 DEF Sane
    <2> QED  BY <2>1, GrownVotes
  <1>4. /\ t.prevotes \in [Rounds -> VoteSet] /\ t.prevotes[r] = v
        /\ \A q \in Rounds : s.prevotes[q] \in Values => t.prevotes[q] = s.prevotes[q]
        /\ \A q \in Rounds : t.prevotes[q] = s.prevotes[q] \/ (q = r /\ t.prevotes[q] = v)
    BY <1>1, <1>2, <1>3
  <1>5. /\ t.round = s.round /\ t.step = s.step /\ t.hvsRound = s.hvsRound
        /\ t.precommits = s.precommits /\ t.failed = s.failed /\ t.commitRound = s.commitRound
        /\ t.block = s.block /\ t.parts = s.parts
        /\ t.lockedBlock = s.lockedBlock /\ t.lockedRound = s.lockedRound
        /\ t.lockedParts = s.lockedParts /\ t.validParts = s.validParts
        /\ t.validBlock = s.validBlock /\ t.validRound = s.validRound
        /\ t.pv = s.pv /\ t.pc = s.pc /\ t.mine = s.mine /\ t.myRounds = s.myRounds
        /\ t.ti = s.ti /\ t.tocks = s.tocks
    BY <1>1 DEF Fields
  <1>6. t.armed = s.armed /\ t.triggered = s.triggered
    BY <1>1 DEF Fields
  <1>7. Typed(t)
    BY <1>0, <1>1, <1>4 DEF Typed, Fields
  <1>8. Sane(t)
    BY <1>0, <1>3, <1>4, <1>5 DEF Sane
  <1>9. PartsMatch(t)
    BY <1>0, <1>5, PartsMatchFrame
  <1>10. SignedSoFar(t)
    BY <1>0, <1>5 DEF SignedSoFar
  <1>11. LockKept(t)
    <2>1. \A q \in Rounds : Outvoted(s, q) => Outvoted(t, q)
      BY <1>4, <1>5, Zenon DEF Outvoted
    <2> QED  BY <1>0, <1>5, <2>1 DEF LockKept
  <1>12. ValidKept(t)
    <2>1. s.validBlock # None => t.prevotes[s.validRound] = s.validBlock
      <3>1. s.validBlock # None => s.validBlock \in Values
        BY <1>0 DEF Typed, Values
      <3> QED  BY <1>0, <1>4, <3>1 DEF ValidKept
    <2>2. \A q \in Rounds : t.mine[q] # None /\ t.mine[q].pol >= 0 =>
            t.mine[q].pol < q /\ t.prevotes[t.mine[q].pol] = t.mine[q].block
      <3> SUFFICES ASSUME NEW q \in Rounds, s.mine[q] # None, s.mine[q].pol >= 0
                   PROVE  s.mine[q].pol < q /\ t.prevotes[s.mine[q].pol] = s.mine[q].block
        BY <1>5
      <3>1. s.mine[q].pol < q /\ s.prevotes[s.mine[q].pol] = s.mine[q].block
        BY <1>0 DEF ValidKept
      <3>2. s.mine[q] \in ProposalMsgs
        BY <1>0 DEF Typed
      <3>3. s.mine[q].block \in Values /\ s.mine[q].pol \in Rounds
        BY <3>1, <3>2, MaxRoundAssumption DEF ProposalMsgs, Values, Rounds
      <3> QED  BY <1>4, <3>1, <3>3
    <2>3. 0 \in t.myRounds /\ t.mine[0] = None => t.prevotes[0] \notin Blocks
      BY <1>0, <1>4, <1>5, MaxRoundAssumption DEF ValidKept, Proposed, Rounds
    <2> QED  BY <1>0, <1>5, <2>1, <2>2, <2>3 DEF ValidKept
  <1>13. TimerKept(t, x)
    BY <1>5, <1>6, TimerKeptFrame
  <1> QED  BY <1>4, <1>5, <1>7, <1>8, <1>9, <1>10, <1>11, <1>12, <1>13 DEF Inv

\* One more precommit changes nothing else.
LEMMA PrecommitAdded ==
  ASSUME NEW s, Inv(s), NEW x, TimerKept(s, x), NEW r \in Rounds,
         NEW v \in Grown(s.precommits[r]),
         NEW t, t = [s EXCEPT !.precommits[r] = v]
  PROVE  /\ Inv(t) /\ TimerKept(t, x) /\ t.pv = s.pv /\ t.pc = s.pc
         /\ t.precommits[r] = v
  <1>0. Typed(s) /\ Sane(s) /\ PartsMatch(s) /\ SignedSoFar(s) /\ LockKept(s) /\ ValidKept(s)
    BY DEF Inv
  <1>1. /\ DOMAIN t = Fields /\ \A f \in Fields \ {"precommits"} : t[f] = s[f]
        /\ t.precommits = [s.precommits EXCEPT ![r] = v]
    BY <1>0 DEF Typed, Fields
  <1>2. s.precommits \in [Rounds -> VoteSet]
    BY <1>0 DEF Typed
  <1>3. v \in VoteSet /\ v \notin Invalid
    <2>1. s.precommits[r] \in VoteSet /\ s.precommits[r] \notin Invalid
      BY <1>0, <1>2 DEF Sane
    <2> QED  BY <2>1, GrownVotes
  <1>4. /\ t.precommits \in [Rounds -> VoteSet] /\ t.precommits[r] = v
        /\ \A q \in Rounds : t.precommits[q] = s.precommits[q] \/ t.precommits[q] = v
    BY <1>1, <1>2, <1>3
  <1>5. /\ t.round = s.round /\ t.step = s.step /\ t.hvsRound = s.hvsRound
        /\ t.prevotes = s.prevotes /\ t.failed = s.failed /\ t.commitRound = s.commitRound
        /\ t.block = s.block /\ t.parts = s.parts
        /\ t.lockedBlock = s.lockedBlock /\ t.lockedRound = s.lockedRound
        /\ t.lockedParts = s.lockedParts /\ t.validParts = s.validParts
        /\ t.validBlock = s.validBlock /\ t.validRound = s.validRound
        /\ t.pv = s.pv /\ t.pc = s.pc /\ t.mine = s.mine /\ t.myRounds = s.myRounds
        /\ t.ti = s.ti /\ t.tocks = s.tocks
    BY <1>1 DEF Fields
  <1>6. t.armed = s.armed /\ t.triggered = s.triggered
    BY <1>1 DEF Fields
  <1>7. Typed(t)
    BY <1>0, <1>1, <1>4 DEF Typed, Fields
  <1>8. Sane(t)
    BY <1>0, <1>3, <1>4, <1>5 DEF Sane
  <1>9. PartsMatch(t) /\ LockKept(t)
    BY <1>0, <1>5, PartsMatchFrame, LockKeptFrame
  <1>10. SignedSoFar(t)
    BY <1>0, <1>5 DEF SignedSoFar
  <1>11. ValidKept(t)
    BY <1>0, <1>5 DEF ValidKept
  <1>12. TimerKept(t, x)
    BY <1>5, <1>6, TimerKeptFrame
  <1> QED  BY <1>4, <1>5, <1>7, <1>8, <1>9, <1>10, <1>11, <1>12 DEF Inv

\* A polka of a later round releases the lock: everything precommitted until
\* then has been outvoted.
LEMMA unlockByPolkaKeeps ==
  ASSUME NEW s, Inv(s), NEW x, TimerKept(s, x), NEW r \in Rounds,
         NEW t, t = unlockByPolka(s, r)
  PROVE  /\ Inv(t) /\ TimerKept(t, x) /\ t.round = s.round /\ t.step = s.step
         /\ t.pv = s.pv /\ t.pc = s.pc /\ t.prevotes = s.prevotes /\ t.precommits = s.precommits
  <1>0. Typed(s) /\ Sane(s) /\ PartsMatch(s) /\ SignedSoFar(s) /\ LockKept(s) /\ ValidKept(s)
    BY DEF Inv
  <1> DEFINE polka == /\ s.prevotes[r] \in Values
                      /\ s.lockedBlock # None /\ s.lockedBlock # s.prevotes[r]
                      /\ s.lockedRound < r /\ r <= s.round
  <1>1. CASE ~polka
    <2>1. t = s
      BY <1>1 DEF unlockByPolka
    <2> QED  BY <2>1
  <1>2. CASE polka
    <2>1. t = Unlock(s)
      BY <1>2 DEF unlockByPolka
    <2>2. /\ DOMAIN t = Fields
          /\ \A f \in Fields \ {"lockedRound", "lockedBlock", "lockedParts"} : t[f] = s[f]
          /\ t.lockedRound = -1 /\ t.lockedBlock = None /\ t.lockedParts = None
      BY <1>0, <2>1 DEF Unlock, Fields, Typed
    <2>3. /\ t.round = s.round /\ t.step = s.step /\ t.hvsRound = s.hvsRound
          /\ t.prevotes = s.prevotes /\ t.precommits = s.precommits
          /\ t.failed = s.failed /\ t.commitRound = s.commitRound
          /\ t.block = s.block /\ t.parts = s.parts /\ t.validParts = s.validParts
          /\ t.validBlock = s.validBlock /\ t.validRound = s.validRound
          /\ t.pv = s.pv /\ t.pc = s.pc /\ t.mine = s.mine /\ t.myRounds = s.myRounds
          /\ t.ti = s.ti /\ t.tocks = s.tocks
      BY <2>2 DEF Fields
    <2>4. t.armed = s.armed /\ t.triggered = s.triggered
      BY <2>2 DEF Fields
    <2>5. Typed(t)
      BY <1>0, <2>2 DEF Typed, Fields
    <2>6. Sane(t)
      BY <1>0, <2>3 DEF Sane
    <2>7. PartsMatch(t)
      BY <1>0, <2>2, <2>3 DEF PartsMatch
    <2>8. SignedSoFar(t)
      BY <1>0, <2>3 DEF SignedSoFar
    <2>9. ValidKept(t)
      BY <1>0, <2>3 DEF ValidKept
    <2>10. LockKept(t)
      <3>1. ASSUME NEW q \in Rounds, s.pc[q] \in Blocks PROVE Outvoted(t, q)
        <4>1. CASE s.pc[q] = s.lockedBlock
          <5>1. s.lockedRound \in Rounds /\ ~(q > s.lockedRound)
            BY <1>0, <1>2, <3>1, ValuesAssumption DEF LockKept
          <5>2. r > q /\ r <= s.round
            BY <1>2, <5>1 DEF Rounds
          <5> QED  BY <1>2, <2>3, <4>1, <5>2, Zenon DEF Outvoted
        <4>2. CASE s.pc[q] # s.lockedBlock
          <5>1. Outvoted(s, q)
            BY <1>0, <3>1, <4>2, Zenon DEF LockKept
          <5> QED  BY <2>3, <5>1 DEF Outvoted
        <4> QED  BY <4>1, <4>2
      <3> QED  BY <2>2, <2>3, <3>1 DEF LockKept
    <2>11. TimerKept(t, x)
      BY <2>3, <2>4, TimerKeptFrame
    <2> QED  BY <2>3, <2>5, <2>6, <2>7, <2>8, <2>9, <2>10, <2>11 DEF Inv
  <1> QED  BY <1>1, <1>2

\* The proposal with a polka of the current round becomes the valid block.
LEMMA SetValidKeeps ==
  ASSUME NEW s, Inv(s), NEW x, TimerKept(s, x), s.block \in Blocks,
         s.prevotes[s.round] = s.block, NEW t, t = SetValid(s, s.round)
  PROVE  /\ Inv(t) /\ TimerKept(t, x) /\ t.round = s.round /\ t.step = s.step
         /\ t.pv = s.pv /\ t.pc = s.pc /\ t.prevotes = s.prevotes /\ t.precommits = s.precommits
         /\ t.block = s.block /\ t.parts = s.parts
  <1>0. Typed(s) /\ Sane(s) /\ PartsMatch(s) /\ SignedSoFar(s) /\ LockKept(s) /\ ValidKept(s)
    BY DEF Inv
  <1>1. /\ DOMAIN t = Fields
        /\ \A f \in Fields \ {"validRound", "validBlock", "validParts"} : t[f] = s[f]
        /\ t.validRound = s.round /\ t.validBlock = s.block /\ t.validParts = s.parts
    BY <1>0 DEF SetValid, Fields, Typed
  <1>2. /\ t.round = s.round /\ t.step = s.step /\ t.hvsRound = s.hvsRound
        /\ t.prevotes = s.prevotes /\ t.precommits = s.precommits
        /\ t.failed = s.failed /\ t.commitRound = s.commitRound
        /\ t.block = s.block /\ t.parts = s.parts /\ t.lockedParts = s.lockedParts
        /\ t.lockedBlock = s.lockedBlock /\ t.lockedRound = s.lockedRound
        /\ t.pv = s.pv /\ t.pc = s.pc /\ t.mine = s.mine /\ t.myRounds = s.myRounds
        /\ t.ti = s.ti /\ t.tocks = s.tocks
    BY <1>1 DEF Fields
  <1>3. t.armed = s.armed /\ t.triggered = s.triggered
    BY <1>1 DEF Fields
  <1>4. Typed(t)
    BY <1>0, <1>1 DEF Typed, Fields
  <1>5. Sane(t)
    BY <1>0, <1>2 DEF Sane
  <1>6. PartsMatch(t)
    BY <1>0, <1>1, <1>2 DEF PartsMatch
  <1>7. SignedSoFar(t)
    BY <1>0, <1>2 DEF SignedSoFar
  <1>8. LockKept(t)
    BY <1>0, <1>2, LockKeptFrame
  <1>9. ValidKept(t)
    <2>1. t.validBlock # None /\ t.validRound \in Rounds /\ t.validRound <= t.round
      BY <1>0, <1>1, <1>2, ValuesAssumption, Numbers DEF Typed
    <2> QED  BY <1>0, <1>1, <1>2, <2>1 DEF ValidKept
  <1>10. TimerKept(t, x)
    BY <1>2, <1>3, TimerKeptFrame
  <1> QED  BY <1>2, <1>4, <1>5, <1>6, <1>7, <1>8, <1>9, <1>10 DEF Inv

\* A polka of the current round: its block is valid, or is the one to fetch.
LEMMA validByPolkaKeeps ==
  ASSUME NEW s, Inv(s), NEW x, TimerKept(s, x), NEW r \in Rounds,
         NEW t, t = validByPolka(s, r)
  PROVE  /\ Inv(t) /\ TimerKept(t, x) /\ t.round = s.round /\ t.step = s.step
         /\ t.pv = s.pv /\ t.pc = s.pc /\ t.prevotes = s.prevotes /\ t.precommits = s.precommits
  <1>0. Typed(s) /\ PartsMatch(s)
    BY DEF Inv
  <1> DEFINE maj == s.prevotes[r]
             polka == maj \in Blocks /\ s.validRound < r /\ r = s.round
  <1>1. CASE ~polka
    <2>1. t = s
      BY <1>1 DEF validByPolka
    <2> QED  BY <2>1
  <1>2. CASE polka /\ s.block = maj
    <2> DEFINE known == SetValid(s, s.round)
    <2>1. t = IF HasHeader(known.parts, maj) THEN known
              ELSE [known EXCEPT !.parts = NewPartSetFromHeader(maj)]
      BY <1>2 DEF validByPolka
    <2>2. /\ Inv(known) /\ TimerKept(known, x) /\ known.round = s.round /\ known.step = s.step
          /\ known.pv = s.pv /\ known.pc = s.pc /\ known.prevotes = s.prevotes
          /\ known.precommits = s.precommits /\ known.block = s.block /\ known.parts = s.parts
      BY <1>2, SetValidKeeps
    <2> HIDE DEF known
    <2>3. HasHeader(known.parts, maj)
      <3>1. s.parts = [of |-> s.block, full |-> TRUE]
        BY <1>0, <1>2, ValuesAssumption DEF PartsMatch
      <3>2. s.parts # None
        BY <1>2, <3>1, WholeSets
      <3> QED  BY <1>2, <2>2, <3>1, <3>2 DEF HasHeader
    <2> QED  BY <2>1, <2>2, <2>3
  <1>3. CASE polka /\ s.block # maj
    <2> DEFINE known == [s EXCEPT !.block = None]
    <2>1. t = IF HasHeader(known.parts, maj) THEN known
              ELSE [known EXCEPT !.parts = NewPartSetFromHeader(maj)]
      BY <1>3 DEF validByPolka
    <2>2. Frame(s, known, {"block"}) /\ known.block = None /\ known.parts = s.parts
      BY <1>0 DEF Frame, Fields, Typed
    <2> HIDE DEF known
    <2>3. /\ Frame(s, t, {"proposal", "block", "parts", "decided"})
          /\ t.proposal = s.proposal /\ t.decided = s.decided /\ t.block = None
          /\ t.lockedBlock = s.lockedBlock /\ t.lockedParts = s.lockedParts
          /\ t.validBlock = s.validBlock /\ t.validParts = s.validParts
          /\ \/ HasHeader(s.parts, maj) /\ t.parts = s.parts
             \/ t.parts = NewPartSetFromHeader(maj)
      BY <2>1, <2>2 DEF Frame, Fields
    <2>4. NewPartSetFromHeader(maj) \in PartSets /\ NewPartSetFromHeader(maj).full = FALSE
      BY <1>3 DEF NewPartSetFromHeader, PartSets
    <2>5. ~(t.parts # None /\ t.parts.full /\ t.parts.of \notin Garbled)
      <3>1. CASE HasHeader(s.parts, maj) /\ t.parts = s.parts
        BY <1>0, <1>3, <3>1 DEF HasHeader, PartsMatch
      <3>2. CASE t.parts = NewPartSetFromHeader(maj)
        BY <2>4, <3>2
      <3> QED  BY <2>3, <3>1, <3>2
    <2>6. PartsMatch(t)
      BY <1>0, <2>3, <2>5 DEF PartsMatch
    <2>7. /\ t.proposal \in ProposalMsgs \cup {None} /\ t.block \in Blocks \cup {None}
          /\ t.parts \in PartSets \cup {None} /\ t.decided \in Blocks \cup {None}
      BY <1>0, <2>3, <2>4 DEF Typed
    <2> QED  BY <2>3, <2>6, <2>7, BlockKeeps
  <1> QED  BY <1>1, <1>2, <1>3

\* addVote of a prevote, whatever round it is for.
LEMMA addPrevoteKeeps ==
  ASSUME NEW s, Inv(s), NEW x, TimerKept(s, x), NEW r \in Rounds,
         NEW t, t = addPrevote(s, r)
  PROVE  Inv(t) /\ TimerKept(t, x) /\ VotesOK(s, t)
  <1> DEFINE u == unlockByPolka(s, r)
             a == validByPolka(u, r)
             maj == s.prevotes[r]
  <1>1. /\ Inv(u) /\ TimerKept(u, x) /\ u.round = s.round /\ u.step = s.step
        /\ u.pv = s.pv /\ u.pc = s.pc /\ u.prevotes = s.prevotes /\ u.precommits = s.precommits
    BY unlockByPolkaKeeps
  <1> HIDE DEF u
  <1>2. /\ Inv(a) /\ TimerKept(a, x) /\ a.round = s.round /\ a.step = s.step
        /\ a.pv = s.pv /\ a.pc = s.pc /\ a.prevotes = s.prevotes /\ a.precommits = s.precommits
    <2>1. /\ Inv(a) /\ TimerKept(a, x) /\ a.round = u.round /\ a.step = u.step
          /\ a.pv = u.pv /\ a.pc = u.pc /\ a.prevotes = u.prevotes /\ a.precommits = u.precommits
      BY <1>1, validByPolkaKeeps
    <2> QED  BY <1>1, <2>1
  <1>3. t = CASE a.round < r /\ maj # Few -> enterNewRound(a, r)
              [] a.round = r /\ Prevote <= a.step ->
                   IF maj \in Values /\ (isProposalComplete(a) \/ maj = Nil)
                   THEN enterPrecommit(a, r)
                   ELSE IF maj # Few THEN enterPrevoteWait(a, r) ELSE a
              [] a.round > r /\ a.proposal # None /\ a.proposal.pol = r /\ isProposalComplete(a) ->
                   enterPrevote(a, a.round)
              [] OTHER -> a
    BY DEF addPrevote, u
  <1> HIDE DEF a
  <1>4. a.round \in Rounds /\ a.round \in Int /\ r \in Int /\ a.round <= a.round
    BY <1>2, Numbers DEF Inv, Typed
  <1>5. SUFFICES Inv(t) /\ TimerKept(t, x) /\ VotesOK(a, t)
    BY <1>2 DEF VotesOK
  <1>6. CASE a.round < r
    <2>1. t = enterNewRound(a, r) \/ t = a
      BY <1>3, <1>4, <1>6
    <2> QED  BY <1>2, <2>1, enterNewRoundKeeps DEF VotesOK
  <1>7. CASE a.round = r
    <2>1. \/ t = enterPrecommit(a, r)
          \/ t = enterPrevoteWait(a, r) /\ Prevote <= a.step /\ maj # Few
          \/ t = a
      BY <1>3, <1>4, <1>7
    <2>2. CASE t = enterPrecommit(a, r)
      BY <1>2, <1>4, <1>7, <2>2, enterPrecommitKeeps
    <2>3. CASE t = enterPrevoteWait(a, r) /\ Prevote <= a.step /\ maj # Few
      BY <1>2, <1>7, <2>3, enterPrevoteWaitKeeps
    <2>4. CASE t = a
      BY <1>2, <2>4 DEF VotesOK
    <2> QED  BY <2>1, <2>2, <2>3, <2>4
  <1>8. CASE a.round > r
    <2>1. t = enterPrevote(a, a.round) \/ t = a
      BY <1>3, <1>4, <1>8
    <2>2. CASE t = enterPrevote(a, a.round)
      BY <1>2, <1>4, <2>2, enterPrevoteKeeps
    <2>3. CASE t = a
      BY <1>2, <2>3 DEF VotesOK
    <2> QED  BY <2>1, <2>2, <2>3
  <1> QED  BY <1>4, <1>6, <1>7, <1>8

\* addVote of a precommit, whatever round it is for.
LEMMA addPrecommitKeeps ==
  ASSUME NEW s, Inv(s), NEW x, TimerKept(s, x), NEW r \in Rounds,
         NEW t, t = addPrecommit(s, r)
  PROVE  Inv(t) /\ TimerKept(t, x) /\ VotesOK(s, t)
  <1> DEFINE n == enterNewRound(s, r)
             a == enterPrecommit(n, r)
             maj == s.precommits[r]
  <1>1. /\ Inv(n) /\ TimerKept(n, x) /\ VotesOK(s, n)
        /\ n.round = IF s.round < r THEN r ELSE s.round
        /\ n.step # NewHeight /\ n.pc = s.pc
        /\ n.prevotes = s.prevotes /\ n.precommits = s.precommits
    BY enterNewRoundKeeps
  <1>2. t = IF maj \in Values
            THEN IF maj = Nil THEN enterPrecommitWait(a, r) ELSE enterCommit(a, r)
            ELSE IF s.round <= r /\ maj # Few THEN enterPrecommitWait(n, r) ELSE s
    BY DEF addPrecommit
  <1> HIDE DEF n
  <1>3. s.round \in Int /\ r \in Int /\ n.step \in Int /\ n.step \in 1 .. 8 /\ r <= n.round
    BY <1>1, Numbers DEF Inv
  <1>4. CASE maj \in Values
    <2>1. /\ Inv(a) /\ TimerKept(a, x) /\ VotesOK(n, a) /\ a.round = n.round /\ n.step <= a.step
          /\ a.pv = n.pv /\ a.prevotes = n.prevotes /\ a.precommits = n.precommits
      BY <1>1, <1>3, enterPrecommitKeeps
    <2> HIDE DEF a
    <2>2. VotesOK(s, a)
      BY <1>1, <2>1, VotesCompose
    <2>3. a.step # NewHeight /\ r <= a.round
      <3>1. a.step \in Int
        BY <2>1, Numbers DEF Inv
      <3> QED  BY <1>1, <1>3, <2>1, <3>1 DEF NewHeight
    <2>4. Inv(t) /\ TimerKept(t, x) /\ VotesOK(a, t) /\ t.pv = a.pv /\ t.prevotes = a.prevotes
      <3>1. CASE maj = Nil
        <4>1. a.precommits[r] # Few
          BY <1>1, <1>4, <2>1, AnswersAssumption
        <4> QED  BY <1>2, <1>4, <2>1, <2>3, <3>1, <4>1, enterPrecommitWaitKeeps
      <3>2. CASE maj # Nil
        <4>1. a.precommits[r] \in Blocks
          BY <1>1, <1>4, <2>1, <3>2 DEF Values
        <4> QED  BY <1>2, <1>4, <2>1, <3>2, <4>1, enterCommitKeeps
      <3> QED  BY <3>1, <3>2
    <2> QED  BY <2>2, <2>4, VotesCompose
  <1>5. CASE maj \notin Values /\ s.round <= r /\ maj # Few
    <2>1. /\ Inv(t) /\ TimerKept(t, x) /\ VotesOK(n, t)
          /\ t.pv = n.pv /\ t.prevotes = n.prevotes
      BY <1>1, <1>2, <1>3, <1>5, enterPrecommitWaitKeeps
    <2> QED  BY <1>1, <2>1, VotesCompose
  <1>6. CASE t = s
    BY <1>6 DEF VotesOK
  <1> QED  BY <1>2, <1>4, <1>5, <1>6

(***************************************************************************)
(* The steps of receiveRoutine.                                            *)
(***************************************************************************)
\* A prevote arrives.
LEMMA ReceivePrevoteKeeps ==
  ASSUME CSInv, ReceivePrevote
  PROVE  Inv(cs') /\ TimerKept(cs', NoTimeout) /\ VotesOK(cs, cs')
  <1>1. PICK r \in Rounds : \E v \in Grown(cs.prevotes[r]) :
          Proposed(cs, r, v) /\ cs' = addPrevote([cs EXCEPT !.prevotes[r] = v], r)
    BY DEF ReceivePrevote
  <1>2. PICK v \in Grown(cs.prevotes[r]) :
          Proposed(cs, r, v) /\ cs' = addPrevote([cs EXCEPT !.prevotes[r] = v], r)
    BY <1>1
  <1> DEFINE p == [cs EXCEPT !.prevotes[r] = v]
  <1>3. Inv(p) /\ TimerKept(p, NoTimeout) /\ p.pv = cs.pv /\ p.pc = cs.pc
    BY <1>2, PrevoteAdded DEF CSInv
  <1>4. cs' = addPrevote(p, r)
    BY <1>2
  <1> HIDE DEF p
  <1>5. Inv(cs') /\ TimerKept(cs', NoTimeout) /\ VotesOK(p, cs')
    BY <1>3, <1>4, addPrevoteKeeps
  <1> QED  BY <1>3, <1>5 DEF VotesOK

\* A precommit arrives.
LEMMA ReceivePrecommitKeeps ==
  ASSUME CSInv, ReceivePrecommit
  PROVE  Inv(cs') /\ TimerKept(cs', NoTimeout) /\ VotesOK(cs, cs')
  <1>1. PICK r \in Rounds : \E v \in Grown(cs.precommits[r]) :
          cs' = addPrecommit([cs EXCEPT !.precommits[r] = v], r)
    BY DEF ReceivePrecommit
  <1>2. PICK v \in Grown(cs.precommits[r]) :
          cs' = addPrecommit([cs EXCEPT !.precommits[r] = v], r)
    BY <1>1
  <1> DEFINE p == [cs EXCEPT !.precommits[r] = v]
  <1>3. Inv(p) /\ TimerKept(p, NoTimeout) /\ p.pv = cs.pv /\ p.pc = cs.pc
    BY <1>2, PrecommitAdded DEF CSInv
  <1>4. cs' = addPrecommit(p, r)
    BY <1>2
  <1> HIDE DEF p
  <1>5. Inv(cs') /\ TimerKept(cs', NoTimeout) /\ VotesOK(p, cs')
    BY <1>3, <1>4, addPrecommitKeeps
  <1> QED  BY <1>3, <1>5 DEF VotesOK

\* A proposal arrives.
LEMMA SetProposalKeeps ==
  ASSUME CSInv, SetProposal
  PROVE  Inv(cs') /\ TimerKept(cs', NoTimeout) /\ VotesOK(cs, cs')
  <1>0. Typed(cs) /\ PartsMatch(cs) /\ Inv(cs) /\ TimerKept(cs, NoTimeout)
    BY DEF CSInv, Inv
  <1>1. PICK p \in Proposals(cs) :
          cs' = [cs EXCEPT !.proposal = p,
                           !.parts = IF @ = None THEN NewPartSetFromHeader(p.block) ELSE @]
    BY DEF SetProposal
  <1>2. p \in ProposalMsgs
    <2>1. CASE cs.round \in cs.myRounds
      BY <1>0, <2>1 DEF Proposals, Typed
    <2>2. CASE cs.round \notin cs.myRounds
      <3>1. p \in [block : Blocks, pol : -1 .. cs.round - 1]
        BY <2>2 DEF Proposals
      <3>2. cs.round \in Int /\ cs.round <= MaxRound /\ MaxRound \in Int
        BY <1>0, Numbers DEF Typed
      <3> QED  BY <3>1, <3>2 DEF ProposalMsgs
    <2> QED  BY <2>1, <2>2
  <1>3. /\ Frame(cs, cs', {"proposal", "block", "parts", "decided"})
        /\ cs'.proposal = p /\ cs'.decided = cs.decided /\ cs'.block = cs.block
        /\ cs'.lockedBlock = cs.lockedBlock /\ cs'.lockedParts = cs.lockedParts
        /\ cs'.validBlock = cs.validBlock /\ cs'.validParts = cs.validParts
        /\ cs'.parts = IF cs.parts = None THEN NewPartSetFromHeader(p.block) ELSE cs.parts
    BY <1>0, <1>1 DEF Frame, Fields, Typed
  <1>4. NewPartSetFromHeader(p.block) \in PartSets /\ NewPartSetFromHeader(p.block).full = FALSE
    BY <1>2 DEF NewPartSetFromHeader, PartSets, ProposalMsgs
  <1>5. PartsMatch(cs')
    <2>1. CASE cs.parts # None
      BY <1>0, <1>3, <2>1, PartsMatchFrame
    <2>2. CASE cs.parts = None
      <3>1. cs.block = None
        BY <1>0, <2>2, WholeSets DEF PartsMatch, Typed
      <3> QED  BY <1>0, <1>3, <1>4, <2>2, <3>1 DEF PartsMatch
    <2> QED  BY <2>1, <2>2
  <1>6. /\ cs'.proposal \in ProposalMsgs \cup {None} /\ cs'.block \in Blocks \cup {None}
        /\ cs'.parts \in PartSets \cup {None} /\ cs'.decided \in Blocks \cup {None}
    BY <1>0, <1>2, <1>3, <1>4 DEF Typed
  <1> QED  BY <1>0, <1>3, <1>5, <1>6, BlockKeeps

\* A block that is complete becomes valid if it had its polka before.
LEMMA validByPartsKeeps ==
  ASSUME NEW s, Inv(s), NEW x, TimerKept(s, x), NEW t, t = validByParts(s)
  PROVE  /\ Inv(t) /\ TimerKept(t, x) /\ t.round = s.round /\ t.step = s.step
         /\ t.pv = s.pv /\ t.pc = s.pc
  <1>1. t = s \/ /\ t = SetValid(s, s.round) /\ s.block \in Blocks
                 /\ s.prevotes[s.round] = s.block
    BY DEF validByParts
  <1>2. CASE t = SetValid(s, s.round) /\ s.block \in Blocks /\ s.prevotes[s.round] = s.block
    BY <1>2, SetValidKeeps
  <1> QED  BY <1>1, <1>2

\* A part set that gets its last part is the whole one.
LEMMA PartsCompleted ==
  ASSUME NEW p, p \in [of : Blocks, full : BOOLEAN]
  PROVE  [p EXCEPT !.full = TRUE] = [of |-> p.of, full |-> TRUE]
  <1> DEFINE q == [p EXCEPT !.full = TRUE]
  <1>1. q \in [of : Blocks, full : BOOLEAN] /\ q.of = p.of /\ q.full = TRUE
    OBVIOUS
  <1> HIDE DEF q
  <1>2. q = [of |-> q.of, full |-> q.full]
    BY <1>1
  <1> QED  BY <1>1, <1>2 DEF q

\* The last part of the block arrives.
LEMMA AddProposalBlockPartKeeps ==
  ASSUME CSInv, AddProposalBlockPart
  PROVE  Inv(cs') /\ TimerKept(cs', NoTimeout) /\ VotesOK(cs, cs')
  <1>0. Typed(cs) /\ PartsMatch(cs) /\ Inv(cs) /\ TimerKept(cs, NoTimeout)
    BY DEF CSInv, Inv
  <1> DEFINE b == cs.parts.of
             maj == cs.prevotes[cs.round]
             full == [cs EXCEPT !.parts.full = TRUE]
             f == [full EXCEPT !.block = b]
             valid == validByParts(f)
             voted == enterPrevote(valid, valid.round)
  <1>1. /\ cs.parts # None /\ ~cs.parts.full
        /\ cs' = IF b \in Garbled THEN full
                 ELSE IF valid.step <= Propose /\ isProposalComplete(valid)
                 THEN IF maj \in Values THEN enterPrecommit(voted, voted.round) ELSE voted
                 ELSE IF valid.step = Commit THEN tryFinalizeCommit(valid)
                 ELSE valid
    BY DEF AddProposalBlockPart
  <1>2. cs.parts \in [of : Blocks, full : BOOLEAN] /\ b \in Blocks
    BY <1>0, <1>1 DEF Typed, PartSets
  <1>3. cs.block = None
    BY <1>0, <1>1 DEF PartsMatch
  <1>4. [cs.parts EXCEPT !.full = TRUE] = [of |-> b, full |-> TRUE]
    BY <1>2, PartsCompleted, Zenon
  <1>5. /\ Frame(cs, full, {"parts"}) /\ full.parts = [of |-> b, full |-> TRUE]
        /\ full.block = None /\ full.proposal = cs.proposal /\ full.decided = cs.decided
        /\ full.lockedBlock = cs.lockedBlock /\ full.lockedParts = cs.lockedParts
        /\ full.validBlock = cs.validBlock /\ full.validParts = cs.validParts
    <2>1. full = [cs EXCEPT !.parts = [of |-> b, full |-> TRUE]]
      BY <1>0, <1>4 DEF Typed, Fields
    <2> HIDE DEF full, b
    <2> QED  BY <1>0, <1>3, <2>1 DEF Frame, Fields, Typed
  <1>6. [of |-> b, full |-> TRUE] \in PartSets
    BY <1>2 DEF PartSets
  <1>7. f = [full EXCEPT !.block = b]
    OBVIOUS
  <1> HIDE DEF full, f, b
  <1>8. CASE b \in Garbled
    <2>1. /\ Frame(cs, full, {"proposal", "block", "parts", "decided"})
          /\ full.proposal \in ProposalMsgs \cup {None} /\ full.block \in Blocks \cup {None}
          /\ full.parts \in PartSets \cup {None} /\ full.decided \in Blocks \cup {None}
      BY <1>0, <1>5, <1>6 DEF Typed, Frame
    <2>2. full.parts.of = b
      BY <1>5
    <2>3. PartsMatch(full)
      BY <1>0, <1>5, <1>8, <2>2 DEF PartsMatch
    <2>4. cs' = full
      BY <1>1, <1>8
    <2>5. Inv(full) /\ TimerKept(full, NoTimeout) /\ VotesOK(cs, full)
      BY <1>0, <2>1, <2>3, BlockKeeps
    <2> QED  BY <2>4, <2>5
  <1>9. CASE b \notin Garbled
    <2>1. /\ Frame(cs, f, {"proposal", "block", "parts", "decided"}) /\ f.block = b
          /\ f.parts = [of |-> b, full |-> TRUE]
          /\ f.proposal = cs.proposal /\ f.decided = cs.decided
          /\ f.lockedBlock = cs.lockedBlock /\ f.lockedParts = cs.lockedParts
          /\ f.validBlock = cs.validBlock /\ f.validParts = cs.validParts
      BY <1>5, <1>7 DEF Frame, Fields
    <2>2. f.parts.of = b
      BY <2>1
    <2>3. PartsMatch(f)
      BY <1>0, <2>1, <2>2 DEF PartsMatch
    <2>4. /\ f.proposal \in ProposalMsgs \cup {None} /\ f.block \in Blocks \cup {None}
          /\ f.parts \in PartSets \cup {None} /\ f.decided \in Blocks \cup {None}
      BY <1>0, <1>2, <1>6, <2>1 DEF Typed
    <2>5. /\ Inv(f) /\ TimerKept(f, NoTimeout) /\ VotesOK(cs, f) /\ f.pv = cs.pv /\ f.pc = cs.pc
      BY <1>0, <2>1, <2>3, <2>4, BlockKeeps
    <2>6. /\ Inv(valid) /\ TimerKept(valid, NoTimeout) /\ valid.pv = cs.pv /\ valid.pc = cs.pc
      BY <2>5, validByPartsKeeps
    <2> HIDE DEF valid
    <2>7. SUFFICES Inv(cs') /\ TimerKept(cs', NoTimeout) /\ VotesOK(valid, cs')
      BY <2>6 DEF VotesOK
    <2>8. valid.round \in Rounds /\ valid.round <= valid.round
      BY <2>6, Numbers DEF Inv, Typed
    <2>9. /\ Inv(voted) /\ TimerKept(voted, NoTimeout) /\ VotesOK(valid, voted)
          /\ voted.pc = valid.pc
      BY <2>6, <2>8, enterPrevoteKeeps
    <2> HIDE DEF voted
    <2>10. voted.round \in Rounds /\ voted.round <= voted.round
      BY <2>9, Numbers DEF Inv, Typed
    <2>11. CASE cs' = enterPrecommit(voted, voted.round)
      <3>1. /\ Inv(cs') /\ TimerKept(cs', NoTimeout) /\ VotesOK(voted, cs')
            /\ cs'.prevotes = voted.prevotes
        BY <2>9, <2>10, <2>11, enterPrecommitKeeps
      <3> QED  BY <2>9, <3>1, VotesCompose
    <2>12. CASE cs' = voted
      BY <2>9, <2>12
    <2>13. CASE cs' = tryFinalizeCommit(valid) /\ valid.step = Commit
      BY <2>6, <2>13, tryFinalizeCommitKeeps
    <2>14. CASE cs' = valid
      BY <2>6, <2>14 DEF VotesOK
    <2> QED  BY <1>1, <1>9, <2>11, <2>12, <2>13, <2>14
  <1> QED  BY <1>8, <1>9

\* The timer ends: its timeout is on its way all the same.
LEMMA TickKeeps ==
  ASSUME CSInv, Tick
  PROVE  Inv(cs') /\ TimerKept(cs', NoTimeout) /\ VotesOK(cs, cs')
  <1>0. Typed(cs) /\ Sane(cs) /\ Inv(cs) /\ TimerKept(cs, NoTimeout) /\ TimerCore(cs, NoTimeout)
    BY DEF CSInv, Inv, TimerKept
  <1>1. cs' = [cs EXCEPT !.armed = FALSE, !.tocks = cs.tocks \cup {cs.ti}]
    BY DEF Tick
  <1>2. /\ Frame(cs, cs', {"step", "hvsRound", "triggered", "ti", "armed", "tocks"})
        /\ cs'.round = cs.round /\ cs'.step = cs.step /\ cs'.hvsRound = cs.hvsRound
        /\ cs'.ti = cs.ti /\ cs'.tocks = cs.tocks \cup {cs.ti} /\ cs'.pv = cs.pv /\ cs'.pc = cs.pc
    BY <1>0, <1>1 DEF Frame, Fields, Typed
  <1>3. cs'.triggered = cs.triggered /\ cs'.armed = FALSE
    BY <1>0, <1>1 DEF Fields, Typed
  <1>4. Inv(cs')
    <2>1. /\ cs'.step \in Steps /\ cs'.hvsRound \in 0 .. MaxRound + 1 /\ cs.round <= cs'.hvsRound
          /\ cs.step <= cs'.step /\ cs'.ti \in Timeouts /\ cs'.tocks \subseteq Timeouts
      BY <1>0, <1>2, Numbers DEF Sane, Typed
    <2>2. cs'.triggered \in BOOLEAN /\ cs'.armed \in BOOLEAN
      BY <1>0, <1>3 DEF Typed
    <2> QED  BY <1>0, <1>2, <2>1, <2>2, QuietKeeps
  <1>5. TimerKept(cs', NoTimeout)
    <2>1. cs'.ti \in Coming(cs')
      BY <1>2 DEF Coming
    <2>2. \A u \in cs.tocks \cup {cs.ti} : Scheduled(cs', u)
      BY <1>0, <1>2 DEF TimerCore, Scheduled
    <2>3. TimerCore(cs', NoTimeout)
      BY <1>0, <1>2, <1>3, <2>1, <2>2 DEF TimerCore
    <2> QED  BY <1>0, <1>2, <2>3 DEF TimerKept
  <1> QED  BY <1>2, <1>4, <1>5 DEF VotesOK

\* Transactions are there: the wait of round 0 ends, or will.
LEMMA handleTxsAvailableKeeps ==
  ASSUME CSInv, handleTxsAvailable
  PROVE  Inv(cs') /\ TimerKept(cs', NoTimeout) /\ VotesOK(cs, cs')
  <1>0. Typed(cs) /\ Sane(cs) /\ Inv(cs) /\ TimerKept(cs, NoTimeout) /\ TimerCore(cs, NoTimeout)
    BY DEF CSInv, Inv, TimerKept
  <1>1. CASE cs' = enterPropose(cs, 0)
    BY <1>0, <1>1, enterProposeKeeps
  <1>2. CASE cs.step = NewHeight /\ cs' = ScheduleTimeout(cs, 0, NewRound)
    <2>0. cs.round = 0
      BY DEF handleTxsAvailable
    <2>1. /\ Frame(cs, cs', {"ti", "armed"})
          /\ cs'.ti \in Timeouts /\ cs'.armed \in BOOLEAN
          /\ cs'.ti.round = cs.round /\ cs'.ti.step >= NewRound
          /\ cs'.ti = cs.ti \/ cs'.ti.step = NewRound
          /\ cs'.ti \in Coming(cs') \/ cs'.ti = NoTimeout \/ Past(cs, cs'.ti)
          /\ cs.triggered => cs'.ti = cs.ti
      BY <1>0, <1>2, <2>0, ScheduleKeeps
    <2>2. /\ Frame(cs, cs', {"step", "hvsRound", "triggered", "ti", "armed", "tocks"})
          /\ cs'.round = cs.round /\ cs'.step = cs.step /\ cs'.hvsRound = cs.hvsRound
          /\ cs'.tocks = cs.tocks /\ cs'.pv = cs.pv /\ cs'.pc = cs.pc
          /\ cs'.triggered = cs.triggered
      BY <2>1 DEF Frame, Fields
    <2>3. Inv(cs')
      <3>1. /\ cs'.step \in Steps /\ cs'.hvsRound \in 0 .. MaxRound + 1 /\ cs.round <= cs'.hvsRound
            /\ cs.step <= cs'.step /\ cs'.tocks \subseteq Timeouts
        BY <1>0, <2>2, Numbers DEF Sane, Typed
      <3>2. cs'.triggered \in BOOLEAN
        BY <1>0, <2>2 DEF Typed
      <3> QED  BY <1>0, <2>1, <2>2, <3>1, <3>2, QuietKeeps
    <2>4. Scheduled(cs', cs'.ti)
      BY <1>0, <2>0, <2>1, <2>2 DEF TimerCore, Scheduled, NewHeight, NewRound, Propose, PrevoteWait,
            PrecommitWait
    <2>5. \A u \in cs'.tocks : Scheduled(cs', u)
      BY <1>0, <2>2 DEF TimerCore, Scheduled
    <2>6. cs'.ti \in Coming(cs') \/ cs'.ti = NoTimeout \/ Past(cs', cs'.ti)
      BY <2>1, <2>2 DEF Past
    <2>7. TimerCore(cs', NoTimeout)
      BY <1>0, <2>1, <2>2, <2>4, <2>5, <2>6 DEF TimerCore
    <2>8. TimerKept(cs', NoTimeout)
      BY <1>2, <2>1, <2>2, <2>7 DEF TimerKept, NewHeight, NewRound, Propose, PrevoteWait
    <2> QED  BY <2>2, <2>3, <2>8 DEF VotesOK
  <1> QED  BY <1>1, <1>2 DEF handleTxsAvailable

\* The timeout that is being handled is done with once the validator is past it.
LEMMA TimeoutDone ==
  ASSUME NEW s, NEW x, TimerKept(s, x), Past(s, x)
  PROVE  TimerKept(s, NoTimeout)
  BY DEF TimerKept, TimerCore

\* A timeout is taken from those that were sent.
LEMMA TimeoutTaken ==
  ASSUME NEW s, Inv(s), TimerKept(s, NoTimeout), NEW x \in s.tocks,
         NEW t, t = [s EXCEPT !.tocks = @ \ {x}]
  PROVE  /\ Inv(t) /\ TimerKept(t, x) /\ t.round = s.round /\ t.step = s.step
         /\ t.pv = s.pv /\ t.pc = s.pc
  <1>0. Typed(s) /\ Sane(s) /\ TimerCore(s, NoTimeout)
    BY DEF Inv, TimerKept
  <1>1. /\ Frame(s, t, {"step", "hvsRound", "triggered", "ti", "armed", "tocks"})
        /\ t.round = s.round /\ t.step = s.step /\ t.hvsRound = s.hvsRound
        /\ t.ti = s.ti /\ t.tocks = s.tocks \ {x} /\ t.pv = s.pv /\ t.pc = s.pc
    BY <1>0 DEF Frame, Fields, Typed
  <1>2. t.triggered = s.triggered /\ t.armed = s.armed
    BY <1>0 DEF Fields, Typed
  <1>3. Inv(t)
    <2>1. /\ t.step \in Steps /\ t.hvsRound \in 0 .. MaxRound + 1 /\ s.round <= t.hvsRound
          /\ s.step <= t.step /\ t.ti \in Timeouts /\ t.tocks \subseteq Timeouts
      BY <1>0, <1>1, Numbers DEF Sane, Typed
    <2>2. t.triggered \in BOOLEAN /\ t.armed \in BOOLEAN
      BY <1>0, <1>2 DEF Typed
    <2> QED  BY <1>1, <2>1, <2>2, QuietKeeps
  <1>4. s.ti # NoTimeout
    BY <1>0, Numbers DEF NoTimeout
  <1>5. t.ti \in Coming(t) \/ t.ti = x \/ Past(t, t.ti)
    BY <1>0, <1>1, <1>2, <1>4 DEF TimerCore, Coming, Past
  <1>6. TimerCore(t, x)
    BY <1>0, <1>1, <1>2, <1>5 DEF TimerCore, Scheduled
  <1>7. TimerKept(t, x)
    BY <1>1, <1>6 DEF TimerKept
  <1> QED  BY <1>1, <1>3, <1>7

\* A timeout is handled or, when the validator is past it, ignored.
LEMMA HandleTimeoutKeeps ==
  ASSUME CSInv, HandleTimeout
  PROVE  Inv(cs') /\ TimerKept(cs', NoTimeout) /\ VotesOK(cs, cs')
  <1>0. Typed(cs) /\ Inv(cs) /\ TimerKept(cs, NoTimeout) /\ TimerCore(cs, NoTimeout)
    BY DEF CSInv, Inv, TimerKept
  <1>1. PICK x \in cs.tocks : handleTimeout(x)
    BY DEF HandleTimeout
  <1> DEFINE s == [cs EXCEPT !.tocks = @ \ {x}]
  <1>2. /\ Inv(s) /\ TimerKept(s, x) /\ s.round = cs.round /\ s.step = cs.step
        /\ s.pv = cs.pv /\ s.pc = cs.pc
    BY <1>0, TimeoutTaken
  <1>3. /\ ~(x.step = PrecommitWait /\ x.round = MaxRound)
        /\ cs' = IF x.round < s.round \/ (x.round = s.round /\ x.step < s.step) THEN s
                 ELSE CASE x.step = NewHeight -> enterNewRound(s, 0)
                        [] x.step = NewRound -> enterPropose(s, 0)
                        [] x.step = Propose -> enterPrevote(s, x.round)
                        [] x.step = PrevoteWait -> enterPrecommit(s, x.round)
                        [] x.step = PrecommitWait ->
                             enterNewRound(enterPrecommit(s, x.round), x.round + 1)
    BY <1>1 DEF handleTimeout
  <1> HIDE DEF s
  <1>4. /\ x.round \in Rounds /\ x.round \in Int /\ x.step \in Int /\ x.round >= 0
        /\ x.round <= MaxRound /\ MaxRound \in Int
        /\ s.round \in Int /\ s.step \in Int /\ s.step \in 1 .. 8
    BY <1>0, <1>2, Numbers DEF Inv
  <1>5. x.round <= s.round /\ (x.step \in {NewHeight, NewRound} => x.round = 0)
    BY <1>0, <1>2 DEF TimerCore, Scheduled
  <1>6. x.step \in {NewHeight, NewRound, Propose, PrevoteWait, PrecommitWait}
    BY <1>0 DEF Typed, Timeouts, Steps, NewHeight, NewRound, Propose, Prevote, PrevoteWait,
           Precommit, PrecommitWait, Commit
  <1>7. SUFFICES Inv(cs') /\ TimerKept(cs', x) /\ Past(cs', x) /\ VotesOK(s, cs')
    BY <1>2, TimeoutDone DEF VotesOK
  <1>8. CASE Past(s, x)
    <2>1. cs' = s
      BY <1>3, <1>8 DEF Past
    <2> QED  BY <1>2, <1>8, <2>1 DEF VotesOK
  <1>9. CASE ~Past(s, x)
    <2>0. x.round = s.round /\ ~(x.round < s.round \/ (x.round = s.round /\ x.step < s.step))
          /\ s.step <= x.step
      BY <1>4, <1>5, <1>9 DEF Past
    <2>1. CASE x.step = NewHeight
      <3>1. cs' = enterNewRound(s, 0) /\ s.round = 0 /\ 0 \in Rounds /\ ~(s.round < 0)
        BY <1>3, <1>4, <1>5, <2>0, <2>1 DEF NewHeight, NewRound, Propose, PrevoteWait, PrecommitWait
      <3>2. /\ Inv(cs') /\ TimerKept(cs', x) /\ VotesOK(s, cs')
            /\ cs'.round = IF s.round < 0 THEN 0 ELSE s.round
            /\ cs'.step # NewHeight
        BY <1>2, <3>1, enterNewRoundKeeps
      <3>3. Past(cs', x)
        <4>1. cs'.step \in Int /\ cs'.step \in 1 .. 8
          BY <3>2, Numbers DEF Inv
        <4> QED  BY <2>0, <2>1, <3>1, <3>2, <4>1 DEF Past, NewHeight
      <3> QED  BY <3>2, <3>3
    <2>2. CASE x.step = NewRound
      <3>1. cs' = enterPropose(s, 0) /\ s.round = 0
        BY <1>3, <1>5, <2>0, <2>2 DEF NewHeight, NewRound, Propose, PrevoteWait, PrecommitWait
      <3>2. /\ Inv(cs') /\ TimerKept(cs', x) /\ VotesOK(s, cs')
            /\ cs'.round = s.round /\ (s.round = 0 => Propose <= cs'.step)
        BY <1>2, <3>1, enterProposeKeeps
      <3>3. Past(cs', x)
        <4>1. cs'.step \in Int
          BY <3>2, Numbers DEF Inv
        <4> QED  BY <2>0, <2>2, <3>1, <3>2, <4>1 DEF Past, NewRound, Propose
      <3> QED  BY <3>2, <3>3
    <2>3. CASE x.step = Propose
      <3>1. cs' = enterPrevote(s, x.round) /\ x.round <= s.round
        BY <1>3, <1>5, <2>0, <2>3 DEF NewHeight, NewRound, Propose, PrevoteWait, PrecommitWait
      <3>2. /\ Inv(cs') /\ TimerKept(cs', x) /\ VotesOK(s, cs')
            /\ cs'.round = s.round /\ (x.round = s.round => Prevote <= cs'.step)
        BY <1>2, <1>4, <3>1, enterPrevoteKeeps
      <3>3. Past(cs', x)
        <4>1. cs'.step \in Int
          BY <3>2, Numbers DEF Inv
        <4> QED  BY <2>0, <2>3, <3>2, <4>1 DEF Past, Propose, Prevote
      <3> QED  BY <3>2, <3>3
    <2>4. CASE x.step = PrevoteWait
      <3>1. cs' = enterPrecommit(s, x.round) /\ x.round <= s.round
        BY <1>3, <1>5, <2>0, <2>4 DEF NewHeight, NewRound, Propose, PrevoteWait, PrecommitWait
      <3>2. /\ Inv(cs') /\ TimerKept(cs', x) /\ VotesOK(s, cs')
            /\ cs'.round = s.round /\ (x.round = s.round => Precommit <= cs'.step)
        BY <1>2, <1>4, <3>1, enterPrecommitKeeps
      <3>3. Past(cs', x)
        <4>1. cs'.step \in Int
          BY <3>2, Numbers DEF Inv
        <4> QED  BY <2>0, <2>4, <3>2, <4>1 DEF Past, PrevoteWait, Precommit
      <3> QED  BY <3>2, <3>3
    <2>5. CASE x.step = PrecommitWait
      <3> DEFINE p == enterPrecommit(s, x.round)
      <3>1. cs' = enterNewRound(p, x.round + 1)
        BY <1>3, <2>0, <2>5 DEF NewHeight, NewRound, Propose, PrevoteWait, PrecommitWait
      <3>2. /\ Inv(p) /\ TimerKept(p, x) /\ VotesOK(s, p) /\ p.round = s.round
        BY <1>2, <1>4, <1>5, enterPrecommitKeeps
      <3> HIDE DEF p
      <3>3. x.round + 1 \in Rounds /\ p.round < x.round + 1 /\ x.round + 1 > 0
        BY <1>3, <1>4, <2>0, <2>5, <3>2 DEF Rounds
      <3>4. /\ Inv(cs') /\ TimerKept(cs', x) /\ VotesOK(p, cs')
            /\ cs'.round = IF p.round < x.round + 1 THEN x.round + 1 ELSE p.round
            /\ (x.round + 1 > 0 => cs'.pv = p.pv) /\ cs'.prevotes = p.prevotes
        BY <3>1, <3>2, <3>3, enterNewRoundKeeps
      <3>5. VotesOK(s, cs')
        BY <3>2, <3>3, <3>4, VotesCompose
      <3>6. Past(cs', x)
        BY <1>4, <3>3, <3>4 DEF Past
      <3> QED  BY <3>4, <3>5, <3>6
    <2> QED  BY <1>6, <2>1, <2>2, <2>3, <2>4, <2>5
  <1> QED  BY <1>8, <1>9

\* A new height.
LEMMA InitKeeps == Init => CSInv
  <1> SUFFICES ASSUME Init PROVE CSInv
    OBVIOUS
  <1>1. PICK wait \in WaitForTxs, turns \in Turns :
    cs = [waitForTxs |-> wait, myRounds |-> turns, round |-> 0, step |-> NewHeight, hvsRound |-> 0,
        proposal |-> None, block |-> None, parts |-> None,
        lockedRound |-> -1, lockedBlock |-> None, lockedParts |-> None,
        validRound |-> -1, validBlock |-> None, validParts |-> None,
        prevotes |-> [r \in Rounds |-> Few], precommits |-> [r \in Rounds |-> Few],
        commitRound |-> -1, triggered |-> FALSE, decided |-> None,
        failed |-> FALSE,
        pv |-> [r \in Rounds |-> None], pc |-> [r \in Rounds |-> None],
        mine |-> [r \in Rounds |-> None],
        ti |-> [round |-> 0, step |-> NewHeight], armed |-> TRUE, tocks |-> {}]
    BY DEF Init
  <1>2. /\ DOMAIN cs = Fields /\ cs.myRounds = turns
        /\ cs.round = 0 /\ cs.step = NewHeight /\ cs.hvsRound = 0 /\ cs.proposal = None
        /\ cs.block = None /\ cs.parts = None /\ cs.lockedRound = -1 /\ cs.lockedBlock = None
        /\ cs.lockedParts = None /\ cs.validRound = -1 /\ cs.validBlock = None
        /\ cs.validParts = None /\ cs.commitRound = -1 /\ cs.decided = None
        /\ cs.ti = [round |-> 0, step |-> NewHeight] /\ cs.tocks = {}
    BY <1>1 DEF Fields
  <1>3. /\ cs.prevotes = [r \in Rounds |-> Few] /\ cs.precommits = [r \in Rounds |-> Few]
        /\ cs.pv = [r \in Rounds |-> None] /\ cs.pc = [r \in Rounds |-> None]
        /\ cs.mine = [r \in Rounds |-> None]
    BY <1>1
  <1>4. cs.triggered = FALSE /\ cs.failed = FALSE /\ cs.armed = TRUE /\ cs.waitForTxs = wait
    BY <1>1
  <1>5. 0 \in Rounds /\ MaxRound \in Nat
    BY MaxRoundAssumption DEF Rounds
  <1>6. Typed(cs)
    <2>1. cs.ti \in Timeouts
      BY <1>2, <1>5 DEF Timeouts, Steps, NewHeight, Prevote, Precommit, Commit
    <2>2. /\ cs.prevotes \in [Rounds -> VoteSet] /\ cs.precommits \in [Rounds -> VoteSet]
          /\ cs.pv \in Ballots /\ cs.pc \in Ballots
          /\ cs.mine \in [Rounds -> ProposalMsgs \cup {None}]
      BY <1>3 DEF VoteSet, Ballots
    <2>3. /\ cs.triggered \in BOOLEAN /\ cs.failed \in BOOLEAN /\ cs.armed \in BOOLEAN
          /\ cs.waitForTxs \in BOOLEAN
      BY <1>4, InputsAssumption
    <2>4. cs.myRounds \subseteq Rounds
      BY <1>2, InputsAssumption
    <2>5. cs.step \in Steps /\ cs.hvsRound \in 0 .. MaxRound + 1
      BY <1>2, <1>5 DEF Steps
    <2> QED  BY <1>2, <1>5, <2>1, <2>2, <2>3, <2>4, <2>5 DEF Typed
  <1>7. Sane(cs)
    <2>1. Few \notin Invalid
      BY InputsAssumption, AnswersAssumption DEF Values
    <2> QED  BY <1>2, <1>3, <1>4, <2>1 DEF Sane, NewHeight, Commit
  <1>8. PartsMatch(cs)
    BY <1>2 DEF PartsMatch
  <1>9. SignedSoFar(cs)
    BY <1>2, <1>3, <1>5 DEF SignedSoFar, NothingAfter
  <1>10. LockKept(cs)
    BY <1>2, <1>3, ValuesAssumption DEF LockKept
  <1>11. ValidKept(cs)
    <2>1. Few \notin Blocks
      BY AnswersAssumption DEF Values
    <2> QED  BY <1>2, <1>3, <1>5, <2>1 DEF ValidKept
  <1>12. TimerKept(cs, NoTimeout)
    <2>1. cs.ti.round = 0 /\ cs.ti.step = NewHeight
      BY <1>2
    <2>2. cs.ti \in Coming(cs)
      BY <1>4 DEF Coming
    <2>3. Scheduled(cs, cs.ti)
      BY <1>2, <2>1 DEF Scheduled, NewHeight, NewRound, Propose, PrevoteWait, PrecommitWait
    <2>4. TimerCore(cs, NoTimeout)
      BY <1>2, <1>4, <2>2, <2>3 DEF TimerCore
    <2> QED  BY <1>2, <2>1, <2>4 DEF TimerKept, NewHeight, NewRound, Propose, PrevoteWait
  <1> QED  BY <1>6, <1>7, <1>8, <1>9, <1>10, <1>11, <1>12 DEF CSInv, Inv

\* Every step keeps the invariant and signs only what it may.
LEMMA StepKeeps ==
  ASSUME CSInv, [Next]_cs
  PROVE  CSInv' /\ VotesOK(cs, cs')
  <1>1. Inv(cs') /\ TimerKept(cs', NoTimeout) /\ VotesOK(cs, cs')
    <2>1. CASE ReceivePrevote
      BY <2>1, ReceivePrevoteKeeps
    <2>2. CASE ReceivePrecommit
      BY <2>2, ReceivePrecommitKeeps
    <2>3. CASE SetProposal
      BY <2>3, SetProposalKeeps
    <2>4. CASE AddProposalBlockPart
      BY <2>4, AddProposalBlockPartKeeps
    <2>5. CASE Tick
      BY <2>5, TickKeeps
    <2>6. CASE HandleTimeout
      BY <2>6, HandleTimeoutKeeps
    <2>7. CASE handleTxsAvailable
      BY <2>7, handleTxsAvailableKeeps
    <2>8. CASE Done \/ UNCHANGED cs
      BY <2>8 DEF Done, CSInv, VotesOK
    <2> QED  BY <2>1, <2>2, <2>3, <2>4, <2>5, <2>6, <2>7, <2>8 DEF Next
  <1> QED  BY <1>1 DEF CSInv

(***************************************************************************)
(* The theorems.                                                           *)
(***************************************************************************)
\* The invariant holds in every state of the validator.
LEMMA Invariant == Spec => []CSInv
  <1>1. CSInv /\ [Next]_cs => CSInv'
    BY StepKeeps
  <1> QED  BY <1>1, InitKeeps, PTL DEF Spec

\* No order of votes, parts, proposals and timeouts makes a handler of
\* state.go panic: POLInfo is never behind the polka that enterPrecommit acts
\* on, and finalizeCommit finds the committed block whole and valid.
THEOREM ConsensusNoFailure == Spec => []NoConsensusFailure
  <1>1. CSInv => NoConsensusFailure
    BY DEF CSInv, Inv, Sane, NoConsensusFailure
  <1> QED  BY <1>1, Invariant, PTL

\* A lock is on the block of the latest precommit for a block, and has its
\* round: relocking moves it, and nothing else was precommitted since.
THEOREM ConsensusLock == Spec => []LockIsLastPrecommit
  <1>1. CSInv => LockIsLastPrecommit
    BY DEF CSInv, Inv, LockKept, LockIsLastPrecommit
  <1> QED  BY <1>1, Invariant, PTL

\* The round state has its types, and ProposalBlock, LockedBlock and ValidBlock
\* are there exactly with all of their parts.
THEOREM ConsensusParts == Spec => []PartsMatchBlock
  <1>1. CSInv => TypeOK
    BY DEF CSInv, Inv, Typed, TypeOK
  <1>2. CSInv => PartsMatchBlock
    BY <1>1 DEF CSInv, Inv, PartsMatch, PartsMatchBlock
  <1> QED  BY <1>2, Invariant, PTL

\* The valid block has its polka, and every proposal that decideProposal signed
\* names as its proof-of-lock round an earlier one with a polka for its block.
THEOREM ConsensusProposals == Spec => []ProposalJustified
  <1>1. CSInv => ProposalJustified
    BY DEF CSInv, Inv, ValidKept, ProposalJustified
  <1> QED  BY <1>1, Invariant, PTL

\* Whenever the validator waits, the timeout that ends the wait is in the
\* ticker or on its way, although the ticker keeps one timer only.
THEOREM ConsensusTimers == Spec => []WaitIsTimed
  <1>1. CSInv => WaitIsTimed
    <2> SUFFICES ASSUME CSInv PROVE WaitIsTimed
      OBVIOUS
    <2>0. Typed(cs) /\ TimerKept(cs, NoTimeout) /\ TimerCore(cs, NoTimeout)
      BY DEF CSInv, Inv, TimerKept
    <2> DEFINE coming == cs.tocks \cup (IF cs.armed THEN {cs.ti} ELSE {})
               Timed(steps) == \E t \in coming : t.round = cs.round /\ t.step \in steps
    <2>1. /\ cs.ti.round \in Int /\ cs.ti.step \in Int /\ cs.ti.step \in 1 .. 7
          /\ cs.round \in Int /\ cs.step \in Int /\ cs.step \in 1 .. 8
      BY <2>0, Numbers
    <2>2. cs.ti \in coming \/ Past(cs, cs.ti)
      <3>1. cs.ti # NoTimeout
        BY <2>0, Numbers DEF NoTimeout
      <3> QED  BY <2>0, <3>1 DEF TimerCore, Coming
    <2> HIDE DEF coming
    <2>3. cs.step = NewHeight => Timed({NewHeight, NewRound})
      <3> SUFFICES ASSUME cs.step = NewHeight
                   PROVE  cs.ti.round = cs.round /\ cs.ti.step \in {NewHeight, NewRound} /\ cs.ti \in coming
        OBVIOUS
      <3>1. cs.ti.round = cs.round /\ Scheduled(cs, cs.ti)
        BY <2>0 DEF TimerKept, TimerCore
      <3>2. cs.ti.step \in {NewHeight, NewRound}
        <4>1. cs.ti.step \in {NewHeight, NewRound, Propose, PrevoteWait, PrecommitWait}
          BY <2>0 DEF Typed, Timeouts, Steps, NewHeight, NewRound, Propose, Prevote, PrevoteWait,
                Precommit, PrecommitWait, Commit
        <4> QED  BY <3>1, <4>1
           DEF Scheduled, NewHeight, NewRound, Propose, PrevoteWait, PrecommitWait
      <3>3. ~Past(cs, cs.ti)
        BY <2>1, <3>1 DEF Past, NewHeight
      <3> QED  BY <2>2, <3>1, <3>2, <3>3
    <2>4. cs.step = NewRound /\ EmptyInterval => Timed({NewRound, PrecommitWait})
      <3> SUFFICES ASSUME cs.step = NewRound, EmptyInterval
                   PROVE  cs.ti.round = cs.round /\ cs.ti.step \in {NewRound, PrecommitWait} /\ cs.ti \in coming
        OBVIOUS
      <3>1. cs.ti.round = cs.round /\ cs.ti.step >= NewRound /\ Scheduled(cs, cs.ti)
        BY <2>0 DEF TimerKept, TimerCore
      <3>2. cs.ti.step \in {NewRound, PrecommitWait}
        <4>1. cs.ti.step \in {NewHeight, NewRound, Propose, PrevoteWait, PrecommitWait}
          BY <2>0 DEF Typed, Timeouts, Steps, NewHeight, NewRound, Propose, Prevote, PrevoteWait,
                Precommit, PrecommitWait, Commit
        <4> QED  BY <3>1, <4>1
           DEF Scheduled, NewHeight, NewRound, Propose, PrevoteWait, PrecommitWait
      <3>3. ~Past(cs, cs.ti)
        BY <2>1, <3>1 DEF Past, NewRound
      <3> QED  BY <2>2, <3>1, <3>2, <3>3
    <2>5. cs.step \in {Propose, PrevoteWait} => Timed(cs.step .. PrecommitWait)
      <3> SUFFICES ASSUME cs.step \in {Propose, PrevoteWait}
                   PROVE  cs.ti.round = cs.round /\ cs.ti.step \in cs.step .. PrecommitWait /\ cs.ti \in coming
        OBVIOUS
      <3>1. cs.ti.round = cs.round /\ cs.ti.step >= cs.step
        BY <2>0 DEF TimerKept
      <3>2. cs.ti.step \in cs.step .. PrecommitWait
        BY <2>1, <3>1 DEF PrecommitWait
      <3>3. ~Past(cs, cs.ti)
        BY <2>1, <3>1 DEF Past
      <3> QED  BY <2>2, <3>1, <3>2, <3>3
    <2>6. cs.triggered /\ cs.step # Commit => Timed({PrecommitWait})
      <3> SUFFICES ASSUME cs.triggered, cs.step # Commit
                   PROVE  cs.ti.round = cs.round /\ cs.ti.step \in {PrecommitWait} /\ cs.ti \in coming
        OBVIOUS
      <3>1. cs.ti.round = cs.round /\ cs.ti.step = PrecommitWait
        BY <2>0 DEF TimerCore
      <3>2. ~Past(cs, cs.ti)
        BY <2>1, <3>1 DEF Past, PrecommitWait, Commit
      <3> QED  BY <2>2, <3>1, <3>2
    <2> QED  BY <2>3, <2>4, <2>5, <2>6 DEF WaitIsTimed, coming
  <1> QED  BY <1>1, Invariant, PTL

\* Whatever handlers run, every vote that the validator signs is one that
\* LockRule allows: one prevote and one precommit in a round, in order, a block
\* precommitted only with its polka, and prevoted against an earlier precommit
\* only after a polka released it.  This is all that Agreement assumes of
\* a correct validator.
THEOREM ConsensusLockRule == Spec => KeepsLockRule
  <1>1. CSInv /\ [Next]_cs =>
          [\A r \in Rounds :
             /\ cs'.pv[r] # cs.pv[r] =>
                  MayPrevote(cs.pv, cs.pc, PolkasSeen(cs'), r, cs'.pv[r])
             /\ cs'.pc[r] # cs.pc[r] =>
                  MayPrecommit(cs'.pv, cs.pc, PolkasSeen(cs'), r, cs'.pc[r])]_cs
    BY StepKeeps DEF VotesOK
  <1> QED  BY <1>1, Invariant, PTL DEF Spec, KeepsLockRule

-----------------------------------------------------------------------------
(***************************************************************************)
(* Agreement: validators that keep LockRule, which the validator above     *)
(* does (ConsensusLockRule), for any validators, quorums, blocks and       *)
(* number of rounds.                                                       *)
(***************************************************************************)
\* More polkas allow no fewer votes: a validator that keeps LockRule by the
\* polkas it has seen keeps it by those there are.
THEOREM LockRuleMonotone ==
  ASSUME NEW pv \in Ballots, NEW pc \in Ballots, NEW r \in Rounds, NEW x \in Values,
         NEW S, NEW T, S \subseteq T
  PROVE  /\ MayPrevote(pv, pc, S, r, x) => MayPrevote(pv, pc, T, r, x)
         /\ MayPrecommit(pv, pc, S, r, x) => MayPrecommit(pv, pc, T, r, x)
BY DEF MayPrevote, MayPrecommit, Released

\* A polka is a majority of some quorum.
LEMMA PolkaIsMajority ==
  ASSUME NEW r \in Rounds, NEW x \in Values
  PROVE  <<r, x>> \in Polkas <=> \E Q \in Quorums : Majority(prevote, Q, r, x)
BY DEF Polkas

\* A release of the lock on b is a quorum against b.
LEMMA ReleasedMeansAgainst ==
  ASSUME NEW p \in Correct, NEW q \in Rounds, NEW r \in Rounds, NEW b,
         precommit[p][q] = b, Released(precommit[p], Polkas, q, r)
  PROVE  \E Q \in Quorums : Against(Q, q, b)
<1>1. PICK s \in Rounds : /\ s > q
                          /\ \E y \in Values : y # b /\ <<s, y>> \in Polkas
  BY DEF Released
<1>2. PICK y \in Values : y # b /\ <<s, y>> \in Polkas
  BY <1>1
<1>3. PICK Q \in Quorums : Majority(prevote, Q, s, y)
  BY <1>2, PolkaIsMajority
<1> QED BY <1>1, <1>2, <1>3 DEF Against

\* A prevote takes nothing from a majority, as it fills an empty place.
LEMMA MajorityStays ==
  ASSUME BallotsOK, NEW p \in Correct, NEW r \in Rounds, NEW x \in Values, CastPrevote(p, r, x),
         NEW Q \in Quorums, NEW s \in Rounds, NEW y \in Values, Majority(prevote, Q, s, y)
  PROVE  Majority(prevote', Q, s, y)
<1> SUFFICES ASSUME NEW q \in Q \cap Correct PROVE prevote'[q][s] = y
  BY DEF Majority
<1>1. prevote[q][s] = y BY DEF Majority
<1>2. prevote[p][r] = None /\ prevote' = [prevote EXCEPT ![p][r] = x]
  BY DEF CastPrevote, MayPrevote
<1>3. y # None BY ValuesAssumption DEF Values
<1>4. ~(q = p /\ s = r) BY <1>1, <1>2, <1>3
<1> QED BY <1>1, <1>2, <1>4 DEF BallotsOK, Ballots

LEMMA AgainstStays ==
  ASSUME BallotsOK, NEW p \in Correct, NEW r \in Rounds, NEW x \in Values, CastPrevote(p, r, x),
         NEW Q \in Quorums, NEW s \in Rounds, NEW b, Against(Q, s, b)
  PROVE  Against(Q, s, b)'
<1>1. PICK t \in Rounds : t > s /\ \E y \in Values : y # b /\ Majority(prevote, Q, t, y)
  BY DEF Against
<1>2. PICK y \in Values : y # b /\ Majority(prevote, Q, t, y) BY <1>1
<1>3. Majority(prevote', Q, t, y) BY <1>2, MajorityStays
<1> QED BY <1>1, <1>2, <1>3 DEF Against

LEMMA AgreementInit == VotingInit => AgreementInv
<1> SUFFICES ASSUME VotingInit PROVE AgreementInv OBVIOUS
<1>1. BallotsOK BY DEF VotingInit, BallotsOK, Ballots, NoVotes
<1>2. ChangedWithReason BY DEF VotingInit, ChangedWithReason, NoVotes
<1>3. ASSUME NEW r \in Rounds, NEW b \in Blocks, NEW Q \in Quorums, Against(Q, r, b)
      PROVE  Q \cap Lockers(r, b) = {}
  BY ValuesAssumption DEF VotingInit, Lockers, NoVotes
<1>4. FirstIsFree BY <1>3 DEF FirstIsFree
<1>5. PrecommitHasPolka BY ValuesAssumption DEF VotingInit, PrecommitHasPolka, NoVotes
<1> QED BY <1>1, <1>2, <1>4, <1>5 DEF AgreementInv

LEMMA PrevoteKeeps ==
  ASSUME AgreementInv, NEW p \in Correct, NEW r \in Rounds, NEW x \in Values, CastPrevote(p, r, x)
  PROVE  AgreementInv'
<1>0. BallotsOK /\ ChangedWithReason /\ FirstIsFree /\ PrecommitHasPolka
  BY DEF AgreementInv
<1>1. /\ prevote' = [prevote EXCEPT ![p][r] = x]
      /\ precommit' = precommit
      /\ \A q \in Rounds : q < r /\ precommit[p][q] \in Blocks /\ precommit[p][q] # x
                             => Released(precommit[p], Polkas, q, r)
  BY DEF CastPrevote, MayPrevote
<1>2. BallotsOK'
  BY <1>0, <1>1 DEF BallotsOK, Ballots
\* Whoever deviates from its lock after the step had a quorum against the lock
\* before it.
<1>3. ASSUME NEW q \in Correct, NEW s \in Rounds, NEW t \in Rounds, NEW b \in Blocks,
             precommit[q][s] = b, t > s, prevote'[q][t] \notin {b, None}
      PROVE  \E Q \in Quorums : Against(Q, s, b)
  <2>1. CASE q = p /\ t = r
    <3>1. prevote'[q][t] = x BY <1>0, <1>1, <2>1 DEF BallotsOK, Ballots
    <3>2. Released(precommit[p], Polkas, s, r) BY <1>1, <1>3, <2>1, <3>1 DEF Rounds
    <3> QED BY <1>3, <2>1, <3>2, ReleasedMeansAgainst
  <2>2. CASE ~(q = p /\ t = r)
    <3>1. prevote[q][t] = prevote'[q][t] BY <1>0, <1>1, <2>2 DEF BallotsOK, Ballots
    <3> QED BY <1>0, <1>3, <3>1 DEF ChangedWithReason
  <2> QED BY <2>1, <2>2
<1>4. ChangedWithReason'
  <2> SUFFICES ASSUME NEW q \in Correct, NEW s \in Rounds, NEW t \in Rounds, NEW b \in Blocks,
                      precommit'[q][s] = b, t > s, prevote'[q][t] \notin {b, None}
               PROVE  \E Q \in Quorums : Against(Q, s, b)'
    BY DEF ChangedWithReason
  <2>1. PICK Q \in Quorums : Against(Q, s, b) BY <1>1, <1>3
  <2> QED BY <1>0, <2>1, AgainstStays
<1>5. FirstIsFree'
  <2> SUFFICES ASSUME NEW s \in Rounds, NEW b \in Blocks,
                      NEW R \in Quorums, Against(R, s, b)'
               PROVE  \E Q \in Quorums : Against(Q, s, b)' /\ Q \cap Lockers(s, b)' = {}
    BY DEF FirstIsFree
  <2>1. Lockers(s, b)' = Lockers(s, b) BY <1>1 DEF Lockers
  <2>2. CASE \E Q \in Quorums : Against(Q, s, b)
    <3>1. PICK Q \in Quorums : Against(Q, s, b) /\ Q \cap Lockers(s, b) = {}
      BY <1>0, <2>2 DEF FirstIsFree
    <3> QED BY <1>0, <2>1, <3>1, AgainstStays
  <2>3. CASE ~\E Q \in Quorums : Against(Q, s, b)
    <3>1. PICK t \in Rounds : t > s /\ \E y \in Values : y # b /\ Majority(prevote', R, t, y)
      BY DEF Against
    <3>2. PICK y \in Values : y # b /\ Majority(prevote', R, t, y) BY <3>1
    <3>3. y # None BY ValuesAssumption DEF Values
    <3>4. ASSUME NEW q \in R \cap Lockers(s, b) PROVE FALSE
      <4>1. q \in Correct /\ precommit[q][s] = b BY DEF Lockers
      <4>2. prevote'[q][t] = y BY <3>2, <4>1 DEF Majority
      <4> QED BY <1>3, <2>3, <3>1, <3>2, <3>3, <4>1, <4>2
    <3>5. R \cap Lockers(s, b)' = {} BY <2>1, <3>4
    <3> QED BY <3>5
  <2> QED BY <2>2, <2>3
<1>6. PrecommitHasPolka'
  <2> SUFFICES ASSUME NEW q \in Correct, NEW s \in Rounds, precommit'[q][s] \in Blocks
               PROVE  <<s, precommit'[q][s]>> \in Polkas'
    BY DEF PrecommitHasPolka
  <2> DEFINE c == precommit[q][s]
  <2>1. c \in Blocks /\ c \in Values /\ precommit'[q][s] = c BY <1>1 DEF Values
  <2>2. <<s, c>> \in Polkas BY <1>0, <2>1 DEF PrecommitHasPolka
  <2>3. PICK Q \in Quorums : Majority(prevote, Q, s, c) BY <2>1, <2>2, PolkaIsMajority
  <2>4. Majority(prevote', Q, s, c) BY <1>0, <2>1, <2>3, MajorityStays
  <2> QED BY <2>1, <2>4 DEF Polkas
<1> QED BY <1>2, <1>4, <1>5, <1>6 DEF AgreementInv

LEMMA PrecommitKeeps ==
  ASSUME AgreementInv, NEW p \in Correct, NEW r \in Rounds, NEW x \in Values, CastPrecommit(p, r, x)
  PROVE  AgreementInv'
<1>0. BallotsOK /\ ChangedWithReason /\ FirstIsFree /\ PrecommitHasPolka
  BY DEF AgreementInv
<1>1. /\ precommit' = [precommit EXCEPT ![p][r] = x]
      /\ prevote' = prevote
      /\ \A s \in Rounds : s > r => prevote[p][s] = None
      /\ x \in Blocks => <<r, x>> \in Polkas
  BY DEF CastPrecommit, MayPrecommit, NothingAfter
<1>2. BallotsOK'
  BY <1>0, <1>1 DEF BallotsOK, Ballots
<1>3. \A Q, s, b : Against(Q, s, b)' <=> Against(Q, s, b)
  BY <1>1 DEF Against, Majority
<1>4. Polkas' = Polkas BY <1>1 DEF Polkas, Majority
<1>5. ASSUME NEW q \in Correct, NEW s \in Rounds, ~(q = p /\ s = r)
      PROVE  precommit'[q][s] = precommit[q][s]
  BY <1>0, <1>1, <1>5 DEF BallotsOK, Ballots
<1>6. precommit'[p][r] = x BY <1>0, <1>1 DEF BallotsOK, Ballots
<1>7. ChangedWithReason'
  <2> SUFFICES ASSUME NEW q \in Correct, NEW s \in Rounds, NEW t \in Rounds, NEW b \in Blocks,
                      precommit'[q][s] = b, t > s, prevote'[q][t] \notin {b, None}
               PROVE  \E Q \in Quorums : Against(Q, s, b)'
    BY DEF ChangedWithReason
  <2>1. ~(q = p /\ s = r) BY <1>1
  <2>2. precommit[q][s] = b /\ prevote[q][t] \notin {b, None} BY <1>1, <1>5, <2>1
  <2>3. \E Q \in Quorums : Against(Q, s, b) BY <1>0, <2>2 DEF ChangedWithReason
  <2> QED BY <1>3, <2>3
<1>8. FirstIsFree'
  <2> SUFFICES ASSUME NEW s \in Rounds, NEW b \in Blocks,
                      NEW R \in Quorums, Against(R, s, b)'
               PROVE  \E Q \in Quorums : Against(Q, s, b)' /\ Q \cap Lockers(s, b)' = {}
    BY DEF FirstIsFree
  <2>1. PICK Q \in Quorums : Against(Q, s, b) /\ Q \cap Lockers(s, b) = {}
    BY <1>0, <1>3 DEF FirstIsFree
  <2>2. ASSUME NEW q \in Q \cap Lockers(s, b)' PROVE FALSE
    <3>1. q \in Correct /\ precommit'[q][s] = b BY DEF Lockers
    <3>2. CASE q = p /\ s = r
      <4>1. PICK t \in Rounds : t > s /\ \E y \in Values : y # b /\ Majority(prevote, Q, t, y)
        BY <2>1 DEF Against
      <4>2. PICK y \in Values : Majority(prevote, Q, t, y) BY <4>1
      <4>3. prevote[q][t] = y BY <3>1, <4>2 DEF Majority
      <4> QED BY <1>1, <3>2, <4>1, <4>3, ValuesAssumption DEF Values
    <3>3. CASE ~(q = p /\ s = r)
      <4>1. q \in Lockers(s, b) BY <1>5, <3>1, <3>3 DEF Lockers
      <4> QED BY <2>1, <4>1
    <3> QED BY <3>2, <3>3
  <2> QED BY <1>3, <2>1, <2>2
<1>9. PrecommitHasPolka'
  <2> SUFFICES ASSUME NEW q \in Correct, NEW s \in Rounds, precommit'[q][s] \in Blocks
               PROVE  <<s, precommit'[q][s]>> \in Polkas'
    BY DEF PrecommitHasPolka
  <2>1. CASE q = p /\ s = r BY <1>1, <1>4, <1>6, <2>1
  <2>2. CASE ~(q = p /\ s = r) BY <1>0, <1>4, <1>5, <2>2 DEF PrecommitHasPolka
  <2> QED BY <2>1, <2>2
<1> QED BY <1>2, <1>7, <1>8, <1>9 DEF AgreementInv

\* A commit leaves no quorum free of its lockers for another polka.
LEMMA InvSettles == AgreementInv => Settled
<1> SUFFICES ASSUME AgreementInv,
                    NEW r \in Rounds, NEW s \in Rounds, NEW b \in Blocks, NEW x \in Values,
                    Committed(r, b), s >= r, <<s, x>> \in Polkas, x # b
             PROVE  FALSE
  BY DEF Settled
<1>0. FirstIsFree /\ PrecommitHasPolka BY DEF AgreementInv
<1>1. PICK Q \in Quorums : Majority(precommit, Q, r, b) BY DEF Committed
<1>2. PICK P \in Quorums : Majority(prevote, P, s, x) BY PolkaIsMajority
<1>3. CASE s = r
  <2>1. PICK p \in Q : p \in Correct BY QuorumAssumption DEF QuorumsIntersect
  <2>2. precommit[p][r] = b BY <1>1, <2>1 DEF Majority
  <2>3. <<r, b>> \in Polkas BY <1>0, <2>1, <2>2 DEF PrecommitHasPolka
  <2>4. PICK R \in Quorums : Majority(prevote, R, r, b) BY <2>3, PolkaIsMajority DEF Values
  <2>5. PICK q \in P \cap R : q \in Correct BY QuorumAssumption DEF QuorumsIntersect
  <2> QED BY <1>2, <1>3, <2>4, <2>5 DEF Majority
<1>4. CASE s > r
  <2>1. Against(P, r, b) BY <1>2, <1>4 DEF Against
  <2>2. PICK F \in Quorums : F \cap Lockers(r, b) = {} BY <1>0, <2>1 DEF FirstIsFree
  <2>3. PICK q \in F \cap Q : q \in Correct BY QuorumAssumption DEF QuorumsIntersect
  <2>4. q \in Lockers(r, b) BY <1>1, <2>3 DEF Majority, Lockers
  <2> QED BY <2>2, <2>3, <2>4
<1>5. s = r \/ s > r BY DEF Rounds
<1> QED BY <1>3, <1>4, <1>5

\* The later of two commits had a polka.
LEMMA InvAgrees == AgreementInv => Agreed
<1> SUFFICES ASSUME AgreementInv PROVE Agreed OBVIOUS
<1>1. ASSUME NEW r \in Rounds, NEW s \in Rounds, NEW b \in Blocks, NEW c \in Blocks,
             Committed(r, b), Committed(s, c), s >= r
      PROVE  b = c
  <2>1. PICK Q \in Quorums : Majority(precommit, Q, s, c) BY <1>1 DEF Committed
  <2>2. PICK p \in Q : p \in Correct BY QuorumAssumption DEF QuorumsIntersect
  <2>3. precommit[p][s] = c BY <2>1, <2>2 DEF Majority
  <2>4. <<s, c>> \in Polkas BY <2>2, <2>3 DEF AgreementInv, PrecommitHasPolka
  <2>5. c \in Values BY DEF Values
  <2> QED BY <1>1, <2>4, <2>5, InvSettles DEF Settled
<1>2. ASSUME NEW r \in Rounds, NEW s \in Rounds PROVE s >= r \/ r >= s
  BY DEF Rounds
<1> QED BY <1>1, <1>2 DEF Agreed

\* The argument for agreement holds in every reachable state.
THEOREM AgreementInvariant == Voting => []AgreementInv
<1>1. AgreementInv /\ [VotingNext]_votingVars => AgreementInv'
  <2> SUFFICES ASSUME AgreementInv, [VotingNext]_votingVars PROVE AgreementInv' OBVIOUS
  <2>1. CASE VotingNext
    <3>1. PICK p \in Correct, r \in Rounds, x \in Values : CastPrevote(p, r, x) \/ CastPrecommit(p, r, x)
      BY <2>1 DEF VotingNext
    <3> QED BY <3>1, PrevoteKeeps, PrecommitKeeps
  <2>2. CASE UNCHANGED votingVars
    <3>1. prevote' = prevote /\ precommit' = precommit BY <2>2 DEF votingVars
    <3>2. BallotsOK' BY <3>1 DEF AgreementInv, BallotsOK
    <3>3. \A Q, s, b : Against(Q, s, b)' <=> Against(Q, s, b)
      BY <3>1 DEF Against, Majority
    <3>4. ChangedWithReason' BY <3>1, <3>3 DEF AgreementInv, ChangedWithReason
    <3>5. FirstIsFree' BY <3>1, <3>3 DEF AgreementInv, FirstIsFree, Lockers
    <3>6. PrecommitHasPolka'
      BY <3>1 DEF AgreementInv, PrecommitHasPolka, Polkas, Majority
    <3> QED BY <3>2, <3>4, <3>5, <3>6 DEF AgreementInv
  <2> QED BY <2>1, <2>2
<1> QED BY <1>1, AgreementInit, PTL DEF Voting

\* A committed block has every later polka of its height: what a validator may
\* rely on about the votes it receives.
THEOREM SettledTheorem == Voting => []Settled
BY AgreementInvariant, InvSettles, PTL

\* Agreement: with less than a third of the voting power faulty, validators
\* that keep LockRule never commit two different blocks at one height.
THEOREM AgreementTheorem == Voting => []Agreed
BY AgreementInvariant, InvAgrees, PTL

=============================================================================
