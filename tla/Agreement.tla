----------------------------- MODULE Agreement -----------------------------
(***************************************************************************)
(* One height of Tendermint consensus: correct validators that keep        *)
(* LockRule, and faulty ones that sign anything.  A vote that was signed   *)
(* can be counted by everybody, late or never, so a validator acts on any  *)
(* majority that the votes signed so far, with all the votes the faulty    *)
(* ones might sign, allow.                                                 *)
(***************************************************************************)
EXTENDS LockRule

CONSTANTS Validators, Faulty,
          Quorums   \* sets with more than two thirds of the voting power

Correct == Validators \ Faulty

\* With less than a third of the power faulty, two quorums share a correct
\* validator.
QuorumsIntersect ==
  /\ Faulty \subseteq Validators
  /\ Quorums \subseteq SUBSET Validators
  /\ \A Q, R \in Quorums : Q \cap R \cap Correct # {}

ASSUME QuorumAssumption == QuorumsIntersect

VARIABLES prevote, precommit   \* signed by the correct validators

votingVars == <<prevote, precommit>>

NoVotes == [r \in Rounds |-> None]

VotingInit ==
  /\ prevote = [p \in Correct |-> NoVotes]
  /\ precommit = [p \in Correct |-> NoVotes]

\* VoteSet.TwoThirdsMajority, with every faulty validator counted.
Majority(votes, Q, r, x) == \A p \in Q \cap Correct : votes[p][r] = x
Polkas ==
  {t \in Rounds \X Values : \E Q \in Quorums : Majority(prevote, Q, t[1], t[2])}

\* Mutant of CastPrevote: a validator that is locked prevotes any proposal.
CastPrevoteUnlocked(p, r, x) ==
  /\ prevote[p][r] = None /\ precommit[p][r] = None
  /\ NothingAfter(prevote[p], precommit[p], r)
  /\ prevote' = [prevote EXCEPT ![p][r] = x]
  /\ UNCHANGED precommit

CastPrevote(p, r, x) ==
  /\ MayPrevote(prevote[p], precommit[p], Polkas, r, x)
  /\ prevote' = [prevote EXCEPT ![p][r] = x]
  /\ UNCHANGED precommit

\* Mutant of CastPrecommit: the proposal is precommitted without a polka.
CastPrecommitUnchecked(p, r, x) ==
  /\ precommit[p][r] = None
  /\ NothingAfter(prevote[p], precommit[p], r)
  /\ precommit' = [precommit EXCEPT ![p][r] = x]
  /\ UNCHANGED prevote

CastPrecommit(p, r, x) ==
  /\ MayPrecommit(prevote[p], precommit[p], Polkas, r, x)
  /\ precommit' = [precommit EXCEPT ![p][r] = x]
  /\ UNCHANGED prevote

VotingNext ==
  \E p \in Correct, r \in Rounds, x \in Values :
    CastPrevote(p, r, x) \/ CastPrecommit(p, r, x)

Voting == VotingInit /\ [][VotingNext]_votingVars

\* enterCommit's condition: a quorum precommitted block b in round r.
Committed(r, b) == \E Q \in Quorums : Majority(precommit, Q, r, b)

BallotsOK ==
  /\ prevote \in [Correct -> Ballots]
  /\ precommit \in [Correct -> Ballots]

\* No two blocks of one height are committed, in the same round or in
\* different ones.
Agreed ==
  \A r, s \in Rounds, b, c \in Blocks : Committed(r, b) /\ Committed(s, c) => b = c

\* Once a block can be committed in a round, every polka from that round on
\* is for it, so a validator that missed the commit can only come to it again.
Settled ==
  \A r, s \in Rounds, b \in Blocks, x \in Values :
    Committed(r, b) /\ s >= r /\ <<s, x>> \in Polkas => x = b

(***************************************************************************)
(* Why: the inductive invariant.                                           *)
(***************************************************************************)
\* The correct validators that precommitted b in round r.
Lockers(r, b) == {p \in Correct : precommit[p][r] = b}

\* A quorum prevoted something other than b after round r.
Against(Q, r, b) ==
  \E s \in Rounds : s > r /\ \E x \in Values : x # b /\ Majority(prevote, Q, s, x)

\* A correct validator that precommitted b and later prevoted something else
\* had seen b outvoted.
ChangedWithReason ==
  \A p \in Correct, r, s \in Rounds, b \in Blocks :
    precommit[p][r] = b /\ s > r /\ prevote[p][s] \notin {b, None}
      => \E Q \in Quorums : Against(Q, r, b)

\* If b was outvoted after round r then also by a quorum without any of its
\* lockers: the first one.
FirstIsFree ==
  \A r \in Rounds, b \in Blocks :
    (\E Q \in Quorums : Against(Q, r, b))
      => \E Q \in Quorums : Against(Q, r, b) /\ Q \cap Lockers(r, b) = {}

\* A block is precommitted only after a polka in the same round.
PrecommitHasPolka ==
  \A p \in Correct, r \in Rounds : precommit[p][r] \in Blocks => <<r, precommit[p][r]>> \in Polkas

\* What the validators know of each other's locks, whatever the votes and
\* rounds: the reason why commits agree.
AgreementInv == BallotsOK /\ ChangedWithReason /\ FirstIsFree /\ PrecommitHasPolka

=============================================================================
