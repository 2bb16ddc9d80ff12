------------------------------ MODULE LockRule ------------------------------
(***************************************************************************)
(* What a correct Tendermint validator promises about the votes it signs   *)
(* in one height, and all that agreement needs.  ConsensusState (one       *)
(* validator as the code runs it) is shown to keep these promises;         *)
(* Agreement composes validators that keep them.                           *)
(*                                                                         *)
(* pv[r] and pc[r] are the prevote and the precommit of round r, None if   *)
(* it was not signed; polkas is a set of pairs <<r, x>>: more than two     *)
(* thirds of the voting power prevoted x in round r.                       *)
(***************************************************************************)
EXTENDS Integers

CONSTANTS Blocks, Nil, None, MaxRound

ASSUME ValuesAssumption ==
  Nil \notin Blocks /\ None \notin Blocks /\ Nil # None
ASSUME MaxRoundAssumption == MaxRound \in Nat

Rounds == 0 .. MaxRound
Values == Blocks \cup {Nil}
Ballots == [Rounds -> Values \cup {None}]

\* Nothing was signed in a round after r.
NothingAfter(pv, pc, r) == \A q \in Rounds : q > r => pv[q] = None /\ pc[q] = None

\* The lock on the block precommitted in round q was released by round r:
\* there was a polka for something else in between.
Released(pc, polkas, q, r) ==
  \E p \in Rounds : p > q /\ p <= r /\ \E y \in Values : y # pc[q] /\ <<p, y>> \in polkas

\* One prevote in a round, before its precommit, and for another block than
\* the one precommitted earlier only if that lock was released.
MayPrevote(pv, pc, polkas, r, x) ==
  /\ pv[r] = None /\ pc[r] = None
  /\ NothingAfter(pv, pc, r)
  /\ \A q \in Rounds :
       q < r /\ pc[q] \in Blocks /\ pc[q] # x => Released(pc, polkas, q, r)

\* One precommit in a round, and for a block only with a polka of that round.
MayPrecommit(pv, pc, polkas, r, x) ==
  /\ pc[r] = None
  /\ NothingAfter(pv, pc, r)
  /\ x \in Blocks => <<r, x>> \in polkas

=============================================================================
