------------------------------- MODULE Ranking -------------------------------
(***************************************************************************)
(* What a game promises, whatever happens in it: each report of a death    *)
(* takes the last place left, until a tick finds fewer than two players    *)
(* without a place and the game is over.  Nobody checks whether the one    *)
(* reported has a place already: it gets the new one instead, and one      *)
(* place fewer is left.  GameSession implements it.                        *)
(***************************************************************************)
EXTENDS Integers, FiniteSets

CONSTANT Contestants
ASSUME ContestantsAreFinite == IsFiniteSet(Contestants)

VARIABLES
  rank,   \* per contestant its place, or 0
  left,   \* PlayersLeft: the last place left
  over

Standing == {p \in Contestants : rank[p] = 0}

RankInit ==
  rank = [p \in Contestants |-> 0] /\ left = Cardinality(Contestants) /\ over = FALSE

RankNext(p) ==
  /\ ~over
  /\ rank' = [rank EXCEPT ![p] = left]
  /\ left' = left - 1
  /\ UNCHANGED over

EndGame ==
  /\ ~over /\ Cardinality(Standing) < 2
  /\ over' = TRUE /\ UNCHANGED <<rank, left>>

RankedSpec ==
  RankInit /\ [][(\E p \in Contestants : RankNext(p)) \/ EndGame]_<<rank, left, over>>
=============================================================================
