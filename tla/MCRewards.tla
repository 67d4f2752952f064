----------------------------- MODULE MCRewards -----------------------------
(* A small instance of Rewards: one market, two providers, two seasons. *)
EXTENDS Rewards, TLC

CONSTANTS u1, u2, m1, yes, no, admin, oracle, contract

SomeTerms == { [start |-> 0, end |-> 1], [start |-> 1, end |-> 2], [start |-> 0, end |-> 3] }

Place(u, points) == [user |-> u, points |-> points]

(* Nobody below the podium and no points, or more than add up, and a table  *)
(* that goes on below.                                                      *)
SomeBoards ==
  { <<Place(u2, 0)>>, <<Place(u1, 5), Place(u2, 5)>>,
    <<Place(u1, 5), Place(u2, 4), Place(u1, 4), Place(u2, 2), Place(u1, 1), Place(u2, 1)>> }

SwappedOutcomes == Permutations({yes, no})
=============================================================================
