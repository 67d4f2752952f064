--------------------------- MODULE MCMarketMaker ---------------------------
(***************************************************************************)
(* A small instance of MarketMaker: one market that may close at 1, is     *)
(* decided from 1 on and can be disputed for one more unit of time.        *)
(***************************************************************************)
EXTENDS MarketMaker

CONSTANTS alice, bob, carol, admin, oracle, contract, yes, no

Timetable(end, decision, window, fee, public) ==
  [outcomes |-> {yes, no}, endTime |-> end, resolutionTime |-> decision,
   disputeWindow |-> window, creatorFee |-> fee, minStake |-> 1,
   maxStake |-> 10, isPublic |-> public]

RootMarkets  == {Timetable(1, 1, 1, 500, TRUE)}

Symmetry == Permutations(Users) \cup Permutations(Outcomes)

=============================================================================
