------------------------ MODULE MCDisciplinedMarket ------------------------
(* Small instances of DisciplinedMarket, with MCMarketMaker's parameters. *)
EXTENDS DisciplinedMarket

CONSTANTS alice, bob, carol, admin, oracle, contract, yes, no

Timetable(end, decision, window, fee) ==
  [outcomes |-> {yes, no}, endTime |-> end, resolutionTime |-> decision,
   disputeWindow |-> window, creatorFee |-> fee, minStake |-> 1,
   maxStake |-> 10, isPublic |-> TRUE]

RootMarkets  == {Timetable(1, 1, 0, 500)}
ChildMarkets == {Timetable(2, 3, 0, 0)}

OutcomeSymmetry == Permutations(Outcomes)

Backers == Users \ Creators

BackerSymmetry == Permutations(Backers) \cup Permutations(Outcomes)
=============================================================================
