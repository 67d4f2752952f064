-------------------------- MODULE MCCreatorEvents --------------------------
(* Small instances of CreatorEvents.  The offers: one prize for two         *)
(* participants, a pool of two ranks that does not divide evenly, and two   *)
(* that the validation refuses.                                             *)
EXTENDS CreatorEvents, TLC

CONSTANTS alice, bob, carol, agent, treasury, contract

AddressOrder == [u \in Users |-> IF u = alice THEN 2 ELSE IF u = bob THEN 1 ELSE 3]

SomeOffers ==
  {[end |-> 3, cap |-> 2, pool |-> 2, split |-> <<100>>, entryFee |-> 1],
   [end |-> 3, cap |-> 1, pool |-> 1, split |-> <<60, 40>>, entryFee |-> 2],
   [end |-> 3, cap |-> 1, pool |-> 0, split |-> <<100>>, entryFee |-> 0],
   [end |-> 3, cap |-> 1, pool |-> 2, split |-> <<70, 20>>, entryFee |-> 0]}

ScoreLines ==
  {[home |-> 1, away |-> 0], [home |-> 2, away |-> 0]}
=============================================================================
