----------------------------- MODULE MCInvites -----------------------------
(* A small instance of Invites: one private market of alice's, and the     *)
(* administrator's calls, which pause the contract and hand over its roles. *)
EXTENDS Invites

CONSTANTS alice, bob, carol, admin, oracle, contract, yes, no

PrivateMarkets ==
  {[outcomes |-> {yes, no}, endTime |-> 2, resolutionTime |-> 2,
    disputeWindow |-> 0, creatorFee |-> 100, minStake |-> 1, maxStake |-> 10,
    isPublic |-> FALSE]}

OutcomeSymmetry == Permutations(Outcomes)
=============================================================================
