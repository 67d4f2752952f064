---------------------------- MODULE MCGovernance ----------------------------
(* Small instances of Governance: lawful and unlawful changes of the fee,   *)
(* of the stake floor and of the oracle.  Every user counts for the quorum, *)
(* so that a registration moves it.                                         *)
EXTENDS Governance

CONSTANTS alice, bob, carol, dave, admin, oracle, contract

SomeChanges ==
  {[kind |-> "fee", bps |-> 300], [kind |-> "fee", bps |-> BPS + 1],
   [kind |-> "oracle", oracle |-> bob], [kind |-> "minStake", amount |-> 0],
   [kind |-> "minStake", amount |-> 2], [kind |-> "category"]}
=============================================================================
