------------------------------ MODULE Rewards ------------------------------
(***************************************************************************)
(* Seasons and liquidity pools together, over the one balance they share.  *)
(***************************************************************************)
EXTENDS Liquidity, Seasons

rewardsVars == <<platformVars, escrow, poolVars, seasonVars>>

RewardsInit == LiquidityInit /\ SeasonsInit

RewardsNext ==
  \/ LiquidityStep /\ UNCHANGED seasonVars
  \/ SeasonStep /\ UNCHANGED poolVars
  \/ (Tick \/ ConfigNext) /\ UNCHANGED <<escrow, poolVars, seasonVars>>

RewardsSpec == RewardsInit /\ [][RewardsNext]_rewardsVars

RewardsTypeOK == LiquidityTypeOK /\ SeasonsTypeOK

(* The balance covers all deposits and fees of the pools and all prizes of  *)
(* seasons to be finalized, in any mix of deposits, swaps, withdrawals and  *)
(* prize givings, with every share and fee rounded on the way.              *)
RewardsCovered == escrow >= LiquidityOwed + SeasonsOwed
=============================================================================
