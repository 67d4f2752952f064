------------------------------- MODULE Vault -------------------------------
(***************************************************************************)
(* The contract's token balance as seasons and liquidity pools use it: the *)
(* escrow calls lock_stake, refund and release_payout.  What users hold    *)
(* outside the contract is left out; a transfer they cannot cover is a     *)
(* call that fails.                                                        *)
(***************************************************************************)
EXTENDS Platform, FiniteSetsExt

VARIABLE escrow    \* balance of the contract

Floor(a, b) == a \div b

(* lock_stake. *)
Lock(amount) ==
  /\ amount > 0
  /\ escrow' = escrow + amount

(* refund and release_payout, which differ in name only. *)
Pay(amount) ==
  /\ amount > 0
  /\ amount <= escrow
  /\ escrow' = escrow - amount
=============================================================================
