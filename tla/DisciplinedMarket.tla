------------------------- MODULE DisciplinedMarket -------------------------
(***************************************************************************)
(* The market-maker under an operator that keeps to five rules the code    *)
(* does not enforce.  Each rule closes one way in which a sequence of      *)
(* accepted calls lets one market be paid with the money of another; under *)
(* them every market keeps to a purse of its own (Purses).                 *)
(***************************************************************************)
EXTENDS MarketMaker

NobodySettled(m) == \A u \in Users : settlements[m][u] = 0

(* resolve_market does not look at is_cancelled. *)
DecideOnce(m) == ~market[m].cancelled

(* The protocol fee may be set to 100 %, on top of the creator's. *)
FeesFit(m) == cfg.feeBps + market[m].creatorFee <= BPS

(* batch_distribute_payouts shares the pool among the winners it finds      *)
(* unpaid: right only if they are all the winners and one batch is enough.  *)
BatchIsComplete(m) ==
  NobodySettled(m) /\ Cardinality(Winners(m, pred)) <= MaxBatch

(* claim_payout counts the claimed winners through their temporary records. *)
EveryoneClaimed(m) == market[m].resolved => Winners(m, pred) = {}

(* resolve_dispute reopens a market whatever was already paid. *)
MayReopen(m, uphold) == uphold => NobodySettled(m)

DisciplinedNext ==
  \/ PlatformStep
  \/ Creation
  \/ Editing
  \/ Staking
  \/ \E m \in Created : CancelMarket(m)
  \/ \E m \in Created, o \in Outcomes : DecideOnce(m) /\ ResolveMarket(m, o)
  \/ \E u \in Users, m \in Created : FeesFit(m) /\ ClaimPayout(u, m)
  \/ \E m \in Created : FeesFit(m) /\ BatchIsComplete(m) /\ BatchDistribute(m)
  \/ \E m \in Created, u \in Users : EveryoneClaimed(m) /\ ExpireClaimed(m, u)
  \/ \E u \in Users, m \in Created, bond \in Bonds : RaiseDispute(u, m, bond)
  \/ \E m \in Disputed, uphold \in BOOLEAN :
       MayReopen(m, uphold) /\ ResolveDispute(m, uphold)
  \/ Housekeeping

DisciplinedSpec == Init /\ [][DisciplinedNext]_vars

-----------------------------------------------------------------------------
(* No prediction is settled twice, be it by a refund and a payout, by a     *)
(* claim and a batch, or by payouts of two resolutions.                     *)
SettledAtMostOnce ==
  \A m \in MarketIds, u \in Users : settlements[m][u] <= 1

(* What is charged to a market never exceeds what was staked on it, for all *)
(* the rounding of shares and fees and whatever fees change between claims. *)
PayoutsWithinPool == \A m \in Created : paidOut[m] <= market[m].pool

(* A cancelled market gave every stake back, also when it was closed as the *)
(* child of another and the errors of its refunds were discarded.           *)
CancelledIsRefunded ==
  \A m \in Created : market[m].cancelled =>
    /\ \A u \in Range(predictors[m]) : settlements[m][u] = 1
    /\ paidOut[m] = market[m].pool

-----------------------------------------------------------------------------
(* The contract as a set of purses. *)

PhaseOf(m) ==
  IF market[m] = None THEN "absent"
  ELSE IF market[m].cancelled THEN "cancelled"
  ELSE IF market[m].resolved THEN "decided"
  ELSE "open"

Promise == INSTANCE Purses WITH
  Markets    <- MarketIds,
  Predictors <- Users,
  Amounts    <- Stakes,
  phase      <- [m \in MarketIds |-> PhaseOf(m)],
  purse      <- [m \in MarketIds |->
                   IF market[m] = None THEN 0 ELSE market[m].pool - paidOut[m]],
  backers    <- [m \in MarketIds |-> Range(predictors[m])],
  settled    <- [m \in MarketIds |-> {u \in Users : settlements[m][u] > 0}]

(* Every step of the disciplined contract is a step of the purses. *)
MarketsAreSeparatePurses == Promise!PursesSpec
=============================================================================
