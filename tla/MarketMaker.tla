---------------------------- MODULE MarketMaker ----------------------------
(***************************************************************************)
(* The core of the market-maker contract: markets and their conditional    *)
(* children, predictions, the shared escrow, payouts, disputes, the        *)
(* treasury and the statistics the handlers keep along the way.            *)
(*                                                                         *)
(* One token balance, bank[Contract], backs every market, every bond and   *)
(* the treasury at once: nothing but the arithmetic of the handlers keeps  *)
(* one market from being paid with the stakes of another.                  *)
(***************************************************************************)
EXTENDS Platform, SequencesExt

CONSTANTS
  MaxMarkets,      \* bound: markets ever created
  Outcomes,        \* outcome symbols
  None,            \* an absent storage entry, and Option::None
  Creators,        \* bound: the users that create markets
  RootParams,      \* bound: parameters given to create_market
  ChildParams,     \* bound: parameters given to create_conditional_market
  CreatorFees,     \* bound: fees given to update_creator_fee
  Closers,         \* bound: accounts that call close_market
  NewEndTimes,     \* bound: times given to extend_market_end_time
  Stakes,          \* bound: amounts given to submit_prediction
  Bonds,           \* bound: bonds given to raise_dispute
  MaxDisputes,     \* bound: disputes against one creator's markets
  Resettable,      \* bound: creators whose statistics the admin resets
  Withdrawals,     \* bound: amounts given to withdraw_treasury
  InitialFunds,    \* tokens every user starts with
  MaxBatch,        \* MAX_BATCH_PAYOUTS
  MaxDepth,        \* MAX_CONDITIONAL_DEPTH
  StakePoint       \* STROOPS_PER_STAKE_POINT

MarketIds == 1..MaxMarkets

Params ==
  [outcomes : SUBSET Outcomes, endTime : Nat, resolutionTime : Nat,
   disputeWindow : Nat, creatorFee : Nat, minStake : Nat, maxStake : Nat,
   isPublic : BOOLEAN]

VARIABLES
  marketCount,     \* DataKey::MarketCount
  market,          \* DataKey::Market(id)
  conditional,     \* DataKey::ConditionalMarket(id) and ConditionalParent(id)
  allowlist,       \* DataKey::MarketAllowlist(id)
  predictors,      \* DataKey::PredictorList(id), in order of arrival
  pred,            \* DataKey::Prediction(id, user) in persistent storage
  claimed,         \* the same key in temporary storage: a claimed prediction
  dispute,         \* DataKey::Dispute(id)
  disputeCount,    \* DataKey::DisputeCount
  activeDisputes,  \* DataKey::ActiveDisputeList, without its order
  treasury,        \* DataKey::Treasury
  bank,            \* balances of the XLM token
  profile,         \* DataKey::User(user)
  creatorStats,    \* DataKey::CreatorStats(user)
  settlements,     \* history: transfers made to a user for one prediction
  paidOut          \* history: tokens and fees charged to a market's pool

marketVars  == <<marketCount, market, conditional>>
stakeVars   == <<predictors, pred, claimed>>
disputeVars == <<dispute, disputeCount, activeDisputes>>
moneyVars   == <<treasury, bank>>
statVars    == <<profile, creatorStats>>
historyVars == <<settlements, paidOut>>

vars == <<platformVars, marketVars, allowlist, stakeVars, disputeVars,
          moneyVars, statVars, historyVars>>

-----------------------------------------------------------------------------
(* Storage entries. *)

Market ==
  [creator : Users, outcomes : SUBSET Outcomes, endTime : Nat,
   resolutionTime : Nat, disputeWindow : Nat, creatorFee : Nat,
   minStake : Nat, maxStake : Nat, isPublic : BOOLEAN, closed : BOOLEAN,
   resolved : BOOLEAN, outcome : Outcomes \cup {None}, resolvedAt : Nat,
   cancelled : BOOLEAN, pool : Nat, participants : Nat]

Prediction == [outcome : Outcomes, stake : Nat]

Dispute == [disputer : Users, bond : Nat, filedAt : Nat]

Conditional ==
  [parent : MarketIds, required : Outcomes, depth : Nat, activated : BOOLEAN]

Profile ==
  [predictions : Nat, staked : Nat, winnings : Int, correct : Nat, points : Nat]

CreatorStats == [created : Nat, resolved : Nat, average : Nat, disputes : Nat]

ASSUME MarketAssumption ==
  /\ MaxMarkets \in Nat
  /\ IsFiniteSet(Outcomes)
  /\ None \notin Outcomes \cup Market \cup Prediction \cup Dispute \cup Conditional
  /\ Creators \subseteq Users
  /\ RootParams \cup ChildParams \subseteq Params
  /\ CreatorFees \subseteq Nat
  /\ Closers \subseteq Accounts
  /\ NewEndTimes \subseteq Nat
  /\ Stakes \subseteq Nat
  /\ Bonds \subseteq Nat
  /\ MaxDisputes \in Nat
  /\ Resettable \subseteq Users
  /\ Withdrawals \subseteq Nat
  /\ InitialFunds \in Nat
  /\ MaxBatch \in Nat \ {0}
  /\ MaxDepth \in Nat
  /\ StakePoint \in Nat \ {0}

Created == {m \in MarketIds : market[m] # None}

Live(m) == ~market[m].resolved /\ ~market[m].cancelled

Disputed == {m \in MarketIds : dispute[m] # None}

(* Everything but the balances of tokens and the statistics. *)
LifecycleTypeOK ==
  /\ PlatformTypeOK
  /\ marketCount \in 0..MaxMarkets
  /\ market \in [MarketIds -> Market \cup {None}]
  /\ conditional \in [MarketIds -> Conditional \cup {None}]
  /\ allowlist \in [MarketIds -> SUBSET Users]
  /\ predictors \in [MarketIds -> Seq(Users)]
  /\ pred \in [MarketIds -> [Users -> Prediction \cup {None}]]
  /\ claimed \in [MarketIds -> [Users -> Prediction \cup {None}]]
  /\ dispute \in [MarketIds -> Dispute \cup {None}]
  /\ disputeCount \in Nat
  /\ activeDisputes \subseteq MarketIds
  /\ settlements \in [MarketIds -> [Users -> Nat]]

TypeOK ==
  /\ LifecycleTypeOK
  /\ treasury \in Nat
  /\ bank \in [Accounts -> Nat]
  /\ profile \in [Users -> Profile]
  /\ creatorStats \in [Users -> CreatorStats]
  /\ paidOut \in [MarketIds -> Nat]

Init ==
  /\ PlatformInit
  /\ marketCount = 0
  /\ market = [m \in MarketIds |-> None]
  /\ conditional = [m \in MarketIds |-> None]
  /\ allowlist = [m \in MarketIds |-> {}]
  /\ predictors = [m \in MarketIds |-> <<>>]
  /\ pred = [m \in MarketIds |-> [u \in Users |-> None]]
  /\ claimed = [m \in MarketIds |-> [u \in Users |-> None]]
  /\ dispute = [m \in MarketIds |-> None]
  /\ disputeCount = 0
  /\ activeDisputes = {}
  /\ treasury = 0
  /\ bank = [a \in Accounts |-> IF a \in Users THEN InitialFunds ELSE 0]
  /\ profile = [u \in Users |-> [predictions |-> 0, staked |-> 0,
                  winnings |-> 0, correct |-> 0, points |-> 0]]
  /\ creatorStats = [u \in Users |-> [created |-> 0, resolved |-> 0,
                       average |-> 0, disputes |-> 0]]
  /\ settlements = [m \in MarketIds |-> [u \in Users |-> 0]]
  /\ paidOut = [m \in MarketIds |-> 0]
-----------------------------------------------------------------------------
(* Creating and editing markets. *)

(* What the checks of create_market require of the parameters. *)
ValidParams(p) ==
  /\ p.endTime > now
  /\ p.resolutionTime >= p.endTime
  /\ Cardinality(p.outcomes) >= 2
  /\ p.creatorFee <= MaxCreatorFee
  /\ p.minStake >= cfg.minStake
  /\ p.maxStake >= p.minStake

NewMarket(c, p) ==
  [creator |-> c, outcomes |-> p.outcomes, endTime |-> p.endTime,
   resolutionTime |-> p.resolutionTime, disputeWindow |-> p.disputeWindow,
   creatorFee |-> p.creatorFee, minStake |-> p.minStake,
   maxStake |-> p.maxStake, isPublic |-> p.isPublic, closed |-> FALSE,
   resolved |-> FALSE, outcome |-> None, resolvedAt |-> 0,
   cancelled |-> FALSE, pool |-> 0, participants |-> 0]

(* The part create_market and create_conditional_market share. *)
AddMarket(c, p, link) ==
  /\ NotPaused
  /\ marketCount < MaxMarkets
  /\ ValidParams(p)
  /\ marketCount' = marketCount + 1
  /\ market' = [market EXCEPT ![marketCount + 1] = NewMarket(c, p)]
  /\ conditional' = [conditional EXCEPT ![marketCount + 1] = link]
  /\ creatorStats' = [creatorStats EXCEPT ![c].created = @ + 1]
  /\ TrackUsers({c})
  /\ UNCHANGED <<now, cfg, allowlist, stakeVars, disputeVars, moneyVars,
                 profile, historyVars>>

CreateMarket(c, p) == AddMarket(c, p, None)

(* calculate_conditional_depth: hops from a market up to its root. *)
Depth[m \in MarketIds] ==
  IF conditional[m] = None \/ conditional[m].parent >= m THEN 0
  ELSE 1 + Depth[conditional[m].parent]

(* validate_conditional_params: a child outlives its parent. *)
ConditionalParams(parent, required, p) ==
  /\ parent \in Created
  /\ Live(parent)
  /\ required \in market[parent].outcomes
  /\ p.endTime > market[parent].resolutionTime
  /\ p.resolutionTime > p.endTime

CreateConditionalMarket(c, parent, required, p) ==
  /\ ConditionalParams(parent, required, p)
  /\ Depth[parent] \in 0..(MaxDepth - 1)
  /\ AddMarket(c, p, [parent |-> parent, required |-> required,
                      depth |-> Depth[parent] + 1, activated |-> FALSE])

(* Fault: the deadline of an edit is forgotten. *)
EditableBy_NoDeadline(c, m) ==
  NotPaused /\ m \in Created /\ market[m].creator = c /\ Live(m)

(* The guards update_creator_fee and extend_market_end_time share. *)
EditableBy(c, m) ==
  /\ NotPaused
  /\ m \in Created
  /\ market[m].creator = c
  /\ Live(m)
  /\ now < market[m].endTime

UpdateCreatorFee(c, m, fee) ==
  /\ EditableBy(c, m)
  /\ fee <= MaxCreatorFee
  /\ market' = [market EXCEPT ![m].creatorFee = fee]
  /\ UNCHANGED <<platformVars, marketCount, conditional, allowlist, stakeVars,
                 disputeVars, moneyVars, statVars, historyVars>>

ExtendEndTime(c, m, end) ==
  /\ EditableBy(c, m)
  /\ ~market[m].closed
  /\ end > market[m].endTime
  /\ market' = [market EXCEPT
                  ![m].endTime = end,
                  ![m].resolutionTime = IF @ < end THEN end ELSE @]
  /\ UNCHANGED <<platformVars, marketCount, conditional, allowlist, stakeVars,
                 disputeVars, moneyVars, statVars, historyVars>>

CloseMarket(caller, m) ==
  /\ m \in Created
  /\ now >= market[m].endTime
  /\ ~market[m].resolved
  /\ caller \in {market[m].creator, cfg.admin, cfg.oracle}
  /\ market' = [market EXCEPT ![m].closed = TRUE]
  /\ UNCHANGED <<platformVars, marketCount, conditional, allowlist, stakeVars,
                 disputeVars, moneyVars, statVars, historyVars>>

-----------------------------------------------------------------------------
(* Staking. *)

Deposit(u, amount) ==
  /\ amount > 0
  /\ bank[u] >= amount
  /\ bank' = [bank EXCEPT ![u] = @ - amount, ![Contract] = @ + amount]

(* Fault: the allowlist of a private market is not looked at. *)
Admitted_Anyone(u, m) == TRUE

Admitted(u, m) == market[m].isPublic \/ u \in allowlist[m]

(* Fault: an earlier prediction of the user is not looked for. *)
Acceptable_Again(u, m, o, stake) ==
  /\ ~market[m].cancelled
  /\ now < market[m].endTime
  /\ o \in market[m].outcomes
  /\ Admitted(u, m)
  /\ stake \in market[m].minStake..market[m].maxStake

(* That a condition the market waits for has been met is not required. *)
Acceptable(u, m, o, stake) ==
  /\ ~market[m].cancelled
  /\ now < market[m].endTime
  /\ o \in market[m].outcomes
  /\ Admitted(u, m)
  /\ stake \in market[m].minStake..market[m].maxStake
  /\ pred[m][u] = None

SubmitPrediction(u, m, o, stake) ==
  /\ NotPaused
  /\ m \in Created
  /\ Acceptable(u, m, o, stake)
  /\ Deposit(u, stake)
  /\ pred' = [pred EXCEPT ![m][u] = [outcome |-> o, stake |-> stake]]
  /\ predictors' = [predictors EXCEPT ![m] = Append(@, u)]
  /\ market' = [market EXCEPT ![m].pool = @ + stake, ![m].participants = @ + 1]
  /\ profile' = [profile EXCEPT ![u].predictions = @ + 1, ![u].staked = @ + stake]
  /\ TrackUsers({u})
  /\ UNCHANGED <<now, cfg, marketCount, conditional, allowlist, claimed,
                 disputeVars, treasury, creatorStats, historyVars>>

-----------------------------------------------------------------------------
(* Refunds. *)

Total(refunds) == SumFunction([r \in refunds |-> r.amount])

(* Those whose stake is in the market. *)
Staked(m) == {u \in Users : pred[m][u] # None}

(* Where the user stands in the list that the payout and refund loops walk. *)
Position(m, u) == CHOOSE i \in DOMAIN predictors[m] : predictors[m][i] = u

(* What a loop over PredictorList(m) refunds: the persistent predictions. *)
RefundsOf(m) ==
  {[market |-> m, user |-> u, amount |-> pred[m][u].stake] :
     u \in Range(predictors[m]) \cap Staked(m)}

(* The loops take the children in the order they were created.              *)
Earlier(q, r) ==
  \/ q.market < r.market
  \/ q.market = r.market /\ Position(q.market, q.user) < Position(r.market, r.user)

(* Fault: the balance has to exceed the refund. *)
Refundable_Strict(amount, balance) == amount < balance

Refundable(amount, balance) == amount <= balance

(***************************************************************************)
(* deactivate_conditional_market refunds until escrow::refund reports      *)
(* EscrowEmpty and then returns the error; its callers discard it, so what *)
(* was refunded stays refunded and the market stays cancelled.  A refund   *)
(* is made when those before it of its market were and the balance left by *)
(* all before it allows: one set of refunds satisfies this.                *)
(***************************************************************************)
BestEffort(done, refunds, balance) ==
  \A r \in refunds :
    r \in done <=>
      /\ \A q \in refunds : q.market = r.market /\ Earlier(q, r) => q \in done
      /\ Refundable(r.amount, balance - Total({q \in done : Earlier(q, r)}))

PayRefunds(refunds) ==
  LET to(u) == {r \in refunds : r.user = u}
      of(m) == {r \in refunds : r.market = m}
  IN  /\ bank' = [a \in Accounts |->
                    IF a = Contract THEN bank[a] - Total(refunds)
                    ELSE bank[a] + Total(to(a))]
      /\ settlements' = [m \in MarketIds |-> [u \in Users |->
           settlements[m][u] + IF \E r \in of(m) : r.user = u THEN 1 ELSE 0]]
      /\ paidOut' = [m \in MarketIds |-> paidOut[m] + Total(of(m))]

-----------------------------------------------------------------------------
(* Cancelling and resolving. *)

Children(m) == {c \in Created : conditional[c] # None /\ conditional[c].parent = m}

(* Fault: decided children are cancelled and refunded as well. *)
LiveOnes_All(S) == {c \in S : ~market[c].cancelled}

LiveOnes(S) == {c \in S : Live(c)}

WithCancelled(S) ==
  [c \in MarketIds |-> IF c \in S THEN [market[c] EXCEPT !.cancelled = TRUE]
                       ELSE market[c]]

(* Fault: the flag of the other children is left as it is. *)
WithActivated_NoReset(children, chosen) ==
  [c \in MarketIds |->
     IF c \in children \cap chosen THEN [conditional[c] EXCEPT !.activated = TRUE]
     ELSE conditional[c]]

(* Of the children, those in chosen become activated, the others not. *)
WithActivated(children, chosen) ==
  [c \in MarketIds |->
     IF c \in children THEN [conditional[c] EXCEPT !.activated = c \in chosen]
     ELSE conditional[c]]

(***************************************************************************)
(* The admin cancels.  The market's own refunds are all or nothing; those  *)
(* of its children come after, out of what is left, best effort.  The      *)
(* children of the children are not visited.                               *)
(***************************************************************************)
CancelMarket(m) ==
  /\ m \in Created
  /\ Live(m)
  /\ LET own  == RefundsOf(m)
         kids == LiveOnes(Children(m))
         late == UNION {RefundsOf(c) : c \in kids}
     IN  /\ Total(own) <= bank[Contract]
         /\ market' = WithCancelled({m} \cup kids)
         /\ conditional' = WithActivated(Children(m), {})
         /\ \E rest \in SUBSET late :
              /\ BestEffort(rest, late, bank[Contract] - Total(own))
              /\ PayRefunds(own \cup rest)
  /\ UNCHANGED <<platformVars, marketCount, allowlist, stakeVars, disputeVars,
                 treasury, statVars>>

(* on_market_resolved: one more resolution in the rolling average. *)
CreditResolution(c, participants) ==
  creatorStats' = [creatorStats EXCEPT
    ![c].average = (@ * creatorStats[c].resolved + participants)
                      \div (creatorStats[c].resolved + 1),
    ![c].resolved = @ + 1]

(* Fault: a result may be replaced. *)
Resolvable_Again(m, o) ==
  now >= market[m].resolutionTime /\ o \in market[m].outcomes

(* The market is not asked whether it was cancelled. *)
Resolvable(m, o) ==
  /\ now >= market[m].resolutionTime
  /\ ~market[m].resolved
  /\ o \in market[m].outcomes

(***************************************************************************)
(* The oracle resolves: children that waited for another outcome are       *)
(* closed and refunded, the others activated.                              *)
(***************************************************************************)
ResolveMarket(m, o) ==
  /\ m \in Created
  /\ Resolvable(m, o)
  /\ LET chosen   == {c \in Children(m) : conditional[c].required = o}
         kids     == LiveOnes(Children(m) \ chosen)
         resolved == [market[m] EXCEPT !.resolved = TRUE, !.outcome = o,
                                       !.resolvedAt = now]
     IN  /\ market' = [WithCancelled(kids) EXCEPT ![m] = resolved]
         /\ conditional' = WithActivated(Children(m), chosen)
         /\ LET late == UNION {RefundsOf(c) : c \in kids}
            IN  \E rest \in SUBSET late :
                  BestEffort(rest, late, bank[Contract]) /\ PayRefunds(rest)
  /\ CreditResolution(market[m].creator, market[m].participants)
  /\ UNCHANGED <<platformVars, marketCount, allowlist, stakeVars, disputeVars,
                 treasury, profile>>

-----------------------------------------------------------------------------
(* Payouts. *)

(* Fault: winners share the whole pool on top of their stakes. *)
Gross_WholePool(stake, winning, pool) == stake + (stake * pool) \div winning

Gross(stake, winning, pool) == stake + (stake * (pool - winning)) \div winning

Cut(amount, bps) == (amount * bps) \div BPS

Positive(n) == IF n > 0 THEN n ELSE 0

StakesOf(records, S) == SumFunction([u \in S |-> records[u].stake])

(* Those whose record in the given storage backs the outcome resolved to. *)
Winners(m, records) ==
  {u \in Users : records[m][u] # None /\ records[m][u].outcome = market[m].outcome}

(* calculate_points, short of its clamp to 32 bits. *)
Points(stake, correct, total) ==
  IF total = 0 THEN 0
  ELSE ((100 + stake \div StakePoint)
         * (IF correct < total THEN correct ELSE total) * 2) \div total

(* Fault: the record stays claimable. *)
MarkClaimed_Forgets(m, S) == UNCHANGED <<pred, claimed>>

(* The records of the winners S move to temporary storage, marked claimed. *)
MarkClaimed(m, S) ==
  /\ pred' = [pred EXCEPT ![m] =
       [u \in Users |-> IF u \in S THEN None ELSE @[u]]]
  /\ claimed' = [claimed EXCEPT ![m] =
       [u \in Users |-> IF u \in S THEN pred[m][u] ELSE @[u]]]

(***************************************************************************)
(* Pays the winners S of market m when the stakes on the outcome add up to *)
(* winning.  The protocol fee stays in the contract and is booked to the   *)
(* treasury; a net payout that is not positive is not transferred.         *)
(***************************************************************************)
PayOut(m, S, winning) ==
  LET stake(u)   == pred[m][u].stake
      gross(u)   == Gross(stake(u), winning, market[m].pool)
      fee(u)     == Cut(gross(u), cfg.feeBps)
      royalty(u) == Cut(gross(u), market[m].creatorFee)
      net(u)     == gross(u) - fee(u) - royalty(u)
      royalties  == SumFunction([u \in S |-> royalty(u)])
      outflow    == royalties + SumFunction([u \in S |-> Positive(net(u))])
  IN  /\ outflow <= bank[Contract]
      /\ bank' = [a \in Accounts |->
            IF a = Contract THEN bank[a] - outflow
            ELSE bank[a] + (IF a \in S THEN Positive(net(a)) ELSE 0)
                         + (IF a = market[m].creator THEN royalties ELSE 0)]
      /\ treasury' = treasury + SumFunction([u \in S |-> fee(u)])
      /\ profile' = [u \in Users |->
            IF u \notin S THEN profile[u]
            ELSE LET p == profile[u]
                 IN  [p EXCEPT
                        !.winnings = @ + net(u),
                        !.correct  = @ + 1,
                        !.points   = @ + Points(stake(u), p.correct + 1,
                                                p.predictions)]]
      /\ MarkClaimed(m, S)
      /\ settlements' = [settlements EXCEPT ![m] =
            [u \in Users |-> @[u] + IF u \in S THEN 1 ELSE 0]]
      /\ paidOut' = [paidOut EXCEPT ![m] = @ + SumFunction([u \in S |-> gross(u)])]
      /\ TrackUsers(S)
      /\ UNCHANGED <<now, cfg, marketVars, allowlist, predictors, disputeVars,
                     creatorStats>>

(* A winner claims.  The winning stakes include those already claimed, as   *)
(* long as their temporary records last.                                    *)
ClaimPayout(u, m) ==
  /\ NotPaused
  /\ m \in Created
  /\ market[m].resolved
  /\ u \in Winners(m, pred)
  /\ PayOut(m, {u}, StakesOf(pred[m], Winners(m, pred))
                      + StakesOf(claimed[m], Winners(m, claimed)))

(* What assert_escrow_solvent adds up: the stakes of the open markets. *)
OpenStakes ==
  SumFunction([m \in {c \in Created : Live(c)} |-> StakesOf(pred[m], Staked(m))])

(***************************************************************************)
(* The admin or the oracle pays the first MaxBatch winners of the list.    *)
(* The winning stakes are those of the winners still to be paid.           *)
(***************************************************************************)
BatchDistribute(m) ==
  LET unpaid     == Winners(m, pred)
      earlier(u) == {v \in unpaid : Position(m, v) < Position(m, u)}
      batch      == {u \in unpaid : Cardinality(earlier(u)) < MaxBatch}
  IN  /\ NotPaused
      /\ m \in Created
      /\ market[m].resolved
      /\ unpaid # {}
      /\ PayOut(m, batch, StakesOf(pred[m], unpaid))
      /\ OpenStakes <= bank'[Contract]

(* The temporary record of a claimed prediction reaches the end of its TTL. *)
ExpireClaimed(m, u) ==
  /\ claimed[m][u] # None
  /\ claimed' = [claimed EXCEPT ![m][u] = None]
  /\ UNCHANGED <<platformVars, marketVars, allowlist, predictors, pred,
                 disputeVars, moneyVars, statVars, historyVars>>

-----------------------------------------------------------------------------
(* Disputes and the treasury. *)

(* Fault: the window is not looked at. *)
InWindow_Always(m) == TRUE

(* The window closes after its last second. *)
InWindow(m) == now <= market[m].resolvedAt + market[m].disputeWindow

RaiseDispute(u, m, bond) ==
  /\ NotPaused
  /\ m \in Created
  /\ market[m].resolved
  /\ dispute[m] = None
  /\ InWindow(m)
  /\ creatorStats[market[m].creator].disputes < MaxDisputes
  /\ Deposit(u, bond)
  /\ dispute' = [dispute EXCEPT ![m] =
                   [disputer |-> u, bond |-> bond, filedAt |-> now]]
  /\ activeDisputes' = activeDisputes \cup {m}
  /\ disputeCount' = disputeCount + 1
  /\ creatorStats' = [creatorStats EXCEPT ![market[m].creator].disputes = @ + 1]
  /\ UNCHANGED <<platformVars, marketVars, allowlist, stakeVars, treasury,
                 profile, historyVars>>

(* Fault: the bond is returned and booked to the treasury. *)
UpholdDispute_BooksBond(m) ==
  /\ dispute[m].bond <= bank[Contract]
  /\ bank' = [bank EXCEPT ![Contract] = @ - dispute[m].bond,
                          ![dispute[m].disputer] = @ + dispute[m].bond]
  /\ market' = [market EXCEPT ![m].resolved = FALSE, ![m].outcome = None,
                              ![m].resolvedAt = 0]
  /\ treasury' = treasury + dispute[m].bond

(* The bond goes back and the market waits for the oracle again. *)
UpholdDispute(m) ==
  /\ dispute[m].bond <= bank[Contract]
  /\ bank' = [bank EXCEPT ![Contract] = @ - dispute[m].bond,
                          ![dispute[m].disputer] = @ + dispute[m].bond]
  /\ market' = [market EXCEPT ![m].resolved = FALSE, ![m].outcome = None,
                              ![m].resolvedAt = 0]
  /\ UNCHANGED treasury

(* The bond is forfeited: it stays in the contract, booked to the treasury. *)
RejectDispute(m) ==
  /\ treasury' = treasury + dispute[m].bond
  /\ UNCHANGED <<bank, market>>

(* Fault: a rejected dispute stays on the list of active ones. *)
ResolveDispute_StaysListed(m, uphold) ==
  /\ NotPaused
  /\ dispute[m] # None
  /\ IF uphold THEN UpholdDispute(m) ELSE RejectDispute(m)
  /\ dispute' = [dispute EXCEPT ![m] = None]
  /\ activeDisputes' = IF uphold THEN activeDisputes \ {m} ELSE activeDisputes
  /\ disputeCount' = Positive(disputeCount - 1)
  /\ UNCHANGED <<platformVars, marketCount, conditional, allowlist, stakeVars,
                 statVars, historyVars>>

ResolveDispute(m, uphold) ==
  /\ NotPaused
  /\ dispute[m] # None
  /\ IF uphold THEN UpholdDispute(m) ELSE RejectDispute(m)
  /\ dispute' = [dispute EXCEPT ![m] = None]
  /\ activeDisputes' = activeDisputes \ {m}
  /\ disputeCount' = Positive(disputeCount - 1)
  /\ UNCHANGED <<platformVars, marketCount, conditional, allowlist, stakeVars,
                 statVars, historyVars>>

(* Fault: the withdrawal is bounded by the balance only. *)
WithdrawTreasury_Unbounded(to, amount) ==
  /\ amount > 0
  /\ amount <= bank[Contract]
  /\ treasury' = treasury - amount
  /\ bank' = [bank EXCEPT ![Contract] = @ - amount, ![to] = @ + amount]
  /\ UNCHANGED <<platformVars, marketVars, allowlist, stakeVars, disputeVars,
                 statVars, historyVars>>

(* The admin moves fees booked to the treasury to a wallet. *)
WithdrawTreasury(to, amount) ==
  /\ amount > 0
  /\ amount <= treasury
  /\ amount <= bank[Contract]
  /\ treasury' = treasury - amount
  /\ bank' = [bank EXCEPT ![Contract] = @ - amount, ![to] = @ + amount]
  /\ UNCHANGED <<platformVars, marketVars, allowlist, stakeVars, disputeVars,
                 statVars, historyVars>>

ResetCreatorStats(c) ==
  /\ creatorStats' = [creatorStats EXCEPT ![c] =
       [created |-> 0, resolved |-> 0, average |-> 0, disputes |-> 0]]
  /\ UNCHANGED <<platformVars, marketVars, allowlist, stakeVars, disputeVars,
                 moneyVars, profile, historyVars>>

-----------------------------------------------------------------------------
(* The contract. *)

(* The clock and the admin's configuration calls. *)
PlatformStep ==
  /\ Tick \/ ConfigNext
  /\ UNCHANGED <<marketVars, allowlist, stakeVars, disputeVars, moneyVars,
                 statVars, historyVars>>

Creation ==
  \/ \E c \in Creators, p \in RootParams : CreateMarket(c, p)
  \/ \E c \in Creators, p \in ChildParams, parent \in Created, o \in Outcomes :
       CreateConditionalMarket(c, parent, o, p)

Editing ==
  \/ \E c \in Creators, m \in Created :
       \/ \E fee \in CreatorFees : UpdateCreatorFee(c, m, fee)
       \/ \E end \in NewEndTimes : ExtendEndTime(c, m, end)
  \/ \E c \in Closers, m \in Created : CloseMarket(c, m)

Staking ==
  \E u \in Users, m \in Created, o \in Outcomes, stake \in Stakes :
    SubmitPrediction(u, m, o, stake)

Claiming == \E u \in Users, m \in Created : ClaimPayout(u, m)

Disputing ==
  \/ \E u \in Users, m \in Created, bond \in Bonds : RaiseDispute(u, m, bond)
  \/ \E m \in Disputed, uphold \in BOOLEAN : ResolveDispute(m, uphold)

Housekeeping ==
  \/ \E to \in Users, amount \in Withdrawals : WithdrawTreasury(to, amount)
  \/ \E c \in Resettable : ResetCreatorStats(c)

Next ==
  \/ PlatformStep
  \/ Creation
  \/ Editing
  \/ Staking
  \/ \E m \in Created : CancelMarket(m)
  \/ \E m \in Created, o \in Outcomes : ResolveMarket(m, o)
  \/ Claiming
  \/ \E m \in Created : BatchDistribute(m)
  \/ \E m \in Created, u \in Users : ExpireClaimed(m, u)
  \/ Disputing
  \/ Housekeeping

Spec == Init /\ [][Next]_vars
-----------------------------------------------------------------------------
(* What holds of the contract whatever the admin and the oracle do. *)

(* The dispute counter and the list of active disputes, which three         *)
(* handlers maintain separately, always agree with the dispute records.     *)
DisputeIndexConsistent ==
  /\ activeDisputes = Disputed
  /\ disputeCount = Cardinality(Disputed)

(* A dispute is only ever open on a resolved market, and was filed inside   *)
(* the window of the resolution that is in force: no re-resolution slips    *)
(* under an open dispute.                                                   *)
DisputedIsResolved ==
  \A m \in Disputed :
    /\ m \in Created
    /\ market[m].resolved
    /\ dispute[m].filedAt \in
         market[m].resolvedAt .. market[m].resolvedAt + market[m].disputeWindow

(* A prediction lives in one of the two storages: whatever reopens a        *)
(* market, nobody stakes again after a claim moved the record, so the two   *)
(* lookups of claim_payout never disagree.                                  *)
OneRecord ==
  \A m \in MarketIds, u \in Users : pred[m][u] = None \/ claimed[m][u] = None

(* The market's running totals are those of the records they summarise, as  *)
(* long as no claimed record has expired; the list the payout loops walk    *)
(* names everyone once.                                                     *)
PoolMatchesPredictions ==
  \A m \in Created :
    LET listed  == Range(predictors[m])
        held(u) == IF pred[m][u] # None THEN pred[m][u] ELSE claimed[m][u]
    IN  /\ market[m].participants = Len(predictors[m])
        /\ Cardinality(listed) = Len(predictors[m])
        /\ \A u \in Users : held(u) # None => u \in listed
        /\ (\A u \in listed : held(u) # None) =>
             market[m].pool = SumFunction([u \in listed |-> held(u).stake])

(* Per-user and per-market statistics describe the same predictions, and a  *)
(* user is never credited with more correct predictions than were made,     *)
(* however often a market is resolved anew.                                 *)
StatisticsAgree ==
  /\ SumFunction([u \in Users |-> profile[u].staked])
       = SumFunction([m \in Created |-> market[m].pool])
  /\ SumFunction([u \in Users |-> profile[u].predictions])
       = SumFunction([m \in Created |-> market[m].participants])
  /\ \A u \in Users : profile[u].correct <= profile[u].predictions

OpenForStakes(m) == Live(m) /\ now < market[m].endTime

(* While a result stands, exactly the children that waited for it carry the *)
(* activation flag, and a child whose condition failed takes no stakes,     *)
(* also when an upheld dispute let the oracle choose again.  (It may be     *)
(* live: a child resolved before its parent and reopened by a dispute.)     *)
ChildrenFollowResolution ==
  \A c \in Created :
    conditional[c] # None /\ market[conditional[c].parent].resolved =>
      LET met == conditional[c].required = market[conditional[c].parent].outcome
      IN  /\ conditional[c].activated = met
          /\ ~met => ~OpenForStakes(c)

(* A result is withdrawn only with an open dispute, and from then on only   *)
(* the oracle can bring a result back: no step replaces one directly.       *)
ResultStandsUnlessDisputed ==
  [][\A m \in Created : market[m].resolved /\ market'[m].outcome # market[m].outcome
        => m \in Disputed /\ ~market'[m].resolved]_vars

(* What the contract still has to pay out for a market.                     *)
Owed(m) ==
  LET winning == StakesOf(pred[m], Winners(m, pred))
                   + StakesOf(claimed[m], Winners(m, claimed))
  IN  IF market[m].resolved
      THEN SumFunction([u \in Winners(m, pred) |->
             Gross(pred[m][u].stake, winning, market[m].pool)])
      ELSE IF market[m].cancelled THEN 0 ELSE StakesOf(pred[m], Staked(m))

(* README.md:148, "the sum of all pending payouts is always <= total        *)
(* contract balance": every winner who has not claimed can still be paid.   *)
PayoutsCovered ==
  SumFunction([m \in {c \in Created : market[c].resolved} |-> Owed(m)]) <= bank[Contract]

(* The balance covers what every market owes, and with it what else is kept *)
(* in the same account: the bonds and the fees booked to the treasury.      *)
EscrowCovers ==
  treasury + SumFunction([m \in Disputed |-> dispute[m].bond])
    + SumFunction([m \in Created |-> Owed(m)]) <= bank[Contract]
=============================================================================
