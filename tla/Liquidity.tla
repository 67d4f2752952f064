----------------------------- MODULE Liquidity -----------------------------
(***************************************************************************)
(* Liquidity pools of the market-maker: deposits and withdrawals against   *)
(* LP tokens, swaps between the outcomes of a market by a constant product *)
(* formula, and the trading fees providers collect.  A swap moves reserves *)
(* only: nothing is paid to the trader.  The volume and history of swaps   *)
(* are records nothing reads back.                                         *)
(***************************************************************************)
EXTENDS Vault

CONSTANTS
  Markets,    \* markets that exist
  Outcomes,   \* their outcomes
  Deposits,   \* bound: amounts deposited
  Burns,      \* bound: LP tokens withdrawn at a time
  Swaps,      \* bound: amounts swapped
  MinOuts,    \* bound: least amounts asked for
  MaxCalls,   \* bound: calls that move money into or out of pools
  None        \* nothing stored

MIN_LIQUIDITY == 1000

DEFAULT_FEE_BPS == 30

ASSUME LiquidityAssumption ==
  /\ IsFiniteSet(Markets)
  /\ IsFiniteSet(Outcomes) /\ Cardinality(Outcomes) >= 2
  /\ {MaxCalls} \cup Deposits \cup Burns \cup Swaps \cup MinOuts \subseteq Nat
  /\ None \notin [supply : Nat, total : Nat, reserve : [Outcomes -> Nat]]
  /\ None \notin [tokens : Nat, fees : Nat]

VARIABLES
  open,       \* markets neither resolved nor cancelled
  pool,       \* DataKey::LiquidityPool, by market
  position,   \* DataKey::LPPosition, by market and provider
  providers,  \* DataKey::LPProviderList, by market
  calls       \* calls so far

poolVars == <<open, pool, position, providers, calls>>
liquidityVars == <<platformVars, escrow, poolVars>>

Pool == [supply : Nat, total : Nat, reserve : [Outcomes -> Nat]]

Position == [tokens : Nat, fees : Nat]

LiquidityTypeOK ==
  /\ PlatformTypeOK
  /\ escrow \in Nat
  /\ open \subseteq Markets
  /\ pool \in [Markets -> Pool \cup {None}]
  /\ position \in [Markets -> [Users -> Position \cup {None}]]
  /\ providers \in [Markets -> SUBSET Users]
  /\ calls \in Nat

LiquidityInit ==
  /\ PlatformInit
  /\ escrow = 0
  /\ open = Markets
  /\ pool = [m \in Markets |-> None]
  /\ position = [m \in Markets |-> [u \in Users |-> None]]
  /\ providers = [m \in Markets |-> {}]
  /\ calls = 0

Call ==
  /\ calls < MaxCalls
  /\ calls' = calls + 1

-----------------------------------------------------------------------------
(* calculate_lp_tokens and calculate_liquidity_value. *)

LpTokens(amount, p) ==
  IF p.supply = 0 \/ p.total = 0 THEN amount ELSE Floor(amount * p.supply, p.total)

LiquidityValue(tokens, p) == Floor(tokens * p.total, p.supply)

NewPool(amount) ==
  [supply |-> amount, total |-> amount,
   reserve |-> [o \in Outcomes |-> Floor(amount, Cardinality(Outcomes))]]

(* Fault: the deposit is minted for and not added up. *)
WithDeposit_NoTotal(p, amount) == [p EXCEPT !.supply = @ + LpTokens(amount, p)]

(* Reserves stay as the first deposit left them. *)
WithDeposit(p, amount) ==
  [p EXCEPT !.supply = @ + LpTokens(amount, p), !.total = @ + amount]

(* A position is stored anew, whatever the provider had. *)
AddLiquidity(u, m, amount) ==
  /\ NotPaused
  /\ amount >= MIN_LIQUIDITY
  /\ m \in open
  /\ Lock(amount)
  /\ LET tokens == IF pool[m] = None THEN amount ELSE LpTokens(amount, pool[m])
     IN  position' = [position EXCEPT ![m][u] = [tokens |-> tokens, fees |-> 0]]
  /\ pool' = [pool EXCEPT ![m] = IF @ = None THEN NewPool(amount)
                                            ELSE WithDeposit(@, amount)]
  /\ providers' = [providers EXCEPT ![m] = @ \cup {u}]
  /\ Call
  /\ UNCHANGED <<platformVars, open>>

Burnable(u, m, tokens) ==
  /\ tokens > 0
  /\ tokens <= position[m][u].tokens

(* Fault: burnt tokens stay on file. *)
Remaining_Kept(p, tokens) == p

(* With the last token the position goes, and the fees it had earned.       *)
Remaining(p, tokens) ==
  IF p.tokens = tokens THEN None ELSE [p EXCEPT !.tokens = @ - tokens]

RemoveLiquidity(u, m, tokens) ==
  /\ NotPaused
  /\ pool[m] # None
  /\ position[m][u] # None
  /\ Burnable(u, m, tokens)
  /\ pool[m].supply > 0
  /\ LET value == LiquidityValue(tokens, pool[m])
     IN  /\ Pay(value)
         /\ pool' = [pool EXCEPT ![m].supply = @ - tokens, ![m].total = @ - value]
  /\ position' = [position EXCEPT ![m][u] = Remaining(@, tokens)]
  /\ Call
  /\ UNCHANGED <<platformVars, open, providers>>

(* Fault: rounds up. *)
SwapOutput_RoundsUp(amount, from, to) ==
  Floor(amount * to + from + amount - 1, from + amount)

(* calculate_swap_output: the formula, then the fee, each rounded down. *)
SwapOutput(amount, from, to) ==
  Floor(Floor(amount * to, from + amount) * (BPS - DEFAULT_FEE_BPS), BPS)

(* What each provider on the list earns, those who have left included. *)
FeeShare(amount, m) ==
  Floor(Floor(amount * DEFAULT_FEE_BPS, BPS), Cardinality(providers[m]))

Swapped(reserve, from, to, amount) ==
  [reserve EXCEPT ![from] = @ + amount,
                  ![to] = @ - SwapOutput(amount, reserve[from], reserve[to])]

Earning(p, fee) == IF p = None THEN None ELSE [p EXCEPT !.fees = @ + fee]

SwapOutcome(m, from, to, amount, minOut) ==
  /\ NotPaused
  /\ from # to
  /\ m \in open
  /\ pool[m] # None
  /\ LET reserve == pool[m].reserve
     IN  /\ reserve[from] > 0 /\ reserve[to] > 0
         /\ SwapOutput(amount, reserve[from], reserve[to]) >= minOut
         /\ pool' = [pool EXCEPT ![m].reserve = Swapped(reserve, from, to, amount)]
  /\ Lock(amount)
  /\ position' = [position EXCEPT ![m] = [u \in Users |->
                    IF u \in providers[m]
                    THEN Earning(position[m][u], FeeShare(amount, m))
                    ELSE position[m][u]]]
  /\ Call
  /\ UNCHANGED <<platformVars, open, providers>>

(* No look at the pause. *)
CollectLpFees(u, m) ==
  /\ position[m][u] # None
  /\ Pay(position[m][u].fees)
  /\ position' = [position EXCEPT ![m][u].fees = 0]
  /\ UNCHANGED <<platformVars, open, pool, providers, calls>>

(* resolve_market and cancel_market, and a dispute that is upheld. *)
OpenOrClose(m) ==
  /\ open' = IF m \in open THEN open \ {m} ELSE open \cup {m}
  /\ Call
  /\ UNCHANGED <<platformVars, escrow, pool, position, providers>>

LiquidityStep ==
  \E m \in Markets :
     \/ OpenOrClose(m)
     \/ \E u \in Users :
          \/ CollectLpFees(u, m)
          \/ \E amount \in Deposits : AddLiquidity(u, m, amount)
          \/ \E tokens \in Burns : RemoveLiquidity(u, m, tokens)
     \/ \E from, to \in Outcomes, amount \in Swaps, minOut \in MinOuts :
          SwapOutcome(m, from, to, amount, minOut)

LiquidityNext ==
  \/ LiquidityStep
  \/ (Tick \/ ConfigNext) /\ UNCHANGED <<escrow, poolVars>>

LiquiditySpec == LiquidityInit /\ [][LiquidityNext]_liquidityVars

-----------------------------------------------------------------------------
Pools == {m \in Markets : pool[m] # None}

(* Every LP token is worth one unit of what was deposited, whoever joins or *)
(* leaves, in whatever order and with whatever rounding: no deposit dilutes *)
(* an earlier one, and no withdrawal takes from those who stay.             *)
NoDilution == \A m \in Pools : pool[m].supply = pool[m].total

Holders(m) == {u \in Users : position[m][u] # None}

Tokens(m) ==
  SumFunction([u \in Holders(m) |-> position[m][u].tokens])

(* The positions on file never add up to more tokens than were minted, also *)
(* when a provider's second deposit replaces the position of the first:     *)
(* every provider can leave, the last one too.                              *)
TokensMinted == \A m \in Pools : Tokens(m) <= pool[m].supply

(* A swap never lowers the product of the two reserves: rounding and the    *)
(* fee are at the trader's cost, and no sequence of swaps drains a pool.    *)
ProductNeverFalls ==
  [][\A m \in Markets, o, p \in Outcomes :
       /\ pool[m] # None
       /\ pool'[m].reserve[o] # pool[m].reserve[o]
       /\ pool'[m].reserve[p] # pool[m].reserve[p]
       /\ o # p
       => pool'[m].reserve[o] * pool'[m].reserve[p]
            >= pool[m].reserve[o] * pool[m].reserve[p]]_pool

(* What pools owe: deposits and fees. *)
LiquidityOwed ==
  SumFunction([m \in Markets |->
    (IF pool[m] = None THEN 0 ELSE pool[m].total)
      + SumFunction([u \in Holders(m) |-> position[m][u].fees])])
=============================================================================
