------------------------ MODULE DisciplinedMarket_proofs ------------------------
(***************************************************************************)
(* Proofs about the market-maker under the rules of DisciplinedMarket: its *)
(* one balance is the sum of the treasury, the bonds and one purse per     *)
(* market, so the markets do not pay with each other's money.              *)
(*                                                                         *)
(* The inductive invariant is PurseInv.  It relates, for every market, the *)
(* settlements and the charges of its history to its records and its list, *)
(* and the balance to the sum over all markets; the argument of each step  *)
(* is what the step takes from the balance and from which purse.           *)
(***************************************************************************)
EXTENDS DisciplinedMarket, MarketMaker_proofs

-----------------------------------------------------------------------------
(* The invariant. *)

(* The winners of a row, and what the contract still owes them.             *)
Backing(records, o) == {u \in Users : records[u] # None /\ records[u].outcome = o}

(* The winning stakes claim_payout divides by: those of unpaid winners and  *)
(* those it finds claimed.                                                  *)
WinningStake(p, c, o) == StakesOf(p, Backing(p, o)) + StakesOf(c, Backing(c, o))

(* What the winners still to be paid are owed. *)
Due(p, c, o, pool) ==
  SumFunction([u \in Backing(p, o) |-> Gross(p[u].stake, WinningStake(p, c, o), pool)])

(* The entry r of a market, its list, its two rows, its settlements and     *)
(* what was charged to it belong together.                                  *)
SoundRow(r, list, p, c, s, paid) ==
  IF r = None THEN paid = 0 /\ \A u \in Users : s[u] = 0
  ELSE IF r.cancelled
  THEN /\ ~r.resolved
       /\ paid = r.pool
       /\ \A u \in Users : s[u] = IF u \in Range(list) THEN 1 ELSE 0
  ELSE /\ \A u \in Users : s[u] = IF u \in Range(list) /\ p[u] = None THEN 1 ELSE 0
       /\ (\A u \in Users : s[u] = 0) => paid = 0
       /\ IF r.resolved THEN paid + Due(p, c, r.outcome, r.pool) <= r.pool
          ELSE \A u \in Users : s[u] = 0

(* A market nobody created has settled nobody; a cancelled one has settled  *)
(* every predictor, once, with its whole pool; of the others, those whose   *)
(* record was claimed are settled, nobody before a result, and what was     *)
(* charged and what is owed fit into the pool.                              *)
Sound(m) ==
  SoundRow(market[m], predictors[m], pred[m], claimed[m], settlements[m], paidOut[m])

(* The three kinds of money in the balance of the contract. *)
BondOf == [m \in MarketIds |-> IF dispute[m] = None THEN 0 ELSE dispute[m].bond]

(* What is left of the stakes on a market. *)
PurseOf == [m \in MarketIds |-> PoolOf[m] - paidOut[m]]

(* The balance is made of the treasury, the bonds and the purses: the code  *)
(* keeps no account of the last.                                            *)
Backed ==
  bank[Contract] = treasury + SumFunctionOnSet(BondOf, MarketIds)
                     + SumFunctionOnSet(PurseOf, MarketIds)

(* The invariant behind all the theorems below. *)
PurseInv == Backed /\ \A m \in MarketIds : Sound(m)

(* What an unpaid winner stands for is a number. *)
LEMMA DueTerms ==
  ASSUME NEW p \in Row, NEW c \in Row, NEW o, NEW pool \in Nat, Backing(p, o) # {},
         \A u \in Users : p[u] # None => p[u].stake > 0
  PROVE  /\ WinningStake(p, c, o) \in Nat \ {0}
         /\ \A u \in Backing(p, o) :
              Gross(p[u].stake, WinningStake(p, c, o), pool) \in Nat
<1>1. /\ Backing(p, o) \in SUBSET {u \in Users : p[u] # None}
      /\ Backing(c, o) \in SUBSET {u \in Users : c[u] # None}
  BY DEF Backing
<1>2. /\ StakesOf(p, Backing(p, o)) \in Nat /\ StakesOf(c, Backing(c, o)) \in Nat
      /\ \A u \in Backing(p, o) :
           p[u].stake \in Nat /\ p[u].stake <= StakesOf(p, Backing(p, o))
  BY <1>1, StakesAdded
<1>3. WinningStake(p, c, o) \in Nat \ {0}
  BY <1>1, <1>2 DEF WinningStake
<1> QED BY <1>2, <1>3, GrossBounds

(* The shares of all winners together do not exceed the pool. *)
LEMMA SharesWithinPool ==
  ASSUME NEW S, IsFiniteSet(S), NEW w \in Nat \ {0}, NEW pool \in Nat, NEW stake, NEW gross,
         \A u \in S : /\ stake[u] \in Nat /\ gross[u] \in Nat
                      /\ w * gross[u] <= stake[u] * pool,
         SumFunctionOnSet(stake, S) <= w
  PROVE  SumFunctionOnSet(gross, S) \in Nat /\ SumFunctionOnSet(gross, S) <= pool
<1> PICK left, right : /\ left = [u \in S |-> w * gross[u]]
                       /\ right = [u \in S |-> pool * stake[u]]
  OBVIOUS
<1>1. \A u \in S : /\ left[u] \in Int /\ left[u] = w * gross[u]
                   /\ right[u] \in Int /\ right[u] = pool * stake[u]
                   /\ left[u] <= right[u] /\ gross[u] \in Int /\ stake[u] \in Int
  <2> TAKE u \in S
  <2>1. left[u] = w * gross[u] /\ right[u] = pool * stake[u]
    OBVIOUS
  <2>2. w * gross[u] \in Int /\ pool * stake[u] \in Int /\ stake[u] * pool = pool * stake[u]
    OBVIOUS
  <2> QED BY <2>1, <2>2
<1>2. SumFunctionOnSet(left, S) <= SumFunctionOnSet(right, S)
  BY <1>1, SumMonotone
<1> PICK g, k : g = SumFunctionOnSet(gross, S) /\ k = SumFunctionOnSet(stake, S)
  OBVIOUS
<1>3. g \in Nat /\ k \in Nat
  BY SumNat
<1>4. SumFunctionOnSet(left, S) = w * g
  BY <1>1, SumScale
<1>5. SumFunctionOnSet(right, S) = pool * k
  BY <1>1, SumScale
<1>6. w * g <= pool * k /\ k <= w
  BY <1>2, <1>4, <1>5
<1>7. pool * k <= pool * w
  BY <1>3, <1>6
<1>8. w * g <= w * pool
  <2>1. pool * w = w * pool /\ w * g \in Int /\ pool * k \in Int /\ pool * w \in Int
    BY <1>3
  <2> QED BY <1>6, <1>7, <2>1
<1>9. g <= pool
  <2> SUFFICES ASSUME pool + 1 <= g PROVE FALSE
    BY <1>3
  <2>1. w * (pool + 1) <= w * g
    BY <1>3
  <2>2. w * (pool + 1) = w * pool + w
    OBVIOUS
  <2>3. w * pool \in Int /\ w * g \in Int
    BY <1>3
  <2> QED BY <1>8, <2>1, <2>2, <2>3
<1> QED BY <1>3, <1>9

(* When nobody was paid yet, the shares of the winners fit into the pool.   *)
LEMMA DueAtMostPool ==
  ASSUME NEW p \in Row, NEW c \in Row, NEW o, NEW pool \in Nat,
         \A u \in Users : p[u] # None => p[u].stake > 0, \A u \in Users : c[u] = None
  PROVE  Due(p, c, o, pool) \in Nat /\ Due(p, c, o, pool) <= pool
<1>0. /\ Backing(p, o) \in SUBSET {u \in Users : p[u] # None}
      /\ Backing(c, o) = {} /\ IsFiniteSet(Backing(p, o))
  <2>1. Backing(p, o) \in SUBSET {u \in Users : p[u] # None}
    BY DEF Backing
  <2> QED BY <2>1, StakesAdded DEF Backing
<1> PICK w, stake, gross :
       /\ w = WinningStake(p, c, o)
       /\ stake = [u \in Backing(p, o) |-> p[u].stake]
       /\ gross = [u \in Backing(p, o) |-> Gross(p[u].stake, w, pool)]
  OBVIOUS
<1>1. Due(p, c, o, pool) = SumFunctionOnSet(gross, Backing(p, o))
  BY DEF Due, SumFunction
<1>2. w = SumFunctionOnSet(stake, Backing(p, o)) /\ StakesOf(p, Backing(p, o)) \in Nat
  <2>1. StakesOf(c, {}) = 0
    BY SumEmpty DEF StakesOf, SumFunction
  <2>2. StakesOf(p, Backing(p, o)) = SumFunctionOnSet(stake, Backing(p, o))
    BY DEF StakesOf, SumFunction
  <2>3. StakesOf(p, Backing(p, o)) \in Nat
    BY <1>0, StakesAdded
  <2> QED BY <1>0, <2>1, <2>2, <2>3 DEF WinningStake
<1>3. CASE Backing(p, o) = {}
  <2>1. Due(p, c, o, pool) = 0
    BY <1>1, <1>3, SumEmpty
  <2> QED BY <2>1
<1>4. CASE Backing(p, o) # {}
  <2>1. w \in Nat \ {0}
    BY <1>4, DueTerms
  <2>2. \A u \in Backing(p, o) : p[u].stake \in Nat
    BY <1>0, StakesAdded
  <2>3. \A u \in Backing(p, o) : /\ stake[u] \in Nat /\ gross[u] \in Nat
                                 /\ w * gross[u] <= stake[u] * pool
    BY <2>1, <2>2, GrossBounds
  <2>4. SumFunctionOnSet(stake, Backing(p, o)) <= w
    BY <1>2, <2>1
  <2>5. SumFunctionOnSet(gross, Backing(p, o)) \in Nat
        /\ SumFunctionOnSet(gross, Backing(p, o)) <= pool
    BY ONLY <1>0, <2>1, <2>3, <2>4, pool \in Nat, SharesWithinPool
  <2> QED BY <1>1, <2>5
<1> QED BY <1>3, <1>4

-----------------------------------------------------------------------------
(* Sums over the winners, before and after a payout. *)

(* Two disjoint parts of a set add up. *)
LEMMA SumSplit ==
  ASSUME NEW f, NEW S, IsFiniteSet(S), NEW T \in SUBSET S, \A x \in S : f[x] \in Nat
  PROVE  /\ SumFunctionOnSet(f, S) = SumFunctionOnSet(f, S \ T) + SumFunctionOnSet(f, T)
         /\ SumFunctionOnSet(f, S \ T) \in Nat /\ SumFunctionOnSet(f, T) \in Nat
         /\ SumFunctionOnSet(f, S) \in Nat
<1>1. IsFiniteSet(T) /\ IsFiniteSet(S \ T) /\ (S \ T) \cap T = {} /\ (S \ T) \cup T = S
  BY FS_Subset
<1>2. \A x \in (S \ T) \cup T : f[x] \in Int
  OBVIOUS
<1>3. SumFunctionOnSet(f, (S \ T) \cup T) = SumFunctionOnSet(f, S \ T) + SumFunctionOnSet(f, T)
  BY ONLY <1>1, <1>2, SumUnion
<1>4. /\ SumFunctionOnSet(f, S \ T) \in Nat /\ SumFunctionOnSet(f, T) \in Nat
      /\ SumFunctionOnSet(f, S) \in Nat
  BY <1>1, SumNat
<1> QED BY <1>1, <1>3, <1>4

(* Who backs the outcome once S are paid. *)
LEMMA PaidBacking ==
  ASSUME NEW p \in Row, NEW c \in Row, NEW o, NEW S \in SUBSET Backing(p, o),
         \A u \in Users : p[u] = None \/ c[u] = None
  PROVE  /\ Backing(Unpaid(p, S), o) = Backing(p, o) \ S
         /\ Backing(Paid(p, c, S), o) = Backing(c, o) \cup S
         /\ Backing(c, o) \cap S = {}
BY DEF Backing, Unpaid, Paid

(* A payout moves stakes from one row to the other: the winning stakes stay *)
(* what they are as long as no record expires.                              *)
LEMMA WinningStakeKept ==
  ASSUME NEW p \in Row, NEW c \in Row, NEW o, NEW S \in SUBSET Backing(p, o),
         \A u \in Users : p[u] = None \/ c[u] = None
  PROVE  WinningStake(Unpaid(p, S), Paid(p, c, S), o) = WinningStake(p, c, o)
<1> PICK B, C : B = Backing(p, o) /\ C = Backing(c, o)
  OBVIOUS
<1>1. /\ B \in SUBSET {u \in Users : p[u] # None} /\ C \in SUBSET {u \in Users : c[u] # None}
      /\ S \in SUBSET B /\ C \cap S = {} /\ S \subseteq Users
  BY PaidBacking DEF Backing
<1>2. /\ IsFiniteSet(B) /\ IsFiniteSet(C) /\ IsFiniteSet(S)
      /\ \A u \in B : p[u].stake \in Nat
      /\ \A u \in C : c[u].stake \in Nat
  BY <1>1, StakesAdded, FS_Subset
<1> PICK f, g, h, k : /\ f = [u \in B |-> p[u].stake]
                      /\ g = [u \in C |-> c[u].stake]
                      /\ h = [u \in B \ S |-> Unpaid(p, S)[u].stake]
                      /\ k = [u \in C \cup S |-> Paid(p, c, S)[u].stake]
  OBVIOUS
<1>3. /\ WinningStake(p, c, o) = SumFunctionOnSet(f, B) + SumFunctionOnSet(g, C)
      /\ WinningStake(Unpaid(p, S), Paid(p, c, S), o)
           = SumFunctionOnSet(h, B \ S) + SumFunctionOnSet(k, C \cup S)
  BY PaidBacking DEF WinningStake, StakesOf, SumFunction
<1>4. /\ \A u \in B \ S : f[u] \in Int /\ h[u] = f[u]
      /\ \A u \in C : g[u] \in Int /\ k[u] = g[u]
      /\ \A u \in S : f[u] \in Int /\ k[u] = f[u]
      /\ \A u \in C \cup S : k[u] \in Int
  BY <1>1, <1>2 DEF Unpaid, Paid
<1>5. IsFiniteSet(B \ S)
  BY <1>2, FS_Subset
<1>6. SumFunctionOnSet(h, B \ S) = SumFunctionOnSet(f, B \ S)
  BY ONLY <1>4, <1>5, SumAgree
<1>7. SumFunctionOnSet(k, C) = SumFunctionOnSet(g, C)
  BY ONLY <1>4, <1>2, SumAgree
<1>8. SumFunctionOnSet(k, S) = SumFunctionOnSet(f, S)
  BY ONLY <1>4, <1>2, SumAgree
<1>9. SumFunctionOnSet(k, C \cup S) = SumFunctionOnSet(k, C) + SumFunctionOnSet(k, S)
  BY ONLY <1>1, <1>2, <1>4, SumUnion
<1>10. \A u \in B : f[u] \in Nat
  BY <1>2
<1>11. /\ SumFunctionOnSet(f, B) = SumFunctionOnSet(f, B \ S) + SumFunctionOnSet(f, S)
       /\ SumFunctionOnSet(f, B \ S) \in Nat /\ SumFunctionOnSet(f, S) \in Nat
  BY ONLY <1>1, <1>2, <1>10, SumSplit
<1>12. SumFunctionOnSet(g, C) \in Int
  BY <1>2, <1>4, SumType
<1> QED BY <1>3, <1>6, <1>7, <1>8, <1>9, <1>11, <1>12

(* What is paid to S and what is owed after are what was owed before. *)
LEMMA DuePaid ==
  ASSUME NEW p \in Row, NEW c \in Row, NEW o, NEW S \in SUBSET Backing(p, o), NEW pool \in Nat,
         \A u \in Users : p[u] = None \/ c[u] = None,
         \A u \in Users : p[u] # None => p[u].stake > 0,
         NEW gross, \A u \in S : gross[u] = Gross(p[u].stake, WinningStake(p, c, o), pool)
  PROVE  /\ Due(Unpaid(p, S), Paid(p, c, S), o, pool) \in Nat
         /\ SumFunctionOnSet(gross, S) \in Nat
         /\ Due(p, c, o, pool)
              = Due(Unpaid(p, S), Paid(p, c, S), o, pool) + SumFunctionOnSet(gross, S)
<1> PICK w, B : w = WinningStake(p, c, o) /\ B = Backing(p, o)
  OBVIOUS
<1> PICK f, h : /\ f = [u \in B |-> Gross(p[u].stake, w, pool)]
                /\ h = [u \in B \ S |-> Gross(Unpaid(p, S)[u].stake, w, pool)]
  OBVIOUS
<1>1. B \in SUBSET {u \in Users : p[u] # None} /\ S \in SUBSET B
  BY DEF Backing
<1>2. IsFiniteSet(B) /\ IsFiniteSet(S) /\ IsFiniteSet(B \ S)
  BY <1>1, StakesAdded, FS_Subset
<1>3. \A u \in B : f[u] \in Nat
  BY DueTerms
<1>4. /\ Due(p, c, o, pool) = SumFunctionOnSet(f, B)
      /\ Due(Unpaid(p, S), Paid(p, c, S), o, pool) = SumFunctionOnSet(h, B \ S)
  BY PaidBacking, WinningStakeKept DEF Due, SumFunction
<1>5. \A u \in B \ S : f[u] \in Int /\ h[u] = f[u]
  BY <1>1, <1>3 DEF Unpaid
<1>6. \A u \in S : f[u] \in Int /\ gross[u] = f[u]
  BY <1>1, <1>3
<1>7. SumFunctionOnSet(f, B \ S) = SumFunctionOnSet(h, B \ S)
  BY ONLY <1>2, <1>5, SumAgree
<1>8. SumFunctionOnSet(f, S) = SumFunctionOnSet(gross, S)
  BY ONLY <1>2, <1>6, SumAgree
<1>9. /\ SumFunctionOnSet(f, B) = SumFunctionOnSet(f, B \ S) + SumFunctionOnSet(f, S)
      /\ SumFunctionOnSet(f, B \ S) \in Nat /\ SumFunctionOnSet(f, S) \in Nat
  BY ONLY <1>1, <1>2, <1>3, SumSplit
<1> QED BY <1>4, <1>7, <1>8, <1>9

(* In terms of the rows, what a market owes. *)
LEMMA OwedIsDue ==
  ASSUME NEW m
  PROVE  /\ Winners(m, pred) = Backing(pred[m], market[m].outcome)
         /\ Winners(m, claimed) = Backing(claimed[m], market[m].outcome)
         /\ StakesOf(pred[m], Winners(m, pred)) + StakesOf(claimed[m], Winners(m, claimed))
              = WinningStake(pred[m], claimed[m], market[m].outcome)
         /\ market[m].resolved =>
              Owed(m) = Due(pred[m], claimed[m], market[m].outcome, market[m].pool)
<1>1. /\ Winners(m, pred) = Backing(pred[m], market[m].outcome)
      /\ Winners(m, claimed) = Backing(claimed[m], market[m].outcome)
  BY DEF Winners, Backing
<1> QED BY <1>1 DEF Owed, Due, WinningStake

-----------------------------------------------------------------------------
(* What the invariant says of one market. *)

(* What is owed is a number. *)
LEMMA DueNat ==
  ASSUME NEW p \in Row, NEW c \in Row, NEW o, NEW pool \in Nat,
         \A u \in Users : p[u] # None => p[u].stake > 0
  PROVE  Due(p, c, o, pool) \in Nat
<1> PICK w, B : w = WinningStake(p, c, o) /\ B = Backing(p, o)
  OBVIOUS
<1> PICK f : f = [u \in B |-> Gross(p[u].stake, w, pool)]
  OBVIOUS
<1>1. B \in SUBSET {u \in Users : p[u] # None} /\ IsFiniteSet(B)
  <2>1. B \in SUBSET {u \in Users : p[u] # None}
    BY DEF Backing
  <2> QED BY <2>1, StakesAdded
<1>2. \A u \in B : f[u] \in Nat
  BY DueTerms
<1>3. SumFunctionOnSet(f, B) \in Nat
  BY ONLY <1>1, <1>2, SumNat
<1> QED BY <1>3 DEF Due, SumFunction

(* The rows of a market, from the invariants. *)
LEMMA RowFacts ==
  ASSUME LifecycleInv, RecordsInv, NEW m \in MarketIds
  PROVE  /\ pred[m] \in Row /\ claimed[m] \in Row /\ predictors[m] \in Seq(Users)
         /\ Range(predictors[m]) \subseteq Users
         /\ \A u \in Users : pred[m][u] = None \/ claimed[m][u] = None
         /\ \A u \in Users : pred[m][u] # None \/ claimed[m][u] # None => u \in Range(predictors[m])
         /\ \A u \in Users : pred[m][u] # None => pred[m][u].stake > 0
         /\ PoolOf[m] \in Nat
         /\ m \in Created => market[m] \in Market /\ market[m].pool = PoolOf[m]
         /\ (\A u \in Range(predictors[m]) : pred[m][u] # None \/ claimed[m][u] # None)
              => PoolOf[m] = SumFunctionOnSet(StakeIn(pred[m], claimed[m]), Users)
<1>1. predictors[m] \in Seq(Users)
  BY RecordTypes
<1>2. Range(predictors[m]) \subseteq Users
  BY <1>1 DEF Range
<1>3. RowOK(predictors[m], pred[m], claimed[m], PoolOf[m], HeadsOf[m])
  BY DEF RecordsInv
<1> QED BY <1>1, <1>2, <1>3, PoolTypes, MarketFacts
        DEF RowOK, LifecycleInv, LifecycleTypeOK, OneRecord, Row

(* As long as a market is open nobody was settled, and all that was staked  *)
(* on it is there.                                                          *)
LEMMA OpenMarket ==
  ASSUME LifecycleInv, RecordsInv, NEW m \in Created, Sound(m), Live(m)
  PROVE  /\ paidOut[m] = 0
         /\ \A u \in Users : settlements[m][u] = 0 /\ claimed[m][u] = None
         /\ Range(predictors[m]) = Staked(m)
         /\ StakesOf(pred[m], Staked(m)) = PoolOf[m]
<1>1. m \in MarketIds /\ market[m] # None
  BY MarketFacts
<1>2. \A u \in Users : settlements[m][u] = 0
  BY <1>1 DEF Sound, SoundRow, Live
<1>3. paidOut[m] = 0
  BY <1>1, <1>2 DEF Sound, SoundRow, Live
<1>4. \A u \in Range(predictors[m]) : u \in Users /\ pred[m][u] # None
  <2> SUFFICES ASSUME NEW u \in Range(predictors[m]) PROVE u \in Users /\ pred[m][u] # None
    OBVIOUS
  <2>1. u \in Users
    BY <1>1, RowFacts
  <2>2. settlements[m][u] = IF u \in Range(predictors[m]) /\ pred[m][u] = None THEN 1 ELSE 0
    BY <1>1, <2>1 DEF Sound, SoundRow, Live
  <2> QED BY <1>2, <2>1, <2>2
<1>5. \A u \in Users : claimed[m][u] = None
  BY <1>1, <1>4, RowFacts
<1>6. Range(predictors[m]) = Staked(m)
  BY <1>1, <1>4, RowFacts DEF Staked
<1>7. StakesOf(pred[m], Staked(m)) = PoolOf[m]
  <2> PICK g, f : /\ g = StakeIn(pred[m], claimed[m])
                  /\ f = [u \in Staked(m) |-> pred[m][u].stake]
    OBVIOUS
  <2>1. PoolOf[m] = SumFunctionOnSet(g, Users)
    BY <1>1, <1>4, RowFacts
  <2>2. Staked(m) \in SUBSET Users /\ IsFiniteSet(Users) /\ IsFiniteSet(Staked(m))
    BY RecordTypes, FS_Subset DEF Staked
  <2>3. \A u \in Users : g[u] \in Int
    BY <1>1, RowFacts DEF StakeIn, Row, Prediction
  <2>4. \A u \in Users \ Staked(m) : g[u] = 0
    BY <1>5 DEF StakeIn, Staked
  <2>5. \A u \in Staked(m) : g[u] \in Int /\ f[u] = g[u]
    BY <2>3 DEF StakeIn, Staked
  <2>6. SumFunctionOnSet(g, Users) = SumFunctionOnSet(g, Staked(m))
    BY ONLY <2>2, <2>3, <2>4, SumElsewhereZero
  <2>7. SumFunctionOnSet(g, Staked(m)) = SumFunctionOnSet(f, Staked(m))
    BY ONLY <2>2, <2>5, SumAgree
  <2> QED BY <2>1, <2>6, <2>7 DEF StakesOf, SumFunction
<1> QED BY <1>2, <1>3, <1>5, <1>6, <1>7

(* A market never owes more than is left of its pool. *)
LEMMA OwedWithinPurse ==
  ASSUME LifecycleInv, RecordsInv, MoneyTypes, NEW m \in MarketIds, Sound(m)
  PROVE  /\ PurseOf[m] \in Nat /\ paidOut[m] \in Nat /\ PurseOf[m] = PoolOf[m] - paidOut[m]
         /\ m \in Created => Owed(m) \in Nat /\ Owed(m) <= PurseOf[m]
<1>0. paidOut[m] \in Nat /\ PoolOf[m] \in Nat /\ PurseOf[m] = PoolOf[m] - paidOut[m]
  BY RowFacts DEF MoneyTypes, PurseOf
<1>1. CASE m \notin Created
  <2>1. paidOut[m] = 0 /\ PoolOf[m] = 0
    BY <1>1, MarketFacts DEF Sound, SoundRow, PoolOf
  <2> QED BY <1>0, <1>1, <2>1
<1>2. CASE m \in Created /\ Live(m)
  <2>1. paidOut[m] = 0 /\ Owed(m) = PoolOf[m]
    BY <1>2, OpenMarket DEF Owed, Live
  <2> QED BY <1>0, <2>1
<1>3. CASE m \in Created /\ market[m].resolved
  <2>1. Owed(m) = Due(pred[m], claimed[m], market[m].outcome, market[m].pool)
    BY <1>3, OwedIsDue
  <2>2. Owed(m) \in Nat
    BY <1>3, <2>1, RowFacts, DueNat
  <2>3. paidOut[m] + Owed(m) <= PoolOf[m]
    BY <1>3, <2>1, RowFacts, MarketFacts DEF Sound, SoundRow
  <2> QED BY <1>0, <2>2, <2>3
<1>4. CASE m \in Created /\ market[m].cancelled /\ ~market[m].resolved
  <2>1. Owed(m) = 0 /\ paidOut[m] = PoolOf[m]
    BY <1>4, RowFacts, MarketFacts DEF Sound, SoundRow, Owed
  <2> QED BY <1>0, <2>1
<1> QED BY <1>1, <1>2, <1>3, <1>4 DEF Live

(* The refunds of an open market are its pool. *)
LEMMA RefundsAreThePool ==
  ASSUME LifecycleInv, RecordsInv, NEW m \in Created, Sound(m), Live(m)
  PROVE  /\ Owing(RefundsOf(m)) /\ Total(RefundsOf(m)) = PoolOf[m]
         /\ \A r \in RefundsOf(m) : r.market = m
         /\ \A u \in Users : (\E r \in RefundsOf(m) : r.user = u) <=> u \in Range(predictors[m])
<1>1. /\ Range(predictors[m]) = Staked(m) /\ StakesOf(pred[m], Staked(m)) = PoolOf[m]
      /\ m \in MarketIds
  BY OpenMarket, MarketFacts
<1> PICK R : R = RefundsOf(m)
  OBVIOUS
<1>2. R = {[market |-> m, user |-> u, amount |-> pred[m][u].stake] : u \in Staked(m)}
  BY <1>1 DEF RefundsOf
<1>3. Owing(R)
  <2>1. UNION {RefundsOf(c) : c \in {m}} = RefundsOf(m) /\ {m} \in SUBSET MarketIds
    BY <1>1
  <2> QED BY <2>1, RefundsOwing
<1> PICK f, g : f = [r \in R |-> r.amount] /\ g = [u \in Staked(m) |-> pred[m][u].stake]
  OBVIOUS
<1> PICK who, of : /\ who = [r \in R |-> r.user]
                   /\ of = [u \in Staked(m) |->
                              [market |-> m, user |-> u, amount |-> pred[m][u].stake]]
  OBVIOUS
<1>4. IsFiniteSet(R) /\ IsFiniteSet(Staked(m))
  BY <1>3, RecordTypes, FS_Subset DEF Owing, Staked
<1>5. /\ who \in [R -> Staked(m)] /\ of \in [Staked(m) -> R]
      /\ \A r \in R : f[r] = g[who[r]] /\ f[r] \in Nat
      /\ \A u \in Staked(m) : g[u] = f[of[u]] /\ g[u] \in Nat
      /\ \A q, r \in R : who[q] = who[r] => q = r
      /\ \A u, v \in Staked(m) : of[u] = of[v] => u = v
  <2>1. \A u \in Staked(m) : g[u] \in Nat
    BY <1>1, RecordTypes DEF Staked, Prediction
  <2> QED BY <1>2, <2>1
<1>6. SumFunctionOnSet(f, R) <= SumFunctionOnSet(g, Staked(m))
  BY ONLY <1>4, <1>5, SumPlaced
<1>7. SumFunctionOnSet(g, Staked(m)) <= SumFunctionOnSet(f, R)
  BY ONLY <1>4, <1>5, SumPlaced
<1>8. SumFunctionOnSet(f, R) \in Nat /\ SumFunctionOnSet(g, Staked(m)) \in Nat
  BY <1>4, <1>5, SumNat
<1>9. /\ Total(R) = SumFunctionOnSet(f, R)
      /\ StakesOf(pred[m], Staked(m)) = SumFunctionOnSet(g, Staked(m))
  BY DEF Total, SumFunction, StakesOf
<1>10. Total(R) = PoolOf[m]
  <2>1. SumFunctionOnSet(f, R) = SumFunctionOnSet(g, Staked(m))
    BY ONLY <1>6, <1>7, <1>8
  <2> QED BY <1>1, <1>9, <2>1
<1>11. \A r \in R : r.market = m
  BY <1>2
<1>12. \A u \in Users : (\E r \in R : r.user = u) <=> u \in Range(predictors[m])
  BY <1>1, <1>2 DEF Staked
<1> QED BY <1>3, <1>10, <1>11, <1>12

-----------------------------------------------------------------------------
(* Refunds. *)

(* What the loops over the markets S refund in all. *)
RefundsIn(S) == UNION {RefundsOf(m) : m \in S}

(* Refunds of several open markets are their pools. *)
LEMMA RefundsArePools ==
  ASSUME LifecycleInv, RecordsInv, NEW S \in SUBSET Created,
         \A m \in S : Sound(m) /\ Live(m)
  PROVE  /\ Owing(RefundsIn(S))
         /\ Total(RefundsIn(S)) = SumFunctionOnSet(PoolOf, S)
         /\ \A n \in MarketIds :
              {r \in RefundsIn(S) : r.market = n} = IF n \in S THEN RefundsOf(n) ELSE {}
<1> PICK all : all = RefundsIn(S)
  OBVIOUS
<1>0. all = UNION {RefundsOf(m) : m \in S}
  BY DEF RefundsIn
<1>1. S \in SUBSET MarketIds /\ IsFiniteSet(S)
  BY MarketFacts, RecordTypes, FS_Subset
<1>2. Owing(all)
  BY <1>0, <1>1, RefundsOwing
<1>3. \A m \in S : /\ Total(RefundsOf(m)) = PoolOf[m] /\ PoolOf[m] \in Int
                   /\ \A r \in RefundsOf(m) : r.market = m
  BY <1>1, RefundsAreThePool, RowFacts
<1>4. ASSUME NEW n \in MarketIds
      PROVE  {r \in all : r.market = n} = IF n \in S THEN RefundsOf(n) ELSE {}
  BY <1>0, <1>3
<1> DEFINE part(T) == UNION {RefundsOf(m) : m \in T}
           G == {T \in SUBSET S : Total(part(T)) = SumFunctionOnSet(PoolOf, T)}
<1>5. {} \in G
  <2>1. part({}) = {}
    OBVIOUS
  <2>2. Total({}) = 0 /\ SumFunctionOnSet(PoolOf, {}) = 0
    BY <1>2, TotalFacts, SumEmpty
  <2> QED BY <2>1, <2>2
<1>6. ASSUME NEW T \in SUBSET S, NEW x \in T, T \ {x} \in G PROVE T \in G
  <2>1. part(T) = part(T \ {x}) \cup RefundsOf(x)
    OBVIOUS
  <2>2. part(T \ {x}) \cap RefundsOf(x) = {}
    BY <1>3
  <2>3. part(T \ {x}) \in SUBSET all /\ RefundsOf(x) \in SUBSET all
    BY <1>0
  <2> PICK U, V : U = part(T \ {x}) /\ V = RefundsOf(x)
    OBVIOUS
  <2>4. U \in SUBSET all /\ V \in SUBSET all /\ U \cap V = {}
    BY <2>2, <2>3
  <2>5. Total(U \cup V) = Total(U) + Total(V)
    BY ONLY <1>2, <2>4, TotalFacts
  <2>6. part(T) = U \cup V
    BY <2>1
  <2>7. SumFunctionOnSet(PoolOf, T) = PoolOf[x] + SumFunctionOnSet(PoolOf, T \ {x})
    <3>1. IsFiniteSet(T) /\ \A y \in T : PoolOf[y] \in Int
      BY <1>1, <1>3, FS_Subset
    <3> QED BY <3>1, SumRemove
  <2>8. Total(U) = SumFunctionOnSet(PoolOf, T \ {x}) /\ Total(V) = PoolOf[x]
    <3>1. Total(part(T \ {x})) = SumFunctionOnSet(PoolOf, T \ {x})
      BY <1>6
    <3> QED BY <1>3, <3>1
  <2>9. SumFunctionOnSet(PoolOf, T \ {x}) \in Int
    <3>1. IsFiniteSet(T \ {x}) /\ \A y \in T \ {x} : PoolOf[y] \in Int
      BY <1>1, <1>3, FS_Subset
    <3> QED BY <3>1, SumType
  <2>10. Total(part(T)) = Total(U) + Total(V)
    BY <2>5, <2>6
  <2>11. Total(part(T)) = SumFunctionOnSet(PoolOf, T)
    BY ONLY <1>3, <2>7, <2>8, <2>9, <2>10, x \in T, T \in SUBSET S
  <2> QED BY <2>11
<1>7. Total(part(S)) = SumFunctionOnSet(PoolOf, S)
  <2> HIDE DEF G
  <2>1. \A T \in SUBSET S : T \in G
    BY ONLY <1>1, <1>5, <1>6, OneByOne
  <2> QED BY <2>1 DEF G
<1> QED BY <1>0, <1>2, <1>4, <1>7

(* What a refund of all of several open markets does. *)
Refunded(S) ==
  /\ bank'[Contract] = bank[Contract] - SumFunctionOnSet(PoolOf, S)
  /\ \A n \in MarketIds :
       /\ paidOut'[n] = IF n \in S THEN PoolOf[n] ELSE paidOut[n]
       /\ \A u \in Users :
            settlements'[n][u] = IF n \in S /\ u \in Range(predictors[n]) THEN 1
                                 ELSE settlements[n][u]

(* Refunding S books the pool of each market of S, and settles everyone. *)
LEMMA RefundingAll ==
  ASSUME LifecycleInv, RecordsInv, MoneyTypes, NEW S \in SUBSET Created,
         \A m \in S : Sound(m) /\ Live(m), PayRefunds(RefundsIn(S))
  PROVE  Refunded(S)
<1>0. PICK all : all = RefundsIn(S)
  OBVIOUS
<1>1. /\ Owing(all) /\ Total(all) = SumFunctionOnSet(PoolOf, S)
      /\ \A n \in MarketIds : {r \in all : r.market = n} = IF n \in S THEN RefundsOf(n) ELSE {}
  BY <1>0, RefundsArePools
<1>2. /\ bank' = [a \in Accounts |->
                    IF a = Contract THEN bank[a] - Total(all)
                    ELSE bank[a] + Total({r \in all : r.user = a})]
      /\ settlements' = [m \in MarketIds |-> [u \in Users |->
           settlements[m][u] + IF \E r \in {r \in all : r.market = m} : r.user = u THEN 1 ELSE 0]]
      /\ paidOut' = [m \in MarketIds |-> paidOut[m] + Total({r \in all : r.market = m})]
  BY <1>0 DEF PayRefunds
<1>3. bank'[Contract] = bank[Contract] - SumFunctionOnSet(PoolOf, S)
  BY <1>1, <1>2 DEF Accounts
<1>4. ASSUME NEW n \in MarketIds
      PROVE  /\ paidOut'[n] = IF n \in S THEN PoolOf[n] ELSE paidOut[n]
             /\ \A u \in Users :
                  settlements'[n][u] = IF n \in S /\ u \in Range(predictors[n]) THEN 1
                                       ELSE settlements[n][u]
  <2> PICK of : of = {r \in all : r.market = n}
    OBVIOUS
  <2>1. /\ paidOut'[n] = paidOut[n] + Total(of)
        /\ \A u \in Users :
             settlements'[n][u] = settlements[n][u] + IF \E r \in of : r.user = u THEN 1 ELSE 0
    BY <1>2
  <2>2. paidOut[n] \in Nat /\ \A u \in Users : settlements[n][u] \in Nat
    BY DEF MoneyTypes, LifecycleInv, LifecycleTypeOK
  <2>3. CASE n \in S
    <3>1. of = RefundsOf(n)
      BY <1>1, <2>3
    <3>2. /\ Total(of) = PoolOf[n] /\ PoolOf[n] \in Nat
          /\ \A u \in Users : (\E r \in of : r.user = u) <=> u \in Range(predictors[n])
      <4>1. n \in Created /\ Sound(n) /\ Live(n)
        BY <2>3
      <4>2. Total(RefundsOf(n)) = PoolOf[n] /\ PoolOf[n] \in Nat
        BY <4>1, RefundsAreThePool, RowFacts
      <4>3. \A u \in Users : (\E r \in RefundsOf(n) : r.user = u) <=> u \in Range(predictors[n])
        BY <4>1, RefundsAreThePool
      <4> QED BY <3>1, <4>2, <4>3
    <3>3. paidOut[n] = 0 /\ \A u \in Users : settlements[n][u] = 0
      BY <2>3, OpenMarket
    <3> QED BY <2>1, <2>3, <3>2, <3>3
  <2>4. CASE n \notin S
    <3>1. of = {}
      BY <1>1, <2>4
    <3>2. Total(of) = 0
      BY <3>1, SumEmpty DEF Total, SumFunction
    <3> QED BY <2>1, <2>2, <2>4, <3>1, <3>2
  <2> QED BY <2>3, <2>4
<1> QED BY <1>3, <1>4 DEF Refunded

(* What the proofs below start from: what holds of the contract whatever    *)
(* its operator does.                                                       *)
Facts == LifecycleInv /\ RecordsInv /\ MoneyTypes /\ FamilyInv

(* The bonds and the purses are numbers. *)
LEMMA MoneyFacts ==
  ASSUME Facts, PurseInv
  PROVE  /\ IsFiniteSet(MarketIds)
         /\ \A m \in MarketIds : BondOf[m] \in Nat /\ PurseOf[m] \in Nat
         /\ SumFunctionOnSet(BondOf, MarketIds) \in Nat
         /\ SumFunctionOnSet(PurseOf, MarketIds) \in Nat
         /\ treasury \in Nat /\ bank[Contract] \in Nat
         /\ SumFunctionOnSet(PurseOf, MarketIds) <= bank[Contract]
<1>1. IsFiniteSet(MarketIds)
  BY RecordTypes DEF Facts
<1>2. \A m \in MarketIds : BondOf[m] \in Nat
  BY BondFacts DEF Facts, BondOf, Disputed
<1>3. \A m \in MarketIds : PurseOf[m] \in Nat
  BY OwedWithinPurse DEF Facts, PurseInv
<1>4. SumFunctionOnSet(BondOf, MarketIds) \in Nat /\ SumFunctionOnSet(PurseOf, MarketIds) \in Nat
  BY <1>1, <1>2, <1>3, SumNat
<1>5. treasury \in Nat /\ bank[Contract] \in Nat
  BY DEF Facts, MoneyTypes, Accounts
<1> QED BY <1>1, <1>2, <1>3, <1>4, <1>5 DEF PurseInv, Backed

(* The stakes of open markets are in the balance of the contract. *)
LEMMA PoolsInHand ==
  ASSUME Facts, PurseInv, NEW S \in SUBSET Created, \A m \in S : Live(m)
  PROVE  /\ SumFunctionOnSet(PoolOf, S) \in Nat
         /\ SumFunctionOnSet(PoolOf, S) <= bank[Contract]
<1>1. S \in SUBSET MarketIds /\ IsFiniteSet(S)
  BY MarketFacts, RecordTypes, FS_Subset DEF Facts
<1>2. \A m \in S : PoolOf[m] \in Nat /\ PurseOf[m] = PoolOf[m]
  <2> TAKE m \in S
  <2>1. paidOut[m] = 0
    BY <1>1, OpenMarket DEF Facts, PurseInv
  <2> QED BY <1>1, <2>1, RowFacts DEF Facts, PurseOf
<1>3. SumFunctionOnSet(PoolOf, S) = SumFunctionOnSet(PurseOf, S)
  BY <1>1, <1>2, SumAgree
<1>4. SumFunctionOnSet(PurseOf, S) <= SumFunctionOnSet(PurseOf, MarketIds)
  BY <1>1, MoneyFacts, SumPart
<1>5. SumFunctionOnSet(PurseOf, S) \in Nat
  BY <1>1, <1>2, SumNat
<1> QED BY <1>3, <1>4, <1>5, MoneyFacts

(* A market is none of its own children. *)
LEMMA NotItsOwnChild ==
  ASSUME Facts, NEW m \in Created
  PROVE  m \notin Children(m) /\ Children(m) \in SUBSET Created
<1>1. m \in MarketIds /\ m \in Nat
  BY MarketFacts DEF Facts
<1>2. Kin(m)
  BY <1>1 DEF Facts, FamilyInv
<1> QED BY <1>1, <1>2 DEF Kin, Children

(* A market that is cancelled repays all it holds, and its open children do *)
(* so too, although the contract only tries: nothing is missing.            *)
LEMMA CancellingRefundsAll ==
  ASSUME Facts, PurseInv, NEW m \in Created, CancelMarket(m)
  PROVE  LET S == {m} \cup LiveOnes(Children(m))
         IN  /\ Refunded(S) /\ S \in SUBSET Created /\ \A n \in S : Live(n)
             /\ SumFunctionOnSet(PoolOf, S) \in Nat
<1> DEFINE kids == LiveOnes(Children(m))
           S == {m} \cup kids
<1>1. kids \in SUBSET Created /\ m \notin kids /\ \A n \in S : Live(n)
  BY NotItsOwnChild DEF LiveOnes, CancelMarket
<1>2. \E rest \in SUBSET RefundsIn(kids) :
        /\ BestEffort(rest, RefundsIn(kids), bank[Contract] - Total(RefundsOf(m)))
        /\ PayRefunds(RefundsOf(m) \cup rest)
  BY DEF CancelMarket, RefundsIn
<1>3. RefundsIn(S) = RefundsOf(m) \cup RefundsIn(kids)
  BY DEF RefundsIn
<1>4. S \in SUBSET Created /\ S = kids \cup {m}
  BY <1>1
<1> HIDE DEF kids, S
<1>5. \A n \in Created : Sound(n)
  BY MarketFacts DEF Facts, PurseInv
<1>6. /\ Total(RefundsOf(m)) = PoolOf[m] /\ Owing(RefundsIn(kids))
      /\ Total(RefundsIn(kids)) = SumFunctionOnSet(PoolOf, kids)
  BY <1>1, <1>4, <1>5, RefundsArePools, RefundsAreThePool DEF Facts
<1>7. SumFunctionOnSet(PoolOf, S) = SumFunctionOnSet(PoolOf, kids) + PoolOf[m]
  <2>1. IsFiniteSet(kids) /\ \A y \in kids \cup {m} : PoolOf[y] \in Int
    BY <1>1, MarketFacts, RecordTypes, FS_Subset, RowFacts DEF Facts
  <2> QED BY <1>1, <1>4, <2>1, SumAdd
<1>8. /\ SumFunctionOnSet(PoolOf, S) \in Nat /\ SumFunctionOnSet(PoolOf, S) <= bank[Contract]
      /\ SumFunctionOnSet(PoolOf, kids) \in Nat /\ PoolOf[m] \in Nat /\ bank[Contract] \in Nat
  <2>1. /\ SumFunctionOnSet(PoolOf, S) \in Nat /\ SumFunctionOnSet(PoolOf, S) <= bank[Contract]
    BY <1>1, <1>4, PoolsInHand
  <2>2. SumFunctionOnSet(PoolOf, kids) \in Nat
    BY <1>1, <1>4, PoolsInHand
  <2>3. PoolOf[m] \in Nat
    BY RowFacts, MarketFacts DEF Facts
  <2> QED BY <2>1, <2>2, <2>3, MoneyFacts
<1>9. PICK rest \in SUBSET RefundsIn(kids) :
        /\ BestEffort(rest, RefundsIn(kids), bank[Contract] - Total(RefundsOf(m)))
        /\ PayRefunds(RefundsOf(m) \cup rest)
  BY <1>2
<1>10. rest = RefundsIn(kids)
  <2> PICK late, balance : /\ late = RefundsIn(kids)
                           /\ balance = bank[Contract] - Total(RefundsOf(m))
    OBVIOUS
  <2>1. /\ Owing(late) /\ rest \in SUBSET late /\ BestEffort(rest, late, balance)
        /\ balance \in Nat /\ Total(late) <= balance
    BY <1>6, <1>7, <1>8, <1>9
  <2>2. rest = late
    BY <2>1, BestEffortComplete DEF Facts
  <2> QED BY <2>2
<1>11. PayRefunds(RefundsIn(S))
  BY <1>3, <1>9, <1>10
<1>12. Refunded(S)
  BY <1>1, <1>4, <1>5, <1>11, RefundingAll DEF Facts
<1> QED BY <1>1, <1>4, <1>8, <1>12 DEF S, kids

(* So do the children a result cancels. *)
LEMMA ResolvingRefundsAll ==
  ASSUME Facts, PurseInv, NEW m \in Created, NEW o \in Outcomes, ResolveMarket(m, o)
  PROVE  LET S == LiveOnes(Children(m) \ {c \in Children(m) : conditional[c].required = o})
         IN  /\ Refunded(S) /\ S \in SUBSET Created /\ \A n \in S : Live(n)
             /\ SumFunctionOnSet(PoolOf, S) \in Nat /\ m \notin S
<1> DEFINE S == LiveOnes(Children(m) \ {c \in Children(m) : conditional[c].required = o})
<1>1. S \in SUBSET Created /\ m \notin S /\ \A n \in S : Live(n)
  BY NotItsOwnChild DEF LiveOnes
<1>2. \E rest \in SUBSET RefundsIn(S) :
        BestEffort(rest, RefundsIn(S), bank[Contract]) /\ PayRefunds(rest)
  BY DEF ResolveMarket, RefundsIn
<1> HIDE DEF S
<1>3. \A n \in Created : Sound(n)
  BY MarketFacts DEF Facts, PurseInv
<1>4. /\ Owing(RefundsIn(S))
      /\ Total(RefundsIn(S)) = SumFunctionOnSet(PoolOf, S)
  BY <1>1, <1>3, RefundsArePools DEF Facts
<1>5. /\ SumFunctionOnSet(PoolOf, S) \in Nat /\ SumFunctionOnSet(PoolOf, S) <= bank[Contract]
      /\ bank[Contract] \in Nat
  BY <1>1, PoolsInHand, MoneyFacts
<1>6. PICK rest \in SUBSET RefundsIn(S) :
        BestEffort(rest, RefundsIn(S), bank[Contract]) /\ PayRefunds(rest)
  BY <1>2
<1>7. rest = RefundsIn(S)
  <2> PICK late, balance : late = RefundsIn(S) /\ balance = bank[Contract]
    OBVIOUS
  <2>1. /\ Owing(late) /\ rest \in SUBSET late /\ BestEffort(rest, late, balance)
        /\ balance \in Nat /\ Total(late) <= balance
    BY <1>4, <1>5, <1>6
  <2>2. rest = late
    BY <2>1, BestEffortComplete DEF Facts
  <2> QED BY <2>2
<1>8. Refunded(S)
  BY <1>1, <1>3, <1>6, <1>7, RefundingAll DEF Facts
<1> QED BY <1>1, <1>5, <1>8 DEF S

-----------------------------------------------------------------------------
(* The steps, one kind at a time: those that touch no book, and those of one market. *)

(* A market none of whose books change stays sound. *)
SameBooks(n) ==
  /\ IF market[n] = None THEN market'[n] = None
     ELSE SameFate(n) /\ market'[n].pool = market[n].pool
  /\ predictors'[n] = predictors[n] /\ pred'[n] = pred[n] /\ claimed'[n] = claimed[n]
  /\ (\A u \in Users : settlements'[n][u] = settlements[n][u]) /\ paidOut'[n] = paidOut[n]

(* ... since its books are all that its soundness is about. *)
LEMMA SoundKept ==
  ASSUME NEW n \in MarketIds, Sound(n), SameBooks(n)
  PROVE  Sound(n)'
BY DEF Sound, SoundRow, SameBooks, SameFate

(* Most steps touch no book. *)
LEMMA QuietBooks ==
  ASSUME Facts, FatesKept, StakesKept, UNCHANGED historyVars
  PROVE  (\A n \in MarketIds : SameBooks(n)) /\ PurseOf' = PurseOf
<1>1. ASSUME NEW n \in MarketIds PROVE SameBooks(n)
  <2>1. PoolOf'[n] = PoolOf[n]
    BY DEF StakesKept
  <2>2. market[n] # None =>
          SameFate(n) /\ market'[n] # None /\ market'[n].pool = market[n].pool
    BY <1>1, <2>1 DEF FatesKept, Created, SameFate, PoolOf
  <2> QED BY <1>1, <2>2 DEF FatesKept, StakesKept, historyVars, SameBooks
<1>2. PurseOf' = PurseOf
  BY DEF StakesKept, historyVars, PurseOf
<1> QED BY <1>1, <1>2

(* If neither the books nor the money move, the invariant stays. *)
LEMMA SameMoney ==
  ASSUME PurseInv, \A n \in MarketIds : SameBooks(n), PurseOf' = PurseOf,
         UNCHANGED <<moneyVars, dispute>>
  PROVE  PurseInv'
<1>1. \A n \in MarketIds : Sound(n)'
  BY SoundKept DEF PurseInv
<1>2. BondOf' = BondOf
  BY DEF BondOf
<1> QED BY <1>1, <1>2 DEF PurseInv, Backed, moneyVars

(* The steps that neither touch a book nor move money. *)
LEMMA QuietPurses ==
  ASSUME Facts, PurseInv,
         PlatformStep \/ Editing \/ UNCHANGED vars \/ (\E c \in Resettable : ResetCreatorStats(c))
  PROVE  (\A n \in MarketIds : SameBooks(n)) /\ PurseInv'
<1>1. UNCHANGED <<moneyVars, dispute, historyVars>>
  BY DEF PlatformStep, Editing, UpdateCreatorFee, ExtendEndTime, CloseMarket, vars,
         ResetCreatorStats, disputeVars
<1>2. FatesKept
  BY EditingFates, UntouchedFates DEF Facts, PlatformStep, vars, ResetCreatorStats
<1>3. StakesKept
  BY EditingKeepsStakes, OtherwiseKeepsStakes DEF Facts, Housekeeping
<1> QED BY <1>1, <1>2, <1>3, QuietBooks, SameMoney

(* The admin's withdrawals come out of the treasury alone. *)
LEMMA WithdrawingPurses ==
  ASSUME Facts, PurseInv, NEW to \in Users, NEW amount \in Withdrawals,
         WithdrawTreasury(to, amount)
  PROVE  (\A n \in MarketIds : SameBooks(n)) /\ PurseInv'
<1>1. UNCHANGED <<dispute, historyVars, marketVars>>
  BY DEF WithdrawTreasury, disputeVars
<1>2. FatesKept /\ StakesKept
  BY <1>1, UntouchedFates, OtherwiseKeepsStakes DEF Facts, Housekeeping
<1>3. (\A n \in MarketIds : SameBooks(n)) /\ PurseOf' = PurseOf /\ BondOf' = BondOf
  BY <1>1, <1>2, QuietBooks DEF BondOf
<1>4. amount \in Nat /\ treasury' = treasury - amount
      /\ bank'[Contract] = bank[Contract] - amount
  <2>1. amount \in Nat /\ amount <= bank[Contract]
        /\ bank' = [bank EXCEPT ![Contract] = @ - amount, ![to] = @ + amount]
    BY MarketAssumption DEF MarketAssumption, WithdrawTreasury
  <2>2. bank'[Contract] = bank[Contract] - amount
    BY <2>1, PaidFromContract, PlatformAssumption DEF Facts
  <2> QED BY <2>1, <2>2 DEF WithdrawTreasury
<1>5. \A n \in MarketIds : Sound(n)'
  BY <1>3, SoundKept DEF PurseInv
<1> PICK b, p : b = SumFunctionOnSet(BondOf, MarketIds) /\ p = SumFunctionOnSet(PurseOf, MarketIds)
  OBVIOUS
<1>6. bank[Contract] = treasury + b + p /\ b \in Nat /\ p \in Nat /\ treasury \in Nat
  BY MoneyFacts DEF PurseInv, Backed
<1>7. bank'[Contract] = treasury' + b + p
  BY <1>4, <1>6
<1> QED BY <1>3, <1>5, <1>7 DEF PurseInv, Backed

(* A new market has an empty purse. *)
LEMMA CreationPurses ==
  ASSUME Facts, PurseInv, Creation
  PROVE  PurseInv' /\ \E n \in MarketIds :
           /\ market[n] = None /\ market'[n] # None /\ ~market'[n].resolved
           /\ ~market'[n].cancelled /\ \A k \in MarketIds : k # n => SameBooks(k)
<1>1. PICK n \in MarketIds :
        /\ market[n] = None /\ market'[n] # None /\ ~market'[n].resolved /\ ~market'[n].cancelled
        /\ \A k \in MarketIds : k # n => market'[k] = market[k]
  BY CreatedFates DEF Facts
<1>2. StakesKept /\ UNCHANGED <<moneyVars, dispute, historyVars>>
  BY CreationKeepsStakes DEF Facts, Creation, CreateMarket, CreateConditionalMarket, AddMarket,
     disputeVars
<1>3. ASSUME NEW k \in MarketIds, k # n PROVE SameBooks(k)
  BY <1>1, <1>2, <1>3 DEF StakesKept, historyVars, SameBooks, SameFate
<1>4. Sound(n)'
  <2>1. predictors[n] = <<>> /\ \A u \in Users : settlements[n][u] = 0 /\ paidOut[n] = 0
    BY <1>1 DEF Facts, RecordsInv, Created, PurseInv, Sound, SoundRow
  <2>2. Range(predictors[n]) = {}
    BY <2>1 DEF Range
  <2>3. paidOut[n] = 0
    BY <1>1 DEF PurseInv, Sound, SoundRow
  <2> QED BY <1>1, <1>2, <2>1, <2>2, <2>3 DEF Sound, SoundRow, StakesKept, historyVars
<1>5. \A k \in MarketIds : Sound(k)'
  BY <1>3, <1>4, SoundKept DEF PurseInv
<1>6. PurseOf' = PurseOf /\ BondOf' = BondOf
  BY <1>2 DEF StakesKept, historyVars, PurseOf, BondOf
<1>7. Backed'
  BY <1>2, <1>6 DEF PurseInv, Backed, moneyVars
<1> QED BY <1>1, <1>3, <1>5, <1>7 DEF PurseInv

(* One purse or one bond changes. *)
LEMMA OneChanges ==
  ASSUME NEW f, NEW g, NEW S, IsFiniteSet(S), NEW x \in S, \A y \in S : f[y] \in Nat,
         g[x] \in Nat, \A y \in S : y # x => g[y] = f[y]
  PROVE  /\ SumFunctionOnSet(g, S) = SumFunctionOnSet(f, S) - f[x] + g[x]
         /\ SumFunctionOnSet(g, S) \in Nat
<1>1. ASSUME NEW y \in S PROVE g[y] \in Nat
  <2>1. CASE y = x
    BY <2>1
  <2>2. CASE y # x
    BY <2>2
  <2> QED BY <2>1, <2>2
<1>2. \A y \in S : f[y] \in Int /\ g[y] \in Int /\ (y # x => g[y] = f[y])
  BY <1>1
<1> QED BY <1>1, <1>2, SumChange, SumNat

(* A stake goes into the purse of an open market that has settled nobody. *)
LEMMA StakingPurses ==
  ASSUME Facts, PurseInv, NEW u \in Users, NEW m \in Created, NEW o \in Outcomes,
         NEW stake \in Stakes, SubmitPrediction(u, m, o, stake)
  PROVE  /\ PurseInv' /\ \A n \in MarketIds : n # m => SameBooks(n)
         /\ Live(m) /\ SameFate(m) /\ u \notin Range(predictors[m])
         /\ Range(predictors'[m]) = Range(predictors[m]) \cup {u}
         /\ PurseOf'[m] = PurseOf[m] + stake /\ PurseOf[m] \in Nat
         /\ UNCHANGED historyVars
<1> USE PlatformAssumption, MarketAssumption
<1> PICK r : r = [outcome |-> o, stake |-> stake]
  OBVIOUS
<1>0. m \in MarketIds /\ stake \in Nat /\ market[m] # None
  BY MarketFacts DEF Facts, MarketAssumption
<1>1. /\ pred' = [pred EXCEPT ![m] = [pred[m] EXCEPT ![u] = r]] /\ r \in Prediction
      /\ pred[m][u] = None /\ claimed' = claimed /\ now < market[m].endTime
      /\ predictors' = [predictors EXCEPT ![m] = Append(predictors[m], u)]
      /\ PoolOf' = [PoolOf EXCEPT ![m] = PoolOf[m] + stake]
  BY StakingEffect DEF Facts
<1>2. UNCHANGED historyVars /\ Deposit(u, stake) /\ UNCHANGED <<treasury, dispute>>
      /\ ~market[m].cancelled
  BY DEF SubmitPrediction, Acceptable, disputeVars
<1>3. Live(m)
  BY <1>1, <1>2, MarketFacts DEF Facts, Live
<1>4. FatesKept
  BY EditingFates DEF Facts, Staking
<1>5. /\ paidOut[m] = 0 /\ Range(predictors[m]) = Staked(m)
      /\ \A v \in Users : settlements[m][v] = 0
  BY <1>0, <1>3, OpenMarket DEF Facts, PurseInv
<1>6. u \notin Range(predictors[m])
  BY <1>1, <1>5 DEF Staked
<1>7. /\ predictors'[m] = Append(predictors[m], u) /\ pred'[m] = [pred[m] EXCEPT ![u] = r]
      /\ Range(predictors'[m]) = Range(predictors[m]) \cup {u} /\ pred[m] \in Row
      /\ PoolOf'[m] = PoolOf[m] + stake /\ PoolOf[m] \in Nat
  <2>1. predictors[m] \in Seq(Users) /\ pred[m] \in Row /\ PoolOf[m] \in Nat
    BY <1>0, RowFacts DEF Facts
  <2>2. predictors'[m] = Append(predictors[m], u) /\ pred'[m] = [pred[m] EXCEPT ![u] = r]
        /\ PoolOf'[m] = PoolOf[m] + stake
    BY <1>0, <1>1, PoolTypes DEF Facts, LifecycleInv, LifecycleTypeOK
  <2> QED BY <2>1, <2>2, AppendRange
<1>8. SameFate(m) /\ market'[m] # None /\ market'[m].pool = PoolOf'[m]
  BY <1>0, <1>4 DEF FatesKept, SameFate, PoolOf
<1>9. \A v \in Range(predictors'[m]) : pred'[m][v] # None
  <2>1. r # None
    BY <1>1 DEF MarketAssumption
  <2>2. \A v \in Staked(m) \cup {u} : v \in Users /\ ([pred[m] EXCEPT ![u] = r])[v] # None
    BY <1>7, <2>1 DEF Staked, Row
  <2> QED BY <1>5, <1>7, <2>2
<1>10. Sound(m)'
  BY <1>2, <1>3, <1>5, <1>8, <1>9 DEF Sound, SoundRow, SameFate, Live, historyVars
<1>11. ASSUME NEW n \in MarketIds, n # m PROVE SameBooks(n) /\ PurseOf'[n] = PurseOf[n]
  <2>1. predictors'[n] = predictors[n] /\ pred'[n] = pred[n] /\ PoolOf'[n] = PoolOf[n]
    BY <1>1, <1>11, PoolTypes DEF Facts, LifecycleInv, LifecycleTypeOK
  <2>2. market[n] # None => SameFate(n) /\ market'[n] # None
    BY <1>4 DEF FatesKept, Created, SameFate
  <2>3. market[n] # None => market'[n].pool = market[n].pool
    BY <2>1, <2>2 DEF PoolOf
  <2> QED BY <1>1, <1>2, <1>4, <2>1, <2>2, <2>3
          DEF FatesKept, SameBooks, historyVars, PurseOf
<1>12. \A n \in MarketIds : Sound(n)'
  BY <1>10, <1>11, SoundKept DEF PurseInv
<1>13. PurseOf'[m] = PurseOf[m] + stake /\ PurseOf[m] \in Nat
  BY <1>0, <1>2, <1>5, <1>7 DEF PurseOf, historyVars
<1>14. SumFunctionOnSet(PurseOf', MarketIds) = SumFunctionOnSet(PurseOf, MarketIds) + stake
  <2> PICK f, g : f = PurseOf /\ g = PurseOf'
    OBVIOUS
  <2>1. /\ IsFiniteSet(MarketIds) /\ m \in MarketIds /\ \A n \in MarketIds : f[n] \in Nat
        /\ g[m] \in Nat /\ g[m] = f[m] + stake /\ \A n \in MarketIds : n # m => g[n] = f[n]
    BY <1>0, <1>11, <1>13, MoneyFacts
  <2>2. SumFunctionOnSet(g, MarketIds) = SumFunctionOnSet(f, MarketIds) - f[m] + g[m]
    BY ONLY <2>1, OneChanges
  <2>3. SumFunctionOnSet(f, MarketIds) \in Nat /\ f[m] \in Nat
    BY <2>1, SumNat
  <2> QED BY <1>0, <2>1, <2>2, <2>3
<1>15. BondOf' = BondOf /\ treasury' = treasury /\ bank'[Contract] = bank[Contract] + stake
  BY <1>0, <1>2, DepositMoney DEF Facts, BondOf
<1>16. Backed'
  BY <1>0, <1>14, <1>15, MoneyFacts DEF PurseInv, Backed
<1> QED BY <1>2, <1>3, <1>6, <1>7, <1>8, <1>11, <1>12, <1>13, <1>16 DEF PurseInv

(* The temporary record of a claim expires once everyone was paid. *)
LEMMA ExpiringPurses ==
  ASSUME Facts, PurseInv, NEW m \in Created, NEW u \in Users, EveryoneClaimed(m),
         ExpireClaimed(m, u)
  PROVE  PurseInv' /\ UNCHANGED <<market, predictors, settlements, paidOut>> /\ PurseOf' = PurseOf
<1>1. /\ UNCHANGED <<market, predictors, pred, settlements, paidOut, treasury, bank, dispute>>
      /\ claimed' = [claimed EXCEPT ![m][u] = None]
  BY DEF ExpireClaimed, marketVars, moneyVars, historyVars, disputeVars
<1>2. PurseOf' = PurseOf /\ BondOf' = BondOf
  BY <1>1 DEF PurseOf, PoolOf, BondOf
<1>3. \A n \in MarketIds : n # m => claimed'[n] = claimed[n]
  BY <1>1 DEF Facts, LifecycleInv, LifecycleTypeOK
<1>4. market[m].resolved =>
        Due(pred[m], claimed'[m], market[m].outcome, market[m].pool)
          = Due(pred[m], claimed[m], market[m].outcome, market[m].pool)
  <2> SUFFICES ASSUME market[m].resolved
        PROVE  Due(pred[m], claimed'[m], market[m].outcome, market[m].pool)
                 = Due(pred[m], claimed[m], market[m].outcome, market[m].pool)
    OBVIOUS
  <2>1. Backing(pred[m], market[m].outcome) = {}
    BY OwedIsDue DEF EveryoneClaimed
  <2>2. ASSUME NEW c PROVE Due(pred[m], c, market[m].outcome, market[m].pool) = 0
    BY <2>1, SumEmpty DEF Due, SumFunction
  <2> QED BY <2>2
<1>5. ASSUME NEW n \in MarketIds PROVE Sound(n)'
  <2>0. Sound(n)
    BY DEF PurseInv
  <2>1. CASE n = m
    BY <1>1, <1>4, <2>0, <2>1 DEF Sound, SoundRow
  <2>2. CASE n # m
    BY <1>1, <1>3, <2>0, <2>2 DEF Sound, SoundRow
  <2> QED BY <2>1, <2>2
<1>6. Backed'
  BY <1>1, <1>2 DEF PurseInv, Backed
<1> QED BY <1>1, <1>2, <1>5, <1>6 DEF PurseInv

(* A bond is put down or goes. *)
LEMMA BondChanges ==
  ASSUME Facts, PurseInv, NEW m \in MarketIds, NEW d,
         dispute' = [dispute EXCEPT ![m] = d],
         d = None \/ (d \in Dispute /\ d # None)
  PROVE  /\ BondOf'[m] \in Nat /\ BondOf'[m] = (IF d = None THEN 0 ELSE d.bond)
         /\ SumFunctionOnSet(BondOf', MarketIds)
              = SumFunctionOnSet(BondOf, MarketIds) - BondOf[m] + BondOf'[m]
<1>1. \A n \in MarketIds : dispute'[n] = IF n = m THEN d ELSE dispute[n]
  BY DEF Facts, LifecycleInv, LifecycleTypeOK
<1>2. BondOf'[m] = IF d = None THEN 0 ELSE d.bond
  BY <1>1 DEF BondOf
<1>3. BondOf'[m] \in Nat
  BY <1>2 DEF Dispute
<1>4. \A n \in MarketIds : n # m => BondOf'[n] = BondOf[n]
  BY <1>1 DEF BondOf
<1> PICK f, g : f = BondOf /\ g = BondOf'
  OBVIOUS
<1>5. /\ IsFiniteSet(MarketIds) /\ \A n \in MarketIds : f[n] \in Nat
      /\ g[m] \in Nat /\ \A n \in MarketIds : n # m => g[n] = f[n]
  BY <1>3, <1>4, MoneyFacts
<1>6. SumFunctionOnSet(g, MarketIds) = SumFunctionOnSet(f, MarketIds) - f[m] + g[m]
  BY ONLY <1>5, m \in MarketIds, OneChanges
<1> QED BY <1>2, <1>3, <1>6

(* Raising and rejecting a dispute moves a bond and no purse. *)
LEMMA DisputingPurses ==
  ASSUME Facts, PurseInv
  PROVE  /\ \A u \in Users, m \in Created, bond \in Bonds : RaiseDispute(u, m, bond) =>
              (\A n \in MarketIds : SameBooks(n)) /\ PurseInv'
         /\ \A m \in Disputed : ResolveDispute(m, FALSE) =>
              (\A n \in MarketIds : SameBooks(n)) /\ PurseInv'
<1> USE PlatformAssumption, MarketAssumption
<1> PICK b, p : b = SumFunctionOnSet(BondOf, MarketIds) /\ p = SumFunctionOnSet(PurseOf, MarketIds)
  OBVIOUS
<1>0. bank[Contract] = treasury + b + p /\ b \in Nat /\ p \in Nat /\ treasury \in Nat
      /\ \A m \in MarketIds : BondOf[m] \in Nat
  BY MoneyFacts DEF PurseInv, Backed
<1>1. ASSUME UNCHANGED <<marketVars, stakeVars, profile, historyVars>>
      PROVE  /\ \A n \in MarketIds : SameBooks(n) /\ Sound(n)'
             /\ SumFunctionOnSet(PurseOf', MarketIds) = p
  <2>1. FatesKept
    BY <1>1, UntouchedFates DEF Facts
  <2>2. StakesKept
    BY <1>1 DEF StakesKept, stakeVars, marketVars, PoolOf, HeadsOf
  <2>3. (\A n \in MarketIds : SameBooks(n)) /\ PurseOf' = PurseOf
    BY <1>1, <2>1, <2>2, QuietBooks
  <2> QED BY <2>3, SoundKept DEF PurseInv
<1>2. ASSUME NEW u \in Users, NEW m \in Created, NEW bond \in Bonds, RaiseDispute(u, m, bond)
      PROVE  (\A n \in MarketIds : SameBooks(n)) /\ PurseInv'
  <2> PICK d : d = [disputer |-> u, bond |-> bond, filedAt |-> now]
    OBVIOUS
  <2>1. m \in MarketIds /\ bond \in Nat /\ now \in Nat
    BY MarketFacts DEF Facts, MarketAssumption
  <2>2. d \in Dispute /\ d.bond = bond
    BY <2>1 DEF Dispute
  <2>3. d # None
    BY <2>2 DEF MarketAssumption
  <2>4. /\ UNCHANGED <<marketVars, stakeVars, profile, historyVars, treasury>>
        /\ dispute[m] = None /\ dispute' = [dispute EXCEPT ![m] = d] /\ Deposit(u, bond)
    BY <1>2 DEF RaiseDispute
  <2>5. bank'[Contract] = bank[Contract] + bond
    BY <2>1, <2>4, DepositMoney DEF Facts
  <2>6. SumFunctionOnSet(BondOf', MarketIds) = b - BondOf[m] + BondOf'[m] /\ BondOf'[m] = bond
    BY <2>1, <2>2, <2>3, <2>4, BondChanges
  <2>7. BondOf[m] = 0
    BY <2>1, <2>4 DEF BondOf
  <2>8. SumFunctionOnSet(PurseOf', MarketIds) = p /\ \A n \in MarketIds : SameBooks(n) /\ Sound(n)'
    BY <1>1, <2>4
  <2>9. Backed'
    BY <1>0, <2>1, <2>4, <2>5, <2>6, <2>7, <2>8 DEF Backed
  <2> QED BY <2>8, <2>9 DEF PurseInv
<1>3. ASSUME NEW m \in Disputed, ResolveDispute(m, FALSE)
      PROVE  (\A n \in MarketIds : SameBooks(n)) /\ PurseInv'
  <2>1. m \in MarketIds /\ dispute[m] # None
    BY DEF Disputed
  <2>2. /\ UNCHANGED <<marketVars, stakeVars, profile, historyVars, bank>>
        /\ dispute' = [dispute EXCEPT ![m] = None]
        /\ treasury' = treasury + dispute[m].bond
    BY <1>3 DEF ResolveDispute, RejectDispute, marketVars, statVars
  <2>3. SumFunctionOnSet(BondOf', MarketIds) = b - BondOf[m] + BondOf'[m] /\ BondOf'[m] = 0
    BY <2>1, <2>2, BondChanges
  <2>4. BondOf[m] = dispute[m].bond /\ BondOf[m] \in Nat
    BY <1>0, <2>1 DEF BondOf
  <2>5. SumFunctionOnSet(PurseOf', MarketIds) = p /\ \A n \in MarketIds : SameBooks(n) /\ Sound(n)'
    BY <1>1, <2>2
  <2>6. Backed'
    BY <1>0, <2>2, <2>3, <2>4, <2>5 DEF Backed
  <2> QED BY <2>5, <2>6 DEF PurseInv
<1> QED BY <1>2, <1>3

(* An upheld dispute gives the bond back and reopens a market that has      *)
(* settled nobody.                                                          *)
LEMMA UpholdingPurses ==
  ASSUME Facts, PurseInv, NEW m \in Disputed, NobodySettled(m), ResolveDispute(m, TRUE)
  PROVE  /\ PurseInv' /\ m \in Created /\ market[m].resolved /\ ~market[m].cancelled
         /\ market'[m] # None /\ ~market'[m].resolved /\ ~market'[m].cancelled
         /\ \A n \in MarketIds : n # m => SameBooks(n)
         /\ UNCHANGED <<predictors, settlements, paidOut>> /\ PurseOf' = PurseOf
<1> USE PlatformAssumption, MarketAssumption
<1>0. /\ UpholdDispute(m) /\ UNCHANGED <<conditional, stakeVars, statVars, historyVars, treasury>>
      /\ dispute' = [dispute EXCEPT ![m] = None] /\ dispute[m].bond <= bank[Contract]
      /\ bank' = [bank EXCEPT ![Contract] = @ - dispute[m].bond,
                              ![dispute[m].disputer] = @ + dispute[m].bond]
  BY DEF ResolveDispute, UpholdDispute
<1>1. /\ m \in Created /\ m \in MarketIds /\ market[m] # None /\ market[m].resolved
      /\ dispute[m] # None /\ dispute[m].bond \in Nat /\ dispute[m].disputer \in Users
  BY BondFacts, MarketFacts DEF Facts, LifecycleInv, DisputedIsResolved, Disputed
<1>2. /\ \A n \in Created : n # m => SameFate(n)
      /\ market'[m] # None /\ ~market'[m].resolved /\ market'[m].cancelled = market[m].cancelled
      /\ \A n \in MarketIds : market[n] = None => market'[n] = None
  BY <1>0, UpholdingFates DEF Facts
<1>3. StakesKept
  BY DisputingKeepsStakes DEF Facts, Disputing
<1>4. PoolOf' = PoolOf /\ PurseOf' = PurseOf
  BY <1>0, <1>3 DEF StakesKept, historyVars, PurseOf
<1>5. ASSUME NEW n \in MarketIds, n # m PROVE SameBooks(n)
  <2>1. market[n] # None => SameFate(n) /\ market'[n] # None /\ market'[n].pool = market[n].pool
    BY <1>2, <1>4, <1>5 DEF Created, SameFate, PoolOf
  <2> QED BY <1>0, <1>2, <1>5, <2>1 DEF SameBooks, stakeVars, historyVars
<1>6. Sound(m) /\ ~market[m].cancelled
  BY <1>1 DEF PurseInv, Sound, SoundRow
<1>7. Sound(m)'
  BY <1>0, <1>1, <1>2, <1>6 DEF Sound, SoundRow, NobodySettled, stakeVars, historyVars
<1>8. \A n \in MarketIds : Sound(n)'
  BY <1>5, <1>7, SoundKept DEF PurseInv
<1> PICK b, p : b = SumFunctionOnSet(BondOf, MarketIds) /\ p = SumFunctionOnSet(PurseOf, MarketIds)
  OBVIOUS
<1>9. bank[Contract] = treasury + b + p /\ b \in Nat /\ p \in Nat /\ treasury \in Nat
      /\ BondOf[m] \in Nat
  BY <1>1, MoneyFacts DEF PurseInv, Backed
<1>10. SumFunctionOnSet(BondOf', MarketIds) = b - BondOf[m] + BondOf'[m] /\ BondOf'[m] = 0
       /\ BondOf[m] = dispute[m].bond
  BY <1>0, <1>1, BondChanges DEF BondOf
<1>11. bank'[Contract] = bank[Contract] - BondOf[m]
  <2> PICK bond, to : bond = dispute[m].bond /\ to = dispute[m].disputer
    OBVIOUS
  <2>1. bank' = [bank EXCEPT ![Contract] = @ - bond, ![to] = @ + bond]
    BY <1>0
  <2>2. bank'[Contract] = bank[Contract] - bond
    BY <1>0, <1>1, <2>1, PaidFromContract DEF Facts
  <2> QED BY <1>10, <2>2
<1>12. Backed'
  BY <1>0, <1>4, <1>9, <1>10, <1>11 DEF Backed
<1> QED BY <1>0, <1>1, <1>2, <1>4, <1>5, <1>6, <1>8, <1>12 DEF PurseInv, stakeVars, historyVars

-----------------------------------------------------------------------------
(* Closing markets. *)

(* Closed markets take their purses with them. *)
LEMMA ClosingMoney ==
  ASSUME Facts, PurseInv, NEW S \in SUBSET Created, \A n \in S : Live(n), Refunded(S),
         PoolOf' = PoolOf, UNCHANGED <<treasury, dispute>>
  PROVE  Backed' /\ \A n \in MarketIds : PurseOf'[n] = IF n \in S THEN 0 ELSE PurseOf[n]
<1>1. S \in SUBSET MarketIds /\ IsFiniteSet(S) /\ IsFiniteSet(MarketIds)
      /\ IsFiniteSet(MarketIds \ S)
  BY MarketFacts, RecordTypes, FS_Subset DEF Facts
<1>2. \A n \in S : PoolOf[n] \in Int /\ PurseOf[n] = PoolOf[n]
  <2> TAKE n \in S
  <2>1. paidOut[n] = 0
    BY <1>1, OpenMarket DEF Facts, PurseInv
  <2> QED BY <1>1, <2>1, RowFacts DEF Facts, PurseOf
<1>3. \A n \in MarketIds : PurseOf'[n] = IF n \in S THEN 0 ELSE PurseOf[n]
  <2> TAKE n \in MarketIds
  <2>1. PurseOf'[n] = PoolOf[n] - paidOut'[n]
    BY DEF PurseOf
  <2>2. PoolOf[n] \in Nat /\ paidOut'[n] = IF n \in S THEN PoolOf[n] ELSE paidOut[n]
    BY RowFacts DEF Facts, Refunded
  <2> QED BY <2>1, <2>2 DEF PurseOf
<1> PICK f, g : f = PurseOf /\ g = PurseOf'
  OBVIOUS
<1>4. /\ \A n \in MarketIds : f[n] \in Nat
      /\ \A n \in MarketIds : g[n] = IF n \in S THEN 0 ELSE f[n]
  BY <1>3, MoneyFacts
<1>5. \A n \in MarketIds : g[n] \in Nat
  BY <1>4
<1>6. SumFunctionOnSet(f, MarketIds)
        = SumFunctionOnSet(f, MarketIds \ S) + SumFunctionOnSet(f, S)
      /\ SumFunctionOnSet(f, MarketIds \ S) \in Nat /\ SumFunctionOnSet(f, S) \in Nat
  BY ONLY <1>1, <1>4, SumSplit
<1>7. SumFunctionOnSet(g, MarketIds)
        = SumFunctionOnSet(g, MarketIds \ S) + SumFunctionOnSet(g, S)
  BY ONLY <1>1, <1>5, SumSplit
<1>8. SumFunctionOnSet(g, S) = 0
  BY <1>1, <1>4, SumOfZeros
<1>9. SumFunctionOnSet(f, MarketIds \ S) = SumFunctionOnSet(g, MarketIds \ S)
  <2>1. \A n \in MarketIds \ S : f[n] \in Int /\ g[n] = f[n]
    BY <1>4
  <2> QED BY ONLY <1>1, <2>1, SumAgree
<1>10. SumFunctionOnSet(PoolOf, S) = SumFunctionOnSet(f, S)
  <2>1. \A n \in S : PoolOf[n] \in Int /\ f[n] = PoolOf[n]
    BY <1>2
  <2> QED BY ONLY <1>1, <2>1, SumAgree
<1>11. BondOf' = BondOf
  BY DEF BondOf
<1>12. bank'[Contract] = bank[Contract] - SumFunctionOnSet(f, S)
  BY <1>10 DEF Refunded
<1> PICK b : b = SumFunctionOnSet(BondOf, MarketIds)
  OBVIOUS
<1>13. bank[Contract] = treasury + b + SumFunctionOnSet(f, MarketIds)
       /\ b \in Nat /\ treasury \in Nat
  BY MoneyFacts DEF PurseInv, Backed
<1>14. bank'[Contract] = treasury + b + SumFunctionOnSet(g, MarketIds)
  BY <1>6, <1>7, <1>8, <1>9, <1>12, <1>13
<1> QED BY <1>3, <1>11, <1>14 DEF Backed

(* What is left of a cancelled market. *)
LEMMA ClosedSound ==
  ASSUME Facts, PurseInv, NEW S \in SUBSET Created, \A n \in S : Live(n), Refunded(S),
         PoolOf' = PoolOf, UNCHANGED stakeVars, NEW n \in Created, CancelledIn(S, n)
  PROVE  Sound(n)' /\ (n \notin S => SameBooks(n))
<1>1. n \in MarketIds /\ market[n] # None /\ Sound(n) /\ market'[n] # None
      /\ market'[n].pool = PoolOf[n] /\ market[n].pool = PoolOf[n]
  <2>1. n \in MarketIds /\ market[n] # None /\ market'[n] # None
    BY MarketFacts DEF Facts, CancelledIn
  <2> QED BY <2>1 DEF PurseInv, PoolOf
<1>2. CASE n \in S
  <2>1. \A u \in Users : settlements[n][u] = 0
    BY <1>1, <1>2, OpenMarket DEF Facts
  <2>2. /\ paidOut'[n] = PoolOf[n]
        /\ \A u \in Users : settlements'[n][u] = IF u \in Range(predictors[n]) THEN 1 ELSE 0
    BY <1>1, <1>2, <2>1 DEF Refunded
  <2>3. market'[n].cancelled /\ ~market'[n].resolved
    BY <1>2 DEF CancelledIn, Live
  <2> QED BY <1>1, <1>2, <2>2, <2>3 DEF Sound, SoundRow, stakeVars
<1>3. CASE n \notin S
  <2>1. SameFate(n)
    <3>1. market[n].cancelled \in BOOLEAN
      BY MarketFacts DEF Facts, Market
    <3> QED BY <1>3, <3>1 DEF CancelledIn, SameFate
  <2>2. SameBooks(n)
    BY <1>1, <1>3, <2>1 DEF Refunded, SameBooks, stakeVars
  <2> QED BY <1>1, <2>2, SoundKept
<1> QED BY <1>2, <1>3

(* A market the contract does not know stays unknown. *)
LEMMA UnknownKept ==
  ASSUME Facts, PurseInv, NEW S \in SUBSET Created, Refunded(S), UNCHANGED stakeVars,
         NEW n \in MarketIds, market[n] = None, market'[n] = None
  PROVE  SameBooks(n) /\ Sound(n)'
<1>1. n \notin S
  BY MarketFacts DEF Facts
<1>2. SameBooks(n)
  BY <1>1 DEF Refunded, SameBooks, stakeVars
<1> QED BY <1>2, SoundKept DEF PurseInv

(* Cancelling empties the purses of a market and of its open children. *)
LEMMA CancellingPurses ==
  ASSUME Facts, PurseInv, NEW m \in Created, CancelMarket(m),
         NEW S, S = {m} \cup LiveOnes(Children(m))
  PROVE  /\ PurseInv' /\ S \in SUBSET Created /\ Refunded(S) /\ \A n \in S : Live(n)
         /\ \A n \in MarketIds : n \notin S => SameBooks(n)
         /\ \A n \in S : CancelledIn(S, n)
         /\ \A n \in MarketIds : PurseOf'[n] = IF n \in S THEN 0 ELSE PurseOf[n]
         /\ UNCHANGED predictors
<1>1. /\ Refunded(S) /\ S \in SUBSET Created /\ \A n \in S : Live(n)
  BY CancellingRefundsAll
<1>2. PoolOf' = PoolOf /\ UNCHANGED <<treasury, dispute, stakeVars>>
  BY CancellingKeepsStakes DEF Facts, StakesKept, CancelMarket, disputeVars
<1>3. /\ \A n \in Created : CancelledIn(S, n)
      /\ \A n \in MarketIds : market[n] = None => market'[n] = None
  BY CancellingFates DEF Facts
<1>4. Backed' /\ \A n \in MarketIds : PurseOf'[n] = IF n \in S THEN 0 ELSE PurseOf[n]
  BY <1>1, <1>2, ClosingMoney
<1>5. ASSUME NEW n \in MarketIds PROVE Sound(n)' /\ (n \notin S => SameBooks(n))
  <2>1. CASE n \in Created
    BY <1>1, <1>2, <1>3, <2>1, ClosedSound
  <2>2. CASE n \notin Created
    <3>1. market[n] = None /\ market'[n] = None
      BY <1>3, <2>2 DEF Created
    <3> QED BY <1>1, <1>2, <3>1, UnknownKept
  <2> QED BY <2>1, <2>2
<1> QED BY <1>1, <1>2, <1>3, <1>4, <1>5 DEF PurseInv, stakeVars

(* A decision leaves the purse of the market alone and empties those of the *)
(* children it cancels.                                                     *)
LEMMA ResolvingPurses ==
  ASSUME Facts, PurseInv, NEW m \in Created, NEW o \in Outcomes, DecideOnce(m),
         ResolveMarket(m, o),
         NEW S, S = LiveOnes(Children(m) \ {c \in Children(m) : conditional[c].required = o})
  PROVE  /\ PurseInv' /\ S \in SUBSET Created /\ Refunded(S) /\ \A n \in S : Live(n)
         /\ m \notin S /\ Live(m)
         /\ market'[m] # None /\ market'[m].resolved /\ ~market'[m].cancelled
         /\ \A n \in MarketIds : n \notin S \cup {m} => SameBooks(n)
         /\ \A n \in S : CancelledIn(S, n)
         /\ \A n \in MarketIds : PurseOf'[n] = IF n \in S THEN 0 ELSE PurseOf[n]
         /\ UNCHANGED predictors
<1>1. /\ Refunded(S) /\ S \in SUBSET Created /\ \A n \in S : Live(n) /\ m \notin S
  BY ResolvingRefundsAll
<1>2. PoolOf' = PoolOf /\ UNCHANGED <<treasury, dispute, stakeVars>>
  BY ResolvingKeepsStakes DEF Facts, StakesKept, ResolveMarket, disputeVars
<1>3. /\ \A n \in Created : n # m => CancelledIn(S, n)
      /\ market'[m] # None /\ market'[m].resolved /\ market'[m].outcome = o
      /\ market'[m].cancelled = market[m].cancelled /\ ~market[m].resolved
      /\ \A n \in MarketIds : market[n] = None => market'[n] = None
  <2> DEFINE chosen == {c \in Children(m) : conditional[c].required = o}
  <2>1. /\ \A n \in Created : n # m => CancelledIn(LiveOnes(Children(m) \ chosen), n)
        /\ market'[m] # None /\ market'[m].resolved /\ market'[m].outcome = o
        /\ market'[m].cancelled = market[m].cancelled /\ ~market[m].resolved
        /\ \A n \in MarketIds : market[n] = None => market'[n] = None
    BY ResolvingFates DEF Facts
  <2>2. S = LiveOnes(Children(m) \ chosen)
    OBVIOUS
  <2> HIDE DEF chosen
  <2> QED BY <2>1, <2>2
<1>4. Backed' /\ \A n \in MarketIds : PurseOf'[n] = IF n \in S THEN 0 ELSE PurseOf[n]
  BY <1>1, <1>2, ClosingMoney
<1>5. Live(m) /\ m \in MarketIds /\ ~market'[m].cancelled /\ market'[m].pool = PoolOf[m]
  BY <1>2, <1>3, MarketFacts DEF Facts, DecideOnce, Live, PoolOf
<1>6. Sound(m)'
  <2>1. /\ paidOut[m] = 0 /\ \A u \in Users : settlements[m][u] = 0 /\ claimed[m][u] = None
    BY <1>5, OpenMarket DEF Facts, PurseInv
  <2>2. Due(pred[m], claimed[m], o, PoolOf[m]) \in Nat
        /\ Due(pred[m], claimed[m], o, PoolOf[m]) <= PoolOf[m]
    BY <1>5, <2>1, RowFacts, DueAtMostPool DEF Facts
  <2>3. \A u \in Users :
          settlements[m][u] = IF u \in Range(predictors[m]) /\ pred[m][u] = None THEN 1 ELSE 0
    BY <1>5, MarketFacts DEF Facts, PurseInv, Sound, SoundRow, Live
  <2>4. paidOut'[m] = 0 /\ \A u \in Users : settlements'[m][u] = settlements[m][u]
    BY <1>1, <1>5, <2>1 DEF Refunded
  <2> QED BY <1>2, <1>3, <1>5, <2>1, <2>2, <2>3, <2>4 DEF Sound, SoundRow, stakeVars
<1>7. ASSUME NEW n \in MarketIds, n # m PROVE Sound(n)' /\ (n \notin S => SameBooks(n))
  <2>1. CASE n \in Created
    BY <1>1, <1>2, <1>3, <1>7, <2>1, ClosedSound
  <2>2. CASE n \notin Created
    <3>1. market[n] = None /\ market'[n] = None
      BY <1>3, <2>2 DEF Created
    <3> QED BY <1>1, <1>2, <3>1, UnknownKept
  <2> QED BY <2>1, <2>2
<1>8. \A n \in MarketIds : Sound(n)'
  BY <1>6, <1>7
<1>9. \A n \in S : CancelledIn(S, n)
  BY <1>1, <1>3
<1> QED BY <1>1, <1>2, <1>3, <1>4, <1>5, <1>7, <1>8, <1>9 DEF PurseInv, stakeVars

-----------------------------------------------------------------------------
(* Payouts. *)

(* Multiplication keeps the order. *)
LEMMA TimesGrows ==
  ASSUME NEW g \in Nat, NEW x \in Nat, NEW y \in Nat, x <= y
  PROVE  g * x <= g * y
<1>1. y - x \in Nat /\ g * (y - x) >= 0
  OBVIOUS
<1>2. g * (y - x) = g * y - g * x
  OBVIOUS
<1> QED BY <1>1, <1>2

(* Payouts charge the market with gross amounts: when the fees fit, what    *)
(* leaves the contract and what is booked to the treasury add up to them.   *)
LEMMA PaymentAddsUp ==
  ASSUME Facts, NEW m \in Created, FeesFit(m), NEW S \in SUBSET Users, NEW winning, NEW gross,
         NEW fee, NEW royalty, NEW net, Payment(m, S, winning, gross, fee, royalty, net)
  PROVE  /\ SumFunctionOnSet(gross, S) = Outflow(S, royalty, net) + SumFunctionOnSet(fee, S)
         /\ Outflow(S, royalty, net) \in Nat /\ SumFunctionOnSet(fee, S) \in Nat
         /\ SumFunctionOnSet(gross, S) \in Nat
<1>1. IsFiniteSet(S) /\ Outflow(S, royalty, net) \in Nat
      /\ SumFunctionOnSet(fee, S) \in Nat /\ SumFunctionOnSet(gross, S) \in Nat
      /\ SumFunctionOnSet(royalty, S) \in Nat
  BY PaymentSums, PlatformAssumption
<1>2. cfg.feeBps \in Nat /\ market[m].creatorFee \in Nat /\ cfg.feeBps + market[m].creatorFee <= BPS
  <2>1. cfg \in Config
    BY DEF Facts, LifecycleInv, LifecycleTypeOK, PlatformTypeOK
  <2>2. BPS \in Nat
    BY DEF BPS
  <2>3. cfg.feeBps \in 0..BPS
    BY <2>1 DEF Config
  <2>4. market[m].creatorFee \in Nat
    BY MarketFacts DEF Facts, Market
  <2> QED BY <2>2, <2>3, <2>4 DEF FeesFit
<1>3. ASSUME NEW u \in S
      PROVE  /\ gross[u] \in Nat /\ fee[u] \in Nat /\ royalty[u] \in Nat /\ net[u] \in Nat
             /\ gross[u] = fee[u] + royalty[u] + net[u]
  <2>1. /\ gross[u] \in Nat /\ fee[u] = Cut(gross[u], cfg.feeBps)
        /\ royalty[u] = Cut(gross[u], market[m].creatorFee)
        /\ net[u] = gross[u] - fee[u] - royalty[u]
    BY DEF Payment
  <2> PICK g, f, r, a, b : /\ g = gross[u] /\ f = fee[u] /\ r = royalty[u]
                           /\ a = cfg.feeBps /\ b = market[m].creatorFee
    OBVIOUS
  <2>2. /\ f \in Nat /\ BPS * f <= g * a /\ r \in Nat /\ BPS * r <= g * b /\ g \in Nat
        /\ a \in Nat /\ b \in Nat /\ a + b <= BPS /\ BPS \in Nat \ {0}
    <3>1. BPS \in Nat \ {0}
      BY DEF BPS
    <3>2. f \in Nat /\ BPS * f <= g * a
      BY <1>2, <2>1, CutBounds
    <3>3. r \in Nat /\ BPS * r <= g * b
      BY <1>2, <2>1, CutBounds
    <3> QED BY <1>2, <2>1, <3>1, <3>2, <3>3
  <2>3. g * (a + b) <= g * BPS
    <3>1. a + b \in Nat /\ BPS \in Nat
      BY <2>2
    <3> QED BY <2>2, <3>1, TimesGrows
  <2>4. g * (a + b) = g * a + g * b /\ BPS * (f + r) = BPS * f + BPS * r /\ g * BPS = BPS * g
    <3>1. /\ \A x, y, z \in Int : x * (y + z) = x * y + x * z
          /\ \A x, y \in Int : x * y = y * x
      OBVIOUS
    <3>2. g \in Int /\ a \in Int /\ b \in Int /\ f \in Int /\ r \in Int /\ BPS \in Int
      BY <2>2
    <3> QED BY ONLY <3>1, <3>2
  <2>5. BPS * (f + r) <= BPS * g
    <3>1. g * a \in Int /\ g * b \in Int /\ BPS * f \in Int /\ BPS * r \in Int /\ g * BPS \in Int
      BY <2>2
    <3> QED BY <2>2, <2>3, <2>4, <3>1
  <2>6. f + r <= g
    BY <2>2, <2>5 DEF BPS
  <2> QED BY <2>1, <2>2, <2>6
<1> PICK pos, cut : /\ pos = [u \in S |-> Positive(net[u])]
                    /\ cut = [u \in S |-> fee[u] + royalty[u]]
  OBVIOUS
<1>4. \A u \in S : /\ pos[u] = net[u] /\ pos[u] \in Int /\ cut[u] \in Int /\ fee[u] \in Int
                   /\ royalty[u] \in Int /\ cut[u] = fee[u] + royalty[u]
                   /\ gross[u] = cut[u] + pos[u]
  BY <1>3 DEF Positive
<1>5. SumFunctionOnSet(cut, S) = SumFunctionOnSet(fee, S) + SumFunctionOnSet(royalty, S)
  BY ONLY <1>1, <1>4, SumPlus
<1>6. SumFunctionOnSet(gross, S) = SumFunctionOnSet(cut, S) + SumFunctionOnSet(pos, S)
  BY ONLY <1>1, <1>4, SumPlus
<1>7. Outflow(S, royalty, net) = SumFunctionOnSet(royalty, S) + SumFunctionOnSet(pos, S)
  BY DEF Outflow
<1>8. SumFunctionOnSet(pos, S) \in Int
  BY <1>1, <1>4, SumType
<1> QED BY <1>1, <1>5, <1>6, <1>7, <1>8

(* Under the rules every payout shares by the stakes of all winners. *)
PaysFairly(m, S) ==
  /\ FeesFit(m)
  /\ Pays(m, S, WinningStake(pred[m], claimed[m], market[m].outcome))

(* A claim divides by all winners, the claimed ones included; under the     *)
(* rules a batch does so as well.                                           *)
LEMMA FairPayouts ==
  ASSUME Facts, PurseInv, NEW m \in Created, FeesFit(m)
  PROVE  /\ \A u \in Users : ClaimPayout(u, m) => \E S \in SUBSET Users : PaysFairly(m, S)
         /\ BatchIsComplete(m) /\ BatchDistribute(m) => \E S \in SUBSET Users : PaysFairly(m, S)
<1> PICK w : w = WinningStake(pred[m], claimed[m], market[m].outcome)
  OBVIOUS
<1>1. /\ StakesOf(pred[m], Winners(m, pred)) + StakesOf(claimed[m], Winners(m, claimed)) = w
      /\ m \in MarketIds
  BY OwedIsDue, MarketFacts DEF Facts
<1>2. ASSUME NEW u \in Users, ClaimPayout(u, m) PROVE \E S \in SUBSET Users : PaysFairly(m, S)
  <2>1. /\ market[m].resolved /\ u \in Winners(m, pred) /\ PayOut(m, {u}, w)
    BY <1>1, <1>2 DEF ClaimPayout
  <2>2. w \in Nat \ {0}
    BY <1>1, <2>1, WinningStakes DEF Facts
  <2>3. PaysFairly(m, {u})
    BY <2>1, <2>2 DEF Pays, PaysFairly
  <2> QED BY <2>3
<1>3. ASSUME BatchIsComplete(m), BatchDistribute(m)
      PROVE  \E S \in SUBSET Users : PaysFairly(m, S)
  <2> DEFINE unpaid     == Winners(m, pred)
             earlier(u) == {v \in unpaid : Position(m, v) < Position(m, u)}
             batch      == {u \in unpaid : Cardinality(earlier(u)) < MaxBatch}
  <2>1. market[m].resolved /\ PayOut(m, batch, StakesOf(pred[m], unpaid)) /\ unpaid # {}
    BY <1>3, Zenon DEF BatchDistribute
  <2>2. batch \in SUBSET unpaid
    OBVIOUS
  <2>3. unpaid \in SUBSET Users
    BY DEF Winners
  <2> HIDE DEF batch
  <2>4. \A u \in Users : claimed[m][u] = None
    <3> SUFFICES ASSUME NEW u \in Users, claimed[m][u] # None PROVE FALSE
      OBVIOUS
    <3>1. u \in Range(predictors[m]) /\ pred[m][u] = None
      BY <1>1, RowFacts DEF Facts
    <3>2. market[m] # None /\ ~market[m].cancelled
      BY <1>1, <2>1, MarketFacts DEF Facts, PurseInv, Sound, SoundRow
    <3>3. settlements[m][u] = 1
      BY <1>1, <3>1, <3>2 DEF PurseInv, Sound, SoundRow
    <3> QED BY <1>3, <3>3 DEF BatchIsComplete, NobodySettled
  <2>5. Winners(m, claimed) = {}
    BY <2>4 DEF Winners
  <2>6. StakesOf(claimed[m], {}) = 0
    BY SumEmpty DEF StakesOf, SumFunction
  <2>7. StakesOf(pred[m], unpaid) = w /\ w \in Nat \ {0}
    BY <1>1, <2>1, <2>5, <2>6, WinningStakes DEF Facts
  <2>8. PaysFairly(m, batch)
    BY <2>1, <2>2, <2>7 DEF Pays, PaysFairly
  <2> QED BY <2>2, <2>3, <2>8
<1> QED BY <1>2, <1>3

(* The books of a market that pays S: each of S is settled once more, and   *)
(* the market is charged with their shares.                                 *)
LEMMA PayingBooks ==
  ASSUME Facts, PurseInv, NEW m \in Created, NEW S \in SUBSET Users, PaysFairly(m, S),
         NEW gross, NEW g, g = SumFunctionOnSet(gross, S),
         \A u \in S : gross[u] = Gross(pred[m][u].stake,
           WinningStake(pred[m], claimed[m], market[m].outcome), market[m].pool),
         settlements'[m] = [u \in Users |-> settlements[m][u] + IF u \in S THEN 1 ELSE 0],
         paidOut'[m] = paidOut[m] + g
  PROVE  /\ Sound(m)' /\ ~market[m].cancelled
         /\ S \subseteq Range(predictors[m])
         /\ \A u \in S : settlements[m][u] = 0
         /\ g \in Nat /\ PurseOf'[m] \in Nat /\ PurseOf'[m] = PurseOf[m] - g
<1> PICK o, pool, p, c, w :
       /\ o = market[m].outcome /\ pool = market[m].pool /\ p = pred[m] /\ c = claimed[m]
       /\ w = WinningStake(pred[m], claimed[m], market[m].outcome)
  OBVIOUS
<1>0. /\ Pays(m, S, w) /\ m \in MarketIds /\ market[m] # None /\ market[m].resolved
  BY MarketFacts DEF Facts, PaysFairly, Pays
<1>1. /\ UNCHANGED <<market, predictors, PoolOf>>
      /\ pred' = [pred EXCEPT ![m] = Unpaid(pred[m], S)]
      /\ claimed' = [claimed EXCEPT ![m] = Paid(pred[m], claimed[m], S)]
  BY <1>0, PayingEffect DEF Facts
<1>2. /\ p \in Row /\ c \in Row /\ pool \in Nat /\ pool = PoolOf[m]
      /\ \A u \in Users : p[u] = None \/ c[u] = None
      /\ \A u \in Users : p[u] # None => p[u].stake > 0 /\ u \in Range(predictors[m])
  BY <1>0, RowFacts DEF Facts
<1>3. pred'[m] = Unpaid(p, S) /\ claimed'[m] = Paid(p, c, S)
  BY <1>0, <1>1 DEF Facts, LifecycleInv, LifecycleTypeOK
<1>4. S \in SUBSET Backing(p, o)
  BY <1>0, OwedIsDue DEF Pays
<1>5. /\ Due(Unpaid(p, S), Paid(p, c, S), o, pool) \in Nat /\ g \in Nat
      /\ Due(p, c, o, pool) = Due(Unpaid(p, S), Paid(p, c, S), o, pool) + g
  BY <1>2, <1>4, DuePaid
<1>6. /\ ~market[m].cancelled
      /\ \A u \in Users :
           settlements[m][u] = IF u \in Range(predictors[m]) /\ p[u] = None THEN 1 ELSE 0
      /\ (\A u \in Users : settlements[m][u] = 0) => paidOut[m] = 0
      /\ paidOut[m] + Due(p, c, o, pool) <= pool
  BY <1>0 DEF PurseInv, Sound, SoundRow
<1>7. \A u \in S : p[u] # None /\ u \in Users /\ u \in Range(predictors[m]) /\ settlements[m][u] = 0
  BY <1>2, <1>4, <1>6 DEF Backing
<1>8. \A u \in Users : settlements'[m][u]
        = IF u \in Range(predictors[m]) /\ Unpaid(p, S)[u] = None THEN 1 ELSE 0
  BY <1>6, <1>7 DEF Unpaid
<1>9. (\A u \in Users : settlements'[m][u] = 0) => paidOut'[m] = 0
  <2> SUFFICES ASSUME \A u \in Users : settlements'[m][u] = 0 PROVE paidOut'[m] = 0
    OBVIOUS
  <2>1. S = {}
    BY <1>7
  <2>2. g = 0
    BY <2>1, SumEmpty
  <2>3. \A u \in Users : settlements[m][u] = 0
    BY <1>6, <2>1
  <2> QED BY <1>6, <2>2, <2>3
<1>10. paidOut[m] \in Nat /\ PurseOf[m] \in Nat /\ PurseOf[m] = pool - paidOut[m]
       /\ Due(p, c, o, pool) \in Nat
  BY <1>0, <1>2, OwedWithinPurse, DueNat DEF Facts, PurseInv
<1>11. paidOut'[m] + Due(Unpaid(p, S), Paid(p, c, S), o, pool) <= pool
  BY <1>2, <1>5, <1>6, <1>10
<1>12. Sound(m)'
  BY <1>0, <1>1, <1>3, <1>6, <1>8, <1>9, <1>11 DEF Sound, SoundRow
<1>13. PurseOf'[m] = pool - paidOut'[m]
  BY <1>0, <1>1, <1>2 DEF PurseOf
<1>14. PurseOf'[m] \in Nat /\ PurseOf'[m] = PurseOf[m] - g
  BY <1>2, <1>5, <1>10, <1>11, <1>13
<1> QED BY <1>5, <1>6, <1>7, <1>12, <1>14

(* A payout comes out of the purse of the market that pays. *)
LEMMA PayingPurses ==
  ASSUME Facts, PurseInv, NEW m \in Created, NEW S \in SUBSET Users, PaysFairly(m, S)
  PROVE  /\ PurseInv' /\ market[m].resolved /\ ~market[m].cancelled
         /\ UNCHANGED <<market, predictors>>
         /\ \A n \in MarketIds : n # m => SameBooks(n) /\ PurseOf'[n] = PurseOf[n]
         /\ S \subseteq Range(predictors[m])
         /\ \A u \in S : settlements[m][u] = 0
         /\ \A u \in Users : settlements'[m][u] = settlements[m][u] + IF u \in S THEN 1 ELSE 0
         /\ PurseOf'[m] \in 0..PurseOf[m]
<1> PICK w : w = WinningStake(pred[m], claimed[m], market[m].outcome)
  OBVIOUS
<1>0. /\ Pays(m, S, w) /\ m \in MarketIds /\ market[m] # None /\ market[m].resolved /\ FeesFit(m)
  BY MarketFacts DEF Facts, PaysFairly, Pays
<1>1. /\ UNCHANGED <<market, predictors, PoolOf, dispute>>
      /\ pred' = [pred EXCEPT ![m] = Unpaid(pred[m], S)]
      /\ claimed' = [claimed EXCEPT ![m] = Paid(pred[m], claimed[m], S)]
  <2>1. UNCHANGED dispute
    BY <1>0 DEF Pays, PayOut, disputeVars
  <2> QED BY <1>0, <2>1, PayingEffect DEF Facts
<1>2. PICK gross, fee, royalty, net : Payment(m, S, w, gross, fee, royalty, net)
                                      /\ Booked(m, S, gross, fee, royalty, net)
  BY <1>0, PaymentBooked DEF Facts
<1> PICK g, out, fees : /\ g = SumFunctionOnSet(gross, S) /\ out = Outflow(S, royalty, net)
                        /\ fees = SumFunctionOnSet(fee, S)
  OBVIOUS
<1>3. g = out + fees /\ out \in Nat /\ fees \in Nat /\ g \in Nat
  BY <1>0, <1>2, PaymentAddsUp
<1>4. /\ bank'[Contract] = bank[Contract] - out /\ treasury' = treasury + fees
  BY <1>2 DEF Booked, Accounts
<1>5. /\ settlements' = [settlements EXCEPT ![m] =
            [u \in Users |-> settlements[m][u] + IF u \in S THEN 1 ELSE 0]]
      /\ paidOut' = [paidOut EXCEPT ![m] = paidOut[m] + g]
  BY <1>2 DEF Booked
<1>6. /\ settlements'[m] = [u \in Users |-> settlements[m][u] + IF u \in S THEN 1 ELSE 0]
      /\ paidOut'[m] = paidOut[m] + g
      /\ \A n \in MarketIds : n # m => settlements'[n] = settlements[n] /\ paidOut'[n] = paidOut[n]
  BY <1>0, <1>5 DEF Facts, LifecycleInv, LifecycleTypeOK, MoneyTypes
<1>7. /\ Sound(m)' /\ ~market[m].cancelled /\ S \subseteq Range(predictors[m])
      /\ \A u \in S : settlements[m][u] = 0
      /\ PurseOf'[m] \in Nat /\ PurseOf'[m] = PurseOf[m] - g
  <2>1. \A u \in S : gross[u] = Gross(pred[m][u].stake, w, market[m].pool)
    BY <1>2 DEF Payment
  <2> QED BY <1>6, <2>1, PayingBooks
<1>8. ASSUME NEW n \in MarketIds, n # m PROVE SameBooks(n) /\ PurseOf'[n] = PurseOf[n]
  <2>1. pred'[n] = pred[n] /\ claimed'[n] = claimed[n]
    BY <1>1, <1>8 DEF Facts, LifecycleInv, LifecycleTypeOK
  <2> QED BY <1>1, <1>6, <1>8, <2>1 DEF SameBooks, SameFate, PurseOf
<1>9. \A n \in MarketIds : Sound(n)'
  <2> TAKE n \in MarketIds
  <2>1. CASE n = m
    BY <1>7, <2>1
  <2>2. CASE n # m
    BY <1>8, <2>2, SoundKept DEF PurseInv
  <2> QED BY <2>1, <2>2
<1>10. SumFunctionOnSet(PurseOf', MarketIds) = SumFunctionOnSet(PurseOf, MarketIds) - g
  <2> PICK f, h : f = PurseOf /\ h = PurseOf'
    OBVIOUS
  <2>1. /\ IsFiniteSet(MarketIds) /\ m \in MarketIds /\ \A n \in MarketIds : f[n] \in Nat
        /\ h[m] \in Nat /\ h[m] = f[m] - g /\ \A n \in MarketIds : n # m => h[n] = f[n]
    BY <1>0, <1>7, <1>8, MoneyFacts
  <2>2. SumFunctionOnSet(h, MarketIds) = SumFunctionOnSet(f, MarketIds) - f[m] + h[m]
    BY ONLY <2>1, OneChanges
  <2>3. SumFunctionOnSet(f, MarketIds) \in Nat /\ f[m] \in Nat
    BY <2>1, SumNat
  <2> QED BY <1>3, <2>1, <2>2, <2>3
<1>11. BondOf' = BondOf
  BY <1>1 DEF BondOf
<1>12. Backed'
  <2> PICK b, p : /\ b = SumFunctionOnSet(BondOf, MarketIds)
                  /\ p = SumFunctionOnSet(PurseOf, MarketIds)
    OBVIOUS
  <2>1. bank[Contract] = treasury + b + p /\ b \in Nat /\ p \in Nat /\ treasury \in Nat
        /\ bank[Contract] \in Nat
    BY MoneyFacts DEF PurseInv, Backed
  <2>2. bank'[Contract] = treasury' + b + (p - g)
    BY <1>3, <1>4, <2>1
  <2> QED BY <1>10, <1>11, <2>2 DEF Backed
<1>13. PurseOf'[m] \in 0..PurseOf[m]
  <2>1. PurseOf[m] \in Nat
    BY <1>0, MoneyFacts
  <2> QED BY <1>3, <1>7, <2>1
<1> QED BY <1>0, <1>1, <1>6, <1>7, <1>8, <1>9, <1>12, <1>13 DEF PurseInv

-----------------------------------------------------------------------------
(* The invariant holds, and what follows from it. *)

(* There is nothing at first. *)
LEMMA PurseInit ==
  ASSUME Init
  PROVE  PurseInv
<1>1. IsFiniteSet(MarketIds)
  <2> PICK n : n = MaxMarkets
    OBVIOUS
  <2>1. n \in Nat
    BY MarketAssumption DEF MarketAssumption
  <2>2. IsFiniteSet(1..n)
    BY <2>1, FS_Interval
  <2> QED BY <2>2 DEF MarketIds
<1>2. \A m \in MarketIds : BondOf[m] = 0 /\ PurseOf[m] = 0
  BY DEF Init, BondOf, PurseOf, PoolOf
<1>3. SumFunctionOnSet(BondOf, MarketIds) = 0 /\ SumFunctionOnSet(PurseOf, MarketIds) = 0
  <2> PICK f, g : f = BondOf /\ g = PurseOf
    OBVIOUS
  <2>1. SumFunctionOnSet(f, MarketIds) = 0 /\ SumFunctionOnSet(g, MarketIds) = 0
    BY <1>1, <1>2, SumOfZeros
  <2> QED BY <2>1
<1>4. bank[Contract] = 0 /\ treasury = 0
  BY PlatformAssumption, MarketAssumption DEF Init, Accounts, PlatformAssumption, MarketAssumption
<1>5. \A m \in MarketIds : Sound(m)
  BY DEF Init, Sound, SoundRow
<1> QED BY <1>3, <1>4, <1>5 DEF PurseInv, Backed

(* The five rules only take steps away. *)
LEMMA DisciplinedSteps ==
  ASSUME DisciplinedNext
  PROVE  Next
BY DEF DisciplinedNext, Next, Claiming, Disputing

(* What pays under the rules. *)
LEMMA DisciplinedPayments ==
  ASSUME Facts, PurseInv, NEW m \in Created, FeesFit(m),
         (\E u \in Users : ClaimPayout(u, m)) \/ (BatchIsComplete(m) /\ BatchDistribute(m))
  PROVE  \E S \in SUBSET Users : PaysFairly(m, S)
BY FairPayouts

(* Every step the rules allow keeps the purses apart. *)
LEMMA PurseStep ==
  ASSUME Facts, PurseInv, [DisciplinedNext]_vars
  PROVE  PurseInv'
<1>1. CASE PlatformStep \/ Editing \/ UNCHANGED vars \/ (\E c \in Resettable : ResetCreatorStats(c))
  BY <1>1, QuietPurses
<1>2. CASE Creation
  BY <1>2, CreationPurses
<1>3. CASE Staking
  BY <1>3, StakingPurses DEF Staking
<1>4. CASE \E m \in Created : CancelMarket(m)
  BY <1>4, CancellingPurses
<1>5. CASE \E m \in Created, o \in Outcomes : DecideOnce(m) /\ ResolveMarket(m, o)
  BY <1>5, ResolvingPurses
<1>6. CASE \E u \in Users, m \in Created : FeesFit(m) /\ ClaimPayout(u, m)
  <2> PICK m \in Created : FeesFit(m) /\ \E u \in Users : ClaimPayout(u, m)
    BY <1>6
  <2> QED BY DisciplinedPayments, PayingPurses
<1>7. CASE \E m \in Created : FeesFit(m) /\ BatchIsComplete(m) /\ BatchDistribute(m)
  BY <1>7, DisciplinedPayments, PayingPurses
<1>8. CASE \E m \in Created, u \in Users : EveryoneClaimed(m) /\ ExpireClaimed(m, u)
  BY <1>8, ExpiringPurses
<1>9. CASE \E u \in Users, m \in Created, bond \in Bonds : RaiseDispute(u, m, bond)
  BY <1>9, DisputingPurses
<1>10. CASE \E m \in Disputed, uphold \in BOOLEAN :
              MayReopen(m, uphold) /\ ResolveDispute(m, uphold)
  <2> PICK m \in Disputed, uphold \in BOOLEAN : MayReopen(m, uphold) /\ ResolveDispute(m, uphold)
    BY <1>10
  <2>1. CASE uphold = TRUE
    BY <2>1, UpholdingPurses DEF MayReopen
  <2>2. CASE uphold = FALSE
    BY <2>2, DisputingPurses
  <2> QED BY <2>1, <2>2
<1>11. CASE \E to \in Users, amount \in Withdrawals : WithdrawTreasury(to, amount)
  BY <1>11, WithdrawingPurses
<1> QED BY <1>1, <1>2, <1>3, <1>4, <1>5, <1>6, <1>7, <1>8, <1>9, <1>10, <1>11
        DEF DisciplinedNext, Housekeeping

(* In every state the rules allow, the balance is the treasury, the bonds   *)
(* and the purses, and the books of every market are sound.                 *)
THEOREM PursesInvariant == DisciplinedSpec => [](Facts /\ PurseInv)
<1>1. DisciplinedSpec => Spec
  <2>1. [DisciplinedNext]_vars => [Next]_vars
    BY DisciplinedSteps
  <2> QED BY <2>1, PTL DEF DisciplinedSpec, Spec
<1>2. Spec => []Facts
  BY LifecycleInvariant, RecordsInvariant, NumbersInvariant, FamilyInvariant, PTL DEF Facts
<1>3. Init => PurseInv
  BY PurseInit
<1>4. Facts /\ PurseInv /\ [DisciplinedNext]_vars => PurseInv'
  BY PurseStep
<1> QED BY <1>1, <1>2, <1>3, <1>4, PTL DEF DisciplinedSpec

(* The bonds and what the markets owe are covered. *)
LEMMA OwedIsCovered ==
  ASSUME Facts, PurseInv
  PROVE  EscrowCovers
<1> PICK b, f, o : /\ b = [m \in Disputed |-> dispute[m].bond]
                   /\ o = [m \in Created |-> Owed(m)]
                   /\ f = [m \in MarketIds |-> PurseOf[m]]
  OBVIOUS
<1>0. /\ IsFiniteSet(MarketIds) /\ Created \in SUBSET MarketIds /\ Disputed \in SUBSET MarketIds
      /\ IsFiniteSet(Created) /\ IsFiniteSet(Disputed)
  <2>1. Created \in SUBSET MarketIds /\ Disputed \in SUBSET MarketIds
    BY MarketFacts DEF Facts, Disputed
  <2> QED BY <2>1, RecordTypes, FS_Subset DEF Facts
<1>1. SumFunction(b) = SumFunctionOnSet(BondOf, MarketIds)
  <2> PICK g : g = BondOf
    OBVIOUS
  <2>1. /\ \A m \in MarketIds : g[m] \in Int
        /\ \A m \in MarketIds \ Disputed : g[m] = 0
        /\ \A m \in Disputed : g[m] \in Int /\ b[m] = g[m]
    BY MoneyFacts DEF BondOf, Disputed
  <2>2. SumFunctionOnSet(g, MarketIds) = SumFunctionOnSet(g, Disputed)
    BY ONLY <1>0, <2>1, SumElsewhereZero
  <2>3. SumFunctionOnSet(g, Disputed) = SumFunctionOnSet(b, Disputed)
    BY ONLY <1>0, <2>1, SumAgree
  <2> QED BY <2>2, <2>3 DEF SumFunction
<1>2. SumFunction(o) <= SumFunctionOnSet(PurseOf, MarketIds) /\ SumFunction(o) \in Nat
  <2> PICK g : g = PurseOf
    OBVIOUS
  <2>1. /\ \A m \in MarketIds : g[m] \in Nat
        /\ \A m \in Created : g[m] \in Int /\ o[m] \in Nat /\ o[m] \in Int /\ o[m] <= g[m]
    BY <1>0, OwedWithinPurse DEF Facts, PurseInv
  <2>2. SumFunctionOnSet(o, Created) <= SumFunctionOnSet(g, Created)
    BY ONLY <1>0, <2>1, SumMonotone
  <2>3. SumFunctionOnSet(g, Created) <= SumFunctionOnSet(g, MarketIds)
    BY ONLY <1>0, <2>1, SumPart
  <2>4. /\ SumFunctionOnSet(o, Created) \in Nat
        /\ SumFunctionOnSet(g, Created) \in Nat /\ SumFunctionOnSet(g, MarketIds) \in Nat
    BY <1>0, <2>1, SumNat
  <2> QED BY <2>2, <2>3, <2>4 DEF SumFunction
<1>3. /\ bank[Contract] = treasury + SumFunctionOnSet(BondOf, MarketIds)
                            + SumFunctionOnSet(PurseOf, MarketIds)
      /\ treasury \in Nat /\ SumFunctionOnSet(BondOf, MarketIds) \in Nat
      /\ SumFunctionOnSet(PurseOf, MarketIds) \in Nat
  BY MoneyFacts DEF PurseInv, Backed
<1>4. treasury + SumFunction(b) + SumFunction(o) <= bank[Contract]
  BY <1>1, <1>2, <1>3
<1> QED BY <1>4 DEF EscrowCovers

(* Under the rules the contract can always pay what it owes: the fees it    *)
(* booked, the bonds, the stakes of open markets and the shares of unpaid   *)
(* winners.                                                                 *)
THEOREM EscrowAlwaysCovers == DisciplinedSpec => []EscrowCovers
BY PursesInvariant, OwedIsCovered, PTL

(* What the invariant says of settlements and charges. *)
LEMMA BooksAreRight ==
  ASSUME Facts, PurseInv
  PROVE  /\ SettledAtMostOnce /\ PayoutsWithinPool /\ CancelledIsRefunded
<1>1. SettledAtMostOnce
  BY DEF SettledAtMostOnce, PurseInv, Sound, SoundRow
<1>2. PayoutsWithinPool
  <2> SUFFICES ASSUME NEW m \in Created PROVE paidOut[m] <= market[m].pool
    BY DEF PayoutsWithinPool
  <2>1. /\ m \in MarketIds /\ PurseOf[m] \in Nat /\ paidOut[m] \in Nat
        /\ PurseOf[m] = PoolOf[m] - paidOut[m] /\ PoolOf[m] \in Nat /\ market[m].pool = PoolOf[m]
    BY MarketFacts, OwedWithinPurse, RowFacts DEF Facts, PurseInv
  <2> QED BY <2>1
<1>3. CancelledIsRefunded
  <2> SUFFICES ASSUME NEW m \in Created, market[m].cancelled
        PROVE  /\ \A u \in Range(predictors[m]) : settlements[m][u] = 1
               /\ paidOut[m] = market[m].pool
    BY DEF CancelledIsRefunded
  <2>1. m \in MarketIds /\ market[m] # None /\ Range(predictors[m]) \subseteq Users
    BY MarketFacts, RowFacts DEF Facts
  <2> QED BY <2>1 DEF PurseInv, Sound, SoundRow
<1> QED BY <1>1, <1>2, <1>3

(* Under the rules nobody is refunded and paid, or paid twice, for one      *)
(* prediction.                                                              *)
THEOREM AlwaysSettledOnce == DisciplinedSpec => []SettledAtMostOnce
BY PursesInvariant, BooksAreRight, PTL

(* Under the rules a market is never charged with more than its pool,       *)
(* however shares and fees round and whatever fee applies when each winner  *)
(* claims.                                                                  *)
THEOREM PayoutsAlwaysWithinPool == DisciplinedSpec => []PayoutsWithinPool
BY PursesInvariant, BooksAreRight, PTL

(* Under the rules the best-effort refunds of a cancelled market were all   *)
(* made.                                                                    *)
THEOREM CancelledAlwaysRefunded == DisciplinedSpec => []CancelledIsRefunded
BY PursesInvariant, BooksAreRight, PTL

-----------------------------------------------------------------------------
(* The contract as a set of purses. *)

(* What this state of the contract shows of the purses. *)
Phases  == [m \in MarketIds |-> PhaseOf(m)]
(* ... who backs each market ... *)
Backers == [m \in MarketIds |-> Range(predictors[m])]
(* ... and who was settled. *)
Settled == [m \in MarketIds |-> {u \in Users : settlements[m][u] > 0}]

(* The purse of the promise is the one of the invariant. *)
LEMMA PursesShown ==
  PurseInv => PurseOf = [m \in MarketIds |->
                           IF market[m] = None THEN 0 ELSE market[m].pool - paidOut[m]]
<1> SUFFICES ASSUME PurseInv, NEW m \in MarketIds
      PROVE  PurseOf[m] = IF market[m] = None THEN 0 ELSE market[m].pool - paidOut[m]
  BY DEF PurseOf
<1>1. market[m] = None => paidOut[m] = 0
  BY DEF PurseInv, Sound, SoundRow
<1> QED BY <1>1 DEF PurseOf, PoolOf

(* ... also after a step. *)
LEMMA PursesShownThen ==
  PurseInv' => PurseOf' = [m \in MarketIds |->
                             IF market'[m] = None THEN 0 ELSE market'[m].pool - paidOut'[m]]
<1>1. (PurseInv => PurseOf = [m \in MarketIds |->
                           IF market[m] = None THEN 0 ELSE market[m].pool - paidOut[m]])'
  BY PursesShown, PTL
<1> QED BY <1>1

(* The actions of the promise, in these terms. *)
LEMMA PromisedSteps ==
  ASSUME PurseInv, PurseInv'
  PROVE  /\ UNCHANGED <<Phases, PurseOf, Backers, Settled>> => UNCHANGED Promise!purseVars
         /\ \A m \in MarketIds :
              Phases[m] = "absent" /\ Phases' = [Phases EXCEPT ![m] = "open"]
                /\ UNCHANGED <<PurseOf, Backers, Settled>>
              => Promise!PursesNext
         /\ \A m \in MarketIds :
              Phases[m] = "decided" /\ Settled[m] = {} /\ Phases' = [Phases EXCEPT ![m] = "open"]
                /\ UNCHANGED <<PurseOf, Backers, Settled>>
              => Promise!PursesNext
         /\ \A m \in MarketIds, u \in Users, stake \in Stakes :
              Phases[m] = "open" /\ u \notin Backers[m]
                /\ Backers' = [Backers EXCEPT ![m] = Backers[m] \cup {u}]
                /\ PurseOf' = [PurseOf EXCEPT ![m] = PurseOf[m] + stake]
                /\ UNCHANGED <<Phases, Settled>>
              => Promise!PursesNext
         /\ \A m \in MarketIds, S \in SUBSET Users :
              Phases[m] = "decided" /\ S \subseteq Backers[m] \ Settled[m]
                /\ PurseOf'[m] \in 0..PurseOf[m]
                /\ Settled' = [Settled EXCEPT ![m] = Settled[m] \cup S]
                /\ PurseOf' = [PurseOf EXCEPT ![m] = PurseOf'[m]]
                /\ UNCHANGED <<Phases, Backers>>
              => Promise!PursesNext
         /\ \A D, C \in SUBSET MarketIds :
              D \cap C = {} /\ (\A m \in D \cup C : Phases[m] = "open")
                /\ Phases' = [m \in MarketIds |-> IF m \in D THEN "decided"
                                                  ELSE IF m \in C THEN "cancelled" ELSE Phases[m]]
                /\ PurseOf' = [m \in MarketIds |-> IF m \in C THEN 0 ELSE PurseOf[m]]
                /\ Settled' = [m \in MarketIds |-> IF m \in C THEN Backers[m] ELSE Settled[m]]
                /\ UNCHANGED Backers
              => Promise!PursesNext
<1> DEFINE shown == [m \in MarketIds |->
                       IF market[m] = None THEN 0 ELSE market[m].pool - paidOut[m]]
<1>1. PurseOf = shown /\ PurseOf' = shown'
  BY PursesShown, PursesShownThen
<1>2. UNCHANGED <<Phases, PurseOf, Backers, Settled>> => UNCHANGED Promise!purseVars
  BY <1>1 DEF Promise!purseVars, Phases, Backers, Settled
<1>3. ASSUME NEW m \in MarketIds, Phases[m] = "absent", Phases' = [Phases EXCEPT ![m] = "open"],
             UNCHANGED <<PurseOf, Backers, Settled>>
      PROVE  Promise!PursesNext
  <2>1. Promise!Open(m)
    BY <1>1, <1>3 DEF Promise!Open, Phases, Backers, Settled
  <2> QED BY <2>1 DEF Promise!PursesNext
<1>4. ASSUME NEW m \in MarketIds, Phases[m] = "decided", Settled[m] = {},
             Phases' = [Phases EXCEPT ![m] = "open"], UNCHANGED <<PurseOf, Backers, Settled>>
      PROVE  Promise!PursesNext
  <2>1. Promise!Reopen(m)
    BY <1>1, <1>4 DEF Promise!Reopen, Phases, Backers, Settled
  <2> QED BY <2>1 DEF Promise!PursesNext
<1>5. ASSUME NEW m \in MarketIds, NEW u \in Users, NEW stake \in Stakes,
             Phases[m] = "open", u \notin Backers[m],
             Backers' = [Backers EXCEPT ![m] = Backers[m] \cup {u}],
             PurseOf' = [PurseOf EXCEPT ![m] = PurseOf[m] + stake],
             UNCHANGED <<Phases, Settled>>
      PROVE  Promise!PursesNext
  <2>1. Promise!Back(m, u, stake)
    BY <1>1, <1>5 DEF Promise!Back, Phases, Backers, Settled
  <2> QED BY <2>1 DEF Promise!PursesNext
<1>6. ASSUME NEW m \in MarketIds, NEW S \in SUBSET Users,
             Phases[m] = "decided", S \subseteq Backers[m] \ Settled[m],
             PurseOf'[m] \in 0..PurseOf[m],
             Settled' = [Settled EXCEPT ![m] = Settled[m] \cup S],
             PurseOf' = [PurseOf EXCEPT ![m] = PurseOf'[m]],
             UNCHANGED <<Phases, Backers>>
      PROVE  Promise!PursesNext
  <2> PICK left : left = PurseOf'[m]
    OBVIOUS
  <2>1. Promise!Settle(m, S, left)
    BY <1>1, <1>6 DEF Promise!Settle, Phases, Backers, Settled
  <2>2. left \in 0..(IF market[m] = None THEN 0 ELSE market[m].pool - paidOut[m])
    BY <1>1, <1>6
  <2>3. \E later \in 0..shown[m] : Promise!Settle(m, S, later)
    BY <2>1, <2>2
  <2> QED BY <2>3 DEF Promise!PursesNext
<1>7. ASSUME NEW D \in SUBSET MarketIds, NEW C \in SUBSET MarketIds,
             D \cap C = {}, \A m \in D \cup C : Phases[m] = "open",
             Phases' = [m \in MarketIds |-> IF m \in D THEN "decided"
                                            ELSE IF m \in C THEN "cancelled" ELSE Phases[m]],
             PurseOf' = [m \in MarketIds |-> IF m \in C THEN 0 ELSE PurseOf[m]],
             Settled' = [m \in MarketIds |-> IF m \in C THEN Backers[m] ELSE Settled[m]],
             UNCHANGED Backers
      PROVE  Promise!PursesNext
  <2>1. Promise!Close(D, C)
    BY <1>1, <1>7 DEF Promise!Close, Phases, Backers, Settled
  <2> QED BY <2>1 DEF Promise!PursesNext
<1> QED BY <1>2, <1>3, <1>4, <1>5, <1>6, <1>7

(* A market whose books stay shows the same. *)
LEMMA SameView ==
  ASSUME NEW n \in MarketIds, SameBooks(n)
  PROVE  /\ Phases'[n] = Phases[n] /\ PurseOf'[n] = PurseOf[n]
         /\ Backers'[n] = Backers[n] /\ Settled'[n] = Settled[n]
<1>1. Phases'[n] = Phases[n]
  BY DEF SameBooks, SameFate, Phases, PhaseOf
<1>2. PurseOf'[n] = PurseOf[n]
  BY DEF SameBooks, SameFate, PurseOf, PoolOf
<1> QED BY <1>1, <1>2 DEF SameBooks, Backers, Settled

(* Steps that touch no book show nothing. *)
LEMMA NothingShown ==
  ASSUME PurseInv, PurseInv', \A n \in MarketIds : SameBooks(n)
  PROVE  UNCHANGED Promise!purseVars
<1>1. /\ Phases' = Phases /\ PurseOf' = PurseOf /\ Backers' = Backers /\ Settled' = Settled
  <2>1. Phases' = Phases
    BY SameView DEF Phases
  <2>2. PurseOf' = PurseOf
    BY SameView DEF PurseOf
  <2>3. Backers' = Backers
    BY SameView DEF Backers
  <2>4. Settled' = Settled
    BY SameView DEF Settled
  <2> QED BY <2>1, <2>2, <2>3, <2>4
<1> QED BY <1>1, PromisedSteps

(* A new market opens a purse. *)
LEMMA CreationShown ==
  ASSUME Facts, PurseInv, PurseInv', Creation
  PROVE  Promise!PursesNext
<1>1. PICK n \in MarketIds :
        /\ market[n] = None /\ market'[n] # None /\ ~market'[n].resolved /\ ~market'[n].cancelled
        /\ \A k \in MarketIds : k # n => SameBooks(k)
  BY CreationPurses
<1>2. UNCHANGED <<PurseOf, Backers, Settled>>
  <2>1. StakesKept /\ UNCHANGED historyVars
    BY CreationKeepsStakes
       DEF Facts, Creation, CreateMarket, CreateConditionalMarket, AddMarket
  <2> QED BY <2>1 DEF StakesKept, historyVars, PurseOf, Backers, Settled
<1>3. Phases[n] = "absent" /\ Phases'[n] = "open"
  BY <1>1 DEF Phases, PhaseOf
<1>4. \A k \in MarketIds : k # n => Phases'[k] = Phases[k]
  BY <1>1, SameView
<1>5. Phases' = [Phases EXCEPT ![n] = "open"]
  BY <1>3, <1>4 DEF Phases
<1> QED BY <1>2, <1>3, <1>5, PromisedSteps

(* A stake backs an open purse. *)
LEMMA StakingShown ==
  ASSUME Facts, PurseInv, PurseInv', NEW u \in Users, NEW m \in Created, NEW o \in Outcomes,
         NEW stake \in Stakes, SubmitPrediction(u, m, o, stake)
  PROVE  Promise!PursesNext
<1>1. /\ \A n \in MarketIds : n # m => SameBooks(n)
      /\ Live(m) /\ SameFate(m) /\ u \notin Range(predictors[m]) /\ m \in MarketIds
      /\ market[m] # None
      /\ Range(predictors'[m]) = Range(predictors[m]) \cup {u}
      /\ PurseOf'[m] = PurseOf[m] + stake
      /\ UNCHANGED historyVars
  BY StakingPurses, MarketFacts DEF Facts
<1>2. Phases[m] = "open" /\ Phases'[m] = "open"
  BY <1>1 DEF Phases, PhaseOf, Live, SameFate
<1>3. \A n \in MarketIds : n # m =>
        Phases'[n] = Phases[n] /\ PurseOf'[n] = PurseOf[n] /\ Backers'[n] = Backers[n]
  BY <1>1, SameView
<1>4. UNCHANGED <<Phases, Settled>>
  <2>1. Phases' = Phases
    BY <1>2, <1>3 DEF Phases
  <2> QED BY <1>1, <2>1 DEF Settled, historyVars
<1>5. Backers' = [Backers EXCEPT ![m] = Backers[m] \cup {u}]
  BY <1>1, <1>3 DEF Backers
<1>6. PurseOf' = [PurseOf EXCEPT ![m] = PurseOf[m] + stake]
  BY <1>1, <1>3 DEF PurseOf
<1>7. u \notin Backers[m]
  BY <1>1 DEF Backers
<1> QED BY <1>1, <1>2, <1>4, <1>5, <1>6, <1>7, PromisedSteps

(* Cancelled markets settle everyone. *)
LEMMA ClosedShown ==
  ASSUME Facts, PurseInv, NEW S \in SUBSET Created, Refunded(S), NEW n \in S, Live(n),
         CancelledIn(S, n), UNCHANGED predictors
  PROVE  /\ n \in MarketIds /\ Phases[n] = "open" /\ Phases'[n] = "cancelled"
         /\ Settled'[n] = Backers[n]
<1>1. n \in MarketIds /\ n \in Created /\ market[n] # None
  BY MarketFacts DEF Facts
<1>2. \A u \in Users : settlements[n][u] = 0
  BY <1>1, OpenMarket DEF Facts, PurseInv
<1>3. \A u \in Users : settlements'[n][u] = IF u \in Range(predictors[n]) THEN 1 ELSE 0
  BY <1>1, <1>2 DEF Refunded
<1>4. Range(predictors[n]) \subseteq Users
  BY <1>1, RowFacts DEF Facts
<1>5. Settled'[n] = Backers[n]
  BY <1>1, <1>3, <1>4 DEF Settled, Backers
<1> QED BY <1>1, <1>5 DEF Phases, PhaseOf, CancelledIn, Live

(* Closing markets, with or without a decision on one. *)
LEMMA ClosingShown ==
  ASSUME Facts, PurseInv, PurseInv', NEW S \in SUBSET Created, Refunded(S),
         \A n \in S : Live(n) /\ CancelledIn(S, n), UNCHANGED predictors,
         NEW D \in SUBSET MarketIds, D \cap S = {},
         \A n \in D : /\ Phases[n] = "open" /\ Phases'[n] = "decided"
                      /\ Settled'[n] = Settled[n],
         \A n \in MarketIds : n \notin S \cup D => SameBooks(n),
         \A n \in MarketIds : PurseOf'[n] = IF n \in S THEN 0 ELSE PurseOf[n]
  PROVE  Promise!PursesNext
<1>1. \A n \in S : /\ n \in MarketIds /\ Phases[n] = "open" /\ Phases'[n] = "cancelled"
                   /\ Settled'[n] = Backers[n]
  BY ClosedShown
<1>2. \A n \in MarketIds : n \notin S \cup D => Phases'[n] = Phases[n] /\ Settled'[n] = Settled[n]
  BY SameView
<1>4. Phases' = [n \in MarketIds |-> IF n \in D THEN "decided"
                                     ELSE IF n \in S THEN "cancelled" ELSE Phases[n]]
  BY <1>1, <1>2 DEF Phases
<1>5. Settled' = [n \in MarketIds |-> IF n \in S THEN Backers[n] ELSE Settled[n]]
  BY <1>1, <1>2 DEF Settled
<1>6. PurseOf' = [n \in MarketIds |-> IF n \in S THEN 0 ELSE PurseOf[n]]
  BY DEF PurseOf
<1>7. UNCHANGED Backers
  BY DEF Backers
<1>8. S \in SUBSET MarketIds
  BY <1>1
<1> QED BY <1>1, <1>4, <1>5, <1>6, <1>7, <1>8, PromisedSteps

(* A cancelled market closes, and so do its open children. *)
LEMMA CancellingShown ==
  ASSUME Facts, PurseInv, PurseInv', NEW m \in Created, CancelMarket(m)
  PROVE  Promise!PursesNext
<1> PICK S : S = {m} \cup LiveOnes(Children(m))
  OBVIOUS
<1>1. /\ S \in SUBSET Created /\ Refunded(S) /\ \A n \in S : Live(n) /\ CancelledIn(S, n)
      /\ \A n \in MarketIds : n \notin S => SameBooks(n)
      /\ \A n \in MarketIds : PurseOf'[n] = IF n \in S THEN 0 ELSE PurseOf[n]
      /\ UNCHANGED predictors
  BY CancellingPurses
<1> PICK D : D = {}
  OBVIOUS
<1> QED BY <1>1, ClosingShown

(* A decision closes the market and the children it cancels. *)
LEMMA ResolvingShown ==
  ASSUME Facts, PurseInv, PurseInv', NEW m \in Created, NEW o \in Outcomes, DecideOnce(m),
         ResolveMarket(m, o)
  PROVE  Promise!PursesNext
<1> PICK S : S = LiveOnes(Children(m) \ {c \in Children(m) : conditional[c].required = o})
  OBVIOUS
<1>0. m \in MarketIds /\ market[m] # None
  BY MarketFacts DEF Facts
<1>1. /\ S \in SUBSET Created /\ Refunded(S) /\ \A n \in S : Live(n) /\ CancelledIn(S, n)
      /\ m \notin S /\ Live(m)
      /\ market'[m] # None /\ market'[m].resolved /\ ~market'[m].cancelled
      /\ \A n \in MarketIds : n \notin S \cup {m} => SameBooks(n)
      /\ \A n \in MarketIds : PurseOf'[n] = IF n \in S THEN 0 ELSE PurseOf[n]
      /\ UNCHANGED predictors
  BY ResolvingPurses
<1>2. Phases[m] = "open" /\ Phases'[m] = "decided"
  BY <1>0, <1>1 DEF Phases, PhaseOf, Live
<1>3. Settled'[m] = Settled[m]
  BY <1>0, <1>1 DEF Settled, Refunded
<1> PICK D : D = {m}
  OBVIOUS
<1>4. /\ D \in SUBSET MarketIds /\ D \cap S = {}
      /\ \A n \in D : Phases[n] = "open" /\ Phases'[n] = "decided" /\ Settled'[n] = Settled[n]
      /\ \A n \in MarketIds : n \notin S \cup D => SameBooks(n)
  BY <1>0, <1>1, <1>2, <1>3
<1> QED BY <1>1, <1>4, ClosingShown

(* A payout settles those it pays, out of the purse. *)
LEMMA PayingShown ==
  ASSUME Facts, PurseInv, PurseInv', NEW m \in Created, NEW S \in SUBSET Users, PaysFairly(m, S)
  PROVE  Promise!PursesNext
<1>1. /\ market[m].resolved /\ ~market[m].cancelled /\ m \in MarketIds /\ market[m] # None
      /\ UNCHANGED <<market, predictors>>
      /\ \A n \in MarketIds : n # m => SameBooks(n) /\ PurseOf'[n] = PurseOf[n]
      /\ S \subseteq Range(predictors[m])
      /\ \A u \in S : settlements[m][u] = 0
      /\ \A u \in Users : settlements'[m][u] = settlements[m][u] + IF u \in S THEN 1 ELSE 0
      /\ PurseOf'[m] \in 0..PurseOf[m]
  BY PayingPurses, MarketFacts DEF Facts
<1>2. Phases[m] = "decided" /\ UNCHANGED <<Phases, Backers>>
  BY <1>1 DEF Phases, PhaseOf, Backers
<1>3. \A u \in Users : settlements[m][u] \in Nat
  BY <1>1 DEF PurseInv, Sound, SoundRow
<1>4. Settled'[m] = Settled[m] \cup S
  BY <1>1, <1>3 DEF Settled
<1>5. Settled' = [Settled EXCEPT ![m] = Settled[m] \cup S]
  <2>1. \A n \in MarketIds : n # m => Settled'[n] = Settled[n]
    BY <1>1, SameView
  <2> QED BY <1>4, <2>1 DEF Settled
<1>6. PurseOf' = [PurseOf EXCEPT ![m] = PurseOf'[m]]
  BY <1>1 DEF PurseOf
<1>7. S \subseteq Backers[m] \ Settled[m]
  BY <1>1 DEF Backers, Settled
<1> QED BY <1>1, <1>2, <1>5, <1>6, <1>7, PromisedSteps

(* An upheld dispute reopens a purse nothing was taken from. *)
LEMMA UpholdingShown ==
  ASSUME Facts, PurseInv, PurseInv', NEW m \in Disputed, NobodySettled(m), ResolveDispute(m, TRUE)
  PROVE  Promise!PursesNext
<1>1. /\ m \in Created /\ market[m].resolved /\ ~market[m].cancelled /\ m \in MarketIds
      /\ market'[m] # None /\ ~market'[m].resolved /\ ~market'[m].cancelled
      /\ \A n \in MarketIds : n # m => SameBooks(n)
      /\ UNCHANGED <<predictors, settlements, paidOut>> /\ PurseOf' = PurseOf
      /\ market[m] # None
  BY UpholdingPurses, MarketFacts DEF Facts
<1>2. Phases[m] = "decided" /\ Phases'[m] = "open"
  BY <1>1 DEF Phases, PhaseOf
<1>3. Phases' = [Phases EXCEPT ![m] = "open"]
  BY <1>1, <1>2, SameView DEF Phases
<1>4. Settled[m] = {}
  BY <1>1 DEF Settled, NobodySettled
<1>5. UNCHANGED <<PurseOf, Backers, Settled>>
  BY <1>1 DEF Backers, Settled
<1> QED BY <1>1, <1>2, <1>3, <1>4, <1>5, PromisedSteps

(* Every step under the rules is one of the promise or shows nothing. *)
LEMMA StepShown ==
  ASSUME Facts, PurseInv, [DisciplinedNext]_vars
  PROVE  [Promise!PursesNext]_Promise!purseVars
<1>0. PurseInv'
  BY PurseStep
<1>1. CASE PlatformStep \/ Editing \/ UNCHANGED vars \/ (\E c \in Resettable : ResetCreatorStats(c))
  BY <1>0, <1>1, QuietPurses, NothingShown
<1>2. CASE Creation
  BY <1>0, <1>2, CreationShown
<1>3. CASE Staking
  BY <1>0, <1>3, StakingShown DEF Staking
<1>4. CASE \E m \in Created : CancelMarket(m)
  BY <1>0, <1>4, CancellingShown
<1>5. CASE \E m \in Created, o \in Outcomes : DecideOnce(m) /\ ResolveMarket(m, o)
  BY <1>0, <1>5, ResolvingShown
<1>6. CASE \E u \in Users, m \in Created : FeesFit(m) /\ ClaimPayout(u, m)
  <2> PICK m \in Created : FeesFit(m) /\ \E u \in Users : ClaimPayout(u, m)
    BY <1>6
  <2> QED BY <1>0, DisciplinedPayments, PayingShown
<1>7. CASE \E m \in Created : FeesFit(m) /\ BatchIsComplete(m) /\ BatchDistribute(m)
  BY <1>0, <1>7, DisciplinedPayments, PayingShown
<1>8. CASE \E m \in Created, u \in Users : EveryoneClaimed(m) /\ ExpireClaimed(m, u)
  <2>1. UNCHANGED <<market, predictors, settlements, paidOut>> /\ PurseOf' = PurseOf
    BY <1>8, ExpiringPurses
  <2>2. UNCHANGED <<Phases, PurseOf, Backers, Settled>>
    BY <2>1 DEF Phases, PhaseOf, Backers, Settled
  <2> QED BY <1>0, <2>2, PromisedSteps
<1>9. CASE \E u \in Users, m \in Created, bond \in Bonds : RaiseDispute(u, m, bond)
  BY <1>0, <1>9, DisputingPurses, NothingShown
<1>10. CASE \E m \in Disputed, uphold \in BOOLEAN :
              MayReopen(m, uphold) /\ ResolveDispute(m, uphold)
  <2> PICK m \in Disputed, uphold \in BOOLEAN : MayReopen(m, uphold) /\ ResolveDispute(m, uphold)
    BY <1>10
  <2>1. CASE uphold = TRUE
    BY <1>0, <2>1, UpholdingShown DEF MayReopen
  <2>2. CASE uphold = FALSE
    BY <1>0, <2>2, DisputingPurses, NothingShown
  <2> QED BY <2>1, <2>2
<1>11. CASE \E to \in Users, amount \in Withdrawals : WithdrawTreasury(to, amount)
  BY <1>0, <1>11, WithdrawingPurses, NothingShown
<1> QED BY <1>1, <1>2, <1>3, <1>4, <1>5, <1>6, <1>7, <1>8, <1>9, <1>10, <1>11
        DEF DisciplinedNext, Housekeeping

(* Nothing is there at first. *)
LEMMA InitShown ==
  ASSUME Init
  PROVE  Promise!PursesInit
<1>1. Phases = [m \in MarketIds |-> "absent"]
  BY DEF Init, Phases, PhaseOf
<1>2. Backers = [m \in MarketIds |-> {}]
  BY DEF Init, Backers, Range
<1>3. Settled = [m \in MarketIds |-> {}]
  BY DEF Init, Settled
<1>4. [m \in MarketIds |-> IF market[m] = None THEN 0 ELSE market[m].pool - paidOut[m]]
        = [m \in MarketIds |-> 0]
  BY DEF Init
<1> QED BY <1>1, <1>2, <1>3, <1>4 DEF Promise!PursesInit, Phases, Backers, Settled

(* One balance, but separate purses: under the rules the market-maker       *)
(* implements Purses, step by step.                                         *)
THEOREM MarketsStaySeparate == DisciplinedSpec => MarketsAreSeparatePurses
<1>1. Init => Promise!PursesInit
  BY InitShown
<1>2. (Facts /\ PurseInv) /\ [DisciplinedNext]_vars => [Promise!PursesNext]_Promise!purseVars
  BY StepShown
<1> QED BY <1>1, <1>2, PursesInvariant, PTL
        DEF DisciplinedSpec, MarketsAreSeparatePurses, Promise!PursesSpec
=================================================================================
