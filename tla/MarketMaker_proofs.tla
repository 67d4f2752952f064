------------------------ MODULE MarketMaker_proofs ------------------------
(***************************************************************************)
(* Proofs about MarketMaker and Invites for every value of their           *)
(* constants: type correctness, the consistency of the dispute index, the  *)
(* pools and the records of the predictions, the statistics, the fates of  *)
(* conditional markets, and the invites of private ones.                   *)
(***************************************************************************)
EXTENDS Invites, Sums

-----------------------------------------------------------------------------
(* Type correctness. *)

(* The updates the handlers make to the record of a market keep its type;   *)
(* all but the extension and the resolution leave its timetable alone.      *)
SameTimes(r, q) ==
  /\ r.endTime = q.endTime
  /\ r.resolutionTime = q.resolutionTime
  /\ r.disputeWindow = q.disputeWindow

LEMMA CancelledEntry ==
  ASSUME NEW q \in Market
  PROVE  [q EXCEPT !.cancelled = TRUE] \in Market
  BY DEF Market

LEMMA ClosedEntry ==
  ASSUME NEW q \in Market
  PROVE  LET r == [q EXCEPT !.closed = TRUE] IN
         /\ r \in Market /\ SameTimes(r, q)
         /\ r.resolved = q.resolved /\ r.resolvedAt = q.resolvedAt
<1> DEFINE r == [q EXCEPT !.closed = TRUE]
<1>1. r \in Market
  BY DEF Market
<1> QED BY <1>1 DEF Market, SameTimes

LEMMA FeeEntry ==
  ASSUME NEW q \in Market, NEW fee \in Nat
  PROVE  LET r == [q EXCEPT !.creatorFee = fee] IN
         /\ r \in Market /\ SameTimes(r, q)
         /\ r.resolved = q.resolved /\ r.resolvedAt = q.resolvedAt
<1> DEFINE r == [q EXCEPT !.creatorFee = fee]
<1>1. r \in Market
  BY DEF Market
<1> QED BY <1>1 DEF Market, SameTimes

LEMMA StakedEntry ==
  ASSUME NEW q \in Market, NEW pool \in Nat, NEW n \in Nat
  PROVE  LET r == [q EXCEPT !.pool = pool, !.participants = n] IN
         /\ r \in Market /\ SameTimes(r, q)
         /\ r.resolved = q.resolved /\ r.resolvedAt = q.resolvedAt
<1> DEFINE r == [q EXCEPT !.pool = pool, !.participants = n]
<1>1. r \in Market
  BY DEF Market
<1> QED BY <1>1 DEF Market, SameTimes

LEMMA ExtendedEntry ==
  ASSUME NEW q \in Market, NEW end \in Nat, NEW later \in Nat
  PROVE  [q EXCEPT !.endTime = end, !.resolutionTime = later] \in Market
  BY DEF Market

LEMMA ReopenedEntry ==
  ASSUME NEW q \in Market
  PROVE  LET r == [q EXCEPT !.resolved = FALSE, !.outcome = None, !.resolvedAt = 0] IN
         r \in Market /\ SameTimes(r, q) /\ ~r.resolved
<1> DEFINE r == [q EXCEPT !.resolved = FALSE, !.outcome = None, !.resolvedAt = 0]
<1>1. r \in Market
  BY DEF Market
<1> QED BY <1>1 DEF Market, SameTimes

(* What the entries of the markets created so far look like. *)
LEMMA EntryTypes ==
  ASSUME LifecycleTypeOK
  PROVE  /\ Created \subseteq MarketIds
         /\ \A m \in Created : market[m] \in Market
         /\ \A m \in MarketIds :
              conditional[m] # None => conditional[m] \in Conditional
         /\ \A m \in Disputed : m \in MarketIds /\ dispute[m] \in Dispute
  BY DEF LifecycleTypeOK, Created, Disputed

LEMMA WithCancelledType ==
  ASSUME LifecycleTypeOK, NEW S \in SUBSET Created
  PROVE  WithCancelled(S) \in [MarketIds -> Market \cup {None}]
<1>1. \A c \in S : [market[c] EXCEPT !.cancelled = TRUE] \in Market
  BY EntryTypes, CancelledEntry
<1> QED BY <1>1 DEF WithCancelled, LifecycleTypeOK

LEMMA WithActivatedType ==
  ASSUME LifecycleTypeOK, NEW m, NEW chosen
  PROVE  WithActivated(Children(m), chosen)
           \in [MarketIds -> Conditional \cup {None}]
<1>1. ASSUME NEW c \in Children(m)
      PROVE  [conditional[c] EXCEPT !.activated = c \in chosen] \in Conditional
  <2>1. conditional[c] \in Conditional
    BY EntryTypes DEF Children
  <2>2. (c \in chosen) \in BOOLEAN
    OBVIOUS
  <2> QED BY <2>1, <2>2, Zenon DEF Conditional
<1> QED BY <1>1 DEF WithActivated, LifecycleTypeOK

LEMMA PayRefundsType ==
  ASSUME LifecycleTypeOK, NEW refunds, PayRefunds(refunds)
  PROVE  settlements' \in [MarketIds -> [Users -> Nat]]
  BY DEF LifecycleTypeOK, PayRefunds

LEMMA AddMarketType ==
  ASSUME LifecycleTypeOK, PlatformAssumption, MarketAssumption,
         NEW c \in Users, NEW p \in Params,
         NEW link \in Conditional \cup {None}, AddMarket(c, p, link)
  PROVE  LifecycleTypeOK'
<1>1. NewMarket(c, p) \in Market
  BY DEF NewMarket, Market, Params
<1>2. marketCount' \in 0..MaxMarkets /\ userList' \subseteq Users
  BY DEF AddMarket, LifecycleTypeOK, PlatformTypeOK, MarketAssumption, TrackUsers
<1>3. /\ market' \in [MarketIds -> Market \cup {None}]
      /\ conditional' \in [MarketIds -> Conditional \cup {None}]
  BY <1>1 DEF AddMarket, LifecycleTypeOK
<1> QED BY <1>2, <1>3
    DEF AddMarket, LifecycleTypeOK, PlatformTypeOK, stakeVars, disputeVars,
        historyVars

LEMMA CreationType ==
  ASSUME LifecycleTypeOK, PlatformAssumption, MarketAssumption, Creation
  PROVE  LifecycleTypeOK'
<1> USE PlatformAssumption, MarketAssumption
<1>1. CASE \E c \in Creators, p \in RootParams : CreateMarket(c, p)
  BY <1>1, AddMarketType DEF CreateMarket, MarketAssumption
<1>2. CASE \E c \in Creators, p \in ChildParams, parent \in Created, o \in Outcomes :
             CreateConditionalMarket(c, parent, o, p)
  <2>1. PICK c \in Creators, p \in ChildParams, parent \in Created, o \in Outcomes :
               CreateConditionalMarket(c, parent, o, p)
    BY <1>2
  <2> DEFINE link == [parent |-> parent, required |-> o,
                      depth |-> Depth[parent] + 1, activated |-> FALSE]
  <2>2. Depth[parent] \in 0..(MaxDepth - 1)
    BY <2>1 DEF CreateConditionalMarket, ConditionalParams
  <2>3. Depth[parent] + 1 \in Nat
    BY <2>2 DEF MarketAssumption
  <2>4. link \in Conditional
    BY <2>3, EntryTypes DEF Conditional
  <2>5. AddMarket(c, p, link)
    BY <2>1 DEF CreateConditionalMarket, ConditionalParams
  <2> QED BY <2>4, <2>5, AddMarketType DEF MarketAssumption
<1> QED BY <1>1, <1>2 DEF Creation

LEMMA EditingType ==
  ASSUME LifecycleTypeOK, MarketAssumption, Editing
  PROVE  LifecycleTypeOK'
<1> USE DEF platformVars, stakeVars, disputeVars, historyVars
<1>1. ASSUME NEW c \in Creators, NEW m \in Created, NEW fee \in CreatorFees,
             UpdateCreatorFee(c, m, fee)
      PROVE  LifecycleTypeOK'
  <2>1. [market[m] EXCEPT !.creatorFee = fee] \in Market
    BY EntryTypes, FeeEntry DEF MarketAssumption
  <2> QED BY <1>1, <2>1, EntryTypes
      DEF UpdateCreatorFee, LifecycleTypeOK, PlatformTypeOK
<1>2. ASSUME NEW c \in Creators, NEW m \in Created, NEW end \in NewEndTimes,
             ExtendEndTime(c, m, end)
      PROVE  LifecycleTypeOK'
  <2> DEFINE later == IF market[m].resolutionTime < end THEN end
                      ELSE market[m].resolutionTime
  <2>1. later \in Nat /\ end \in Nat
    BY EntryTypes DEF Market, MarketAssumption
  <2> HIDE DEF later
  <2>2. [market[m] EXCEPT !.endTime = end, !.resolutionTime = later] \in Market
    BY <2>1, EntryTypes, ExtendedEntry, Zenon
  <2> USE DEF later
  <2> QED BY <1>2, <2>2, EntryTypes
      DEF ExtendEndTime, LifecycleTypeOK, PlatformTypeOK
<1>3. ASSUME NEW c \in Closers, NEW m \in Created, CloseMarket(c, m)
      PROVE  LifecycleTypeOK'
  <2>1. [market[m] EXCEPT !.closed = TRUE] \in Market
    BY EntryTypes, ClosedEntry, Zenon
  <2> QED BY <1>3, <2>1, EntryTypes
      DEF CloseMarket, LifecycleTypeOK, PlatformTypeOK
<1> QED BY <1>1, <1>2, <1>3 DEF Editing

LEMMA StakingType ==
  ASSUME LifecycleTypeOK, MarketAssumption, Staking
  PROVE  LifecycleTypeOK'
<1>1. PICK u \in Users, m \in Created, o \in Outcomes, stake \in Stakes :
             SubmitPrediction(u, m, o, stake)
  BY DEF Staking
<1> DEFINE record == [outcome |-> o, stake |-> stake]
<1>2. stake \in Nat /\ record \in Prediction /\ m \in MarketIds
  BY EntryTypes DEF MarketAssumption, Prediction
<1>3. [market[m] EXCEPT !.pool = market[m].pool + stake,
                        !.participants = market[m].participants + 1] \in Market
  <2>1. market[m] \in Market
    BY EntryTypes
  <2>2. market[m].pool + stake \in Nat /\ market[m].participants + 1 \in Nat
    BY <1>2, <2>1 DEF Market
  <2> QED BY <2>1, <2>2, StakedEntry, Zenon
<1>4. market' \in [MarketIds -> Market \cup {None}]
  BY <1>1, <1>3 DEF SubmitPrediction, LifecycleTypeOK
<1>5. pred' \in [MarketIds -> [Users -> Prediction \cup {None}]]
  BY <1>1, <1>2 DEF SubmitPrediction, LifecycleTypeOK
<1>6. predictors' \in [MarketIds -> Seq(Users)]
  BY <1>1, <1>2 DEF SubmitPrediction, LifecycleTypeOK
<1>7. userList' \subseteq Users
  BY <1>1 DEF SubmitPrediction, TrackUsers, LifecycleTypeOK, PlatformTypeOK
<1> QED BY <1>1, <1>4, <1>5, <1>6, <1>7
    DEF SubmitPrediction, LifecycleTypeOK, PlatformTypeOK, disputeVars, historyVars

LEMMA CancelMarketType ==
  ASSUME LifecycleTypeOK, NEW m \in Created, CancelMarket(m)
  PROVE  LifecycleTypeOK'
<1>1. {m} \cup LiveOnes(Children(m)) \subseteq Created
  BY DEF LiveOnes, Children
<1>2. market' \in [MarketIds -> Market \cup {None}]
  BY <1>1, WithCancelledType DEF CancelMarket
<1>3. conditional' \in [MarketIds -> Conditional \cup {None}]
  BY WithActivatedType DEF CancelMarket
<1>4. settlements' \in [MarketIds -> [Users -> Nat]]
  BY PayRefundsType DEF CancelMarket
<1> QED BY <1>2, <1>3, <1>4
    DEF CancelMarket, LifecycleTypeOK, PlatformTypeOK, platformVars, stakeVars,
        disputeVars

LEMMA ResolveMarketType ==
  ASSUME LifecycleTypeOK, NEW m \in Created, NEW o \in Outcomes,
         ResolveMarket(m, o)
  PROVE  LifecycleTypeOK'
<1> DEFINE chosen   == {c \in Children(m) : conditional[c].required = o}
           kids     == LiveOnes(Children(m) \ chosen)
           resolved == [market[m] EXCEPT !.resolved = TRUE, !.outcome = o,
                                         !.resolvedAt = now]
<1>1. kids \subseteq Created
  BY DEF LiveOnes, Children
<1>2. resolved \in Market
  <2>1. market[m] \in Market /\ now \in Nat /\ o \in Outcomes \cup {None}
    BY EntryTypes DEF LifecycleTypeOK, PlatformTypeOK
  <2> QED BY <2>1 DEF Market
<1>3. WithCancelled(kids) \in [MarketIds -> Market \cup {None}]
  BY <1>1, WithCancelledType
<1>4. market' = [WithCancelled(kids) EXCEPT ![m] = resolved]
  BY DEF ResolveMarket
<1>5. market' \in [MarketIds -> Market \cup {None}]
  BY <1>2, <1>3, <1>4
<1>6. conditional' \in [MarketIds -> Conditional \cup {None}]
  BY WithActivatedType DEF ResolveMarket
<1>7. settlements' \in [MarketIds -> [Users -> Nat]]
  BY PayRefundsType DEF ResolveMarket
<1> QED BY <1>5, <1>6, <1>7
    DEF ResolveMarket, LifecycleTypeOK, PlatformTypeOK, platformVars, stakeVars,
        disputeVars

LEMMA PayOutType ==
  ASSUME LifecycleTypeOK, NEW m \in Created, NEW S \in SUBSET Users,
         NEW winning, PayOut(m, S, winning)
  PROVE  LifecycleTypeOK'
<1>1. m \in MarketIds
  BY EntryTypes
<1>2. pred' \in [MarketIds -> [Users -> Prediction \cup {None}]]
  BY <1>1 DEF PayOut, MarkClaimed, LifecycleTypeOK
<1>3. claimed' \in [MarketIds -> [Users -> Prediction \cup {None}]]
  <2> DEFINE row == [u \in Users |-> IF u \in S THEN pred[m][u] ELSE claimed[m][u]]
  <2>1. row \in [Users -> Prediction \cup {None}]
    BY <1>1 DEF LifecycleTypeOK
  <2>2. claimed' = [claimed EXCEPT ![m] = row]
    BY Zenon DEF PayOut, MarkClaimed
  <2> QED BY <2>1, <2>2 DEF LifecycleTypeOK
<1>4. settlements' \in [MarketIds -> [Users -> Nat]]
  <2> DEFINE row == [u \in Users |-> settlements[m][u] + IF u \in S THEN 1 ELSE 0]
  <2>1. settlements[m] \in [Users -> Nat]
    BY <1>1 DEF LifecycleTypeOK
  <2>2. row \in [Users -> Nat]
    BY <2>1
  <2>3. settlements' = [settlements EXCEPT ![m] = row]
    BY Zenon DEF PayOut, MarkClaimed
  <2> QED BY <2>2, <2>3 DEF LifecycleTypeOK
<1>5. userList' \subseteq Users
  BY DEF PayOut, TrackUsers, LifecycleTypeOK, PlatformTypeOK
<1> QED BY <1>2, <1>3, <1>4, <1>5
    DEF PayOut, LifecycleTypeOK, PlatformTypeOK, marketVars, disputeVars

LEMMA ResolveDisputeType ==
  ASSUME LifecycleTypeOK, NEW m \in Disputed, NEW uphold \in BOOLEAN,
         m \in Created, ResolveDispute(m, uphold)
  PROVE  LifecycleTypeOK'
<1>1. market' \in [MarketIds -> Market \cup {None}]
  <2>1. CASE uphold
    <3>1. [market[m] EXCEPT !.resolved = FALSE, !.outcome = None,
                            !.resolvedAt = 0] \in Market
      BY EntryTypes, ReopenedEntry, Zenon
    <3>2. market \in [MarketIds -> Market \cup {None}] /\ m \in MarketIds
      BY DEF LifecycleTypeOK, Disputed
    <3>3. market' = [market EXCEPT ![m].resolved = FALSE, ![m].outcome = None,
                                   ![m].resolvedAt = 0]
      BY <2>1 DEF ResolveDispute, UpholdDispute
    <3>4. market' = [market EXCEPT ![m] = [market[m] EXCEPT !.resolved = FALSE,
                                       !.outcome = None, !.resolvedAt = 0]]
      BY <3>2, <3>3
    <3> QED BY <3>1, <3>2, <3>4
  <2>2. CASE ~uphold
    BY <2>2 DEF ResolveDispute, RejectDispute, LifecycleTypeOK
  <2> QED BY <2>1, <2>2
<1>2. disputeCount' \in Nat
  BY DEF ResolveDispute, Positive, LifecycleTypeOK
<1>3. /\ dispute' \in [MarketIds -> Dispute \cup {None}]
      /\ activeDisputes' \subseteq MarketIds
  BY DEF ResolveDispute, LifecycleTypeOK
<1> QED BY <1>1, <1>2, <1>3
    DEF ResolveDispute, LifecycleTypeOK, PlatformTypeOK, platformVars, stakeVars,
        historyVars

LEMMA RaiseDisputeType ==
  ASSUME LifecycleTypeOK, MarketAssumption, NEW u \in Users, NEW m \in Created,
         NEW bond \in Bonds, RaiseDispute(u, m, bond)
  PROVE  LifecycleTypeOK'
<1> DEFINE record == [disputer |-> u, bond |-> bond, filedAt |-> now]
<1>1. record \in Dispute /\ m \in MarketIds
  BY EntryTypes DEF Dispute, MarketAssumption, LifecycleTypeOK, PlatformTypeOK
<1>2. dispute' \in [MarketIds -> Dispute \cup {None}]
  BY <1>1 DEF RaiseDispute, LifecycleTypeOK
<1>3. disputeCount' \in Nat /\ activeDisputes' \subseteq MarketIds
  BY <1>1 DEF RaiseDispute, LifecycleTypeOK
<1> QED BY <1>2, <1>3
    DEF RaiseDispute, LifecycleTypeOK, PlatformTypeOK, platformVars, marketVars,
        stakeVars, historyVars

LEMMA PlatformStepType ==
  ASSUME LifecycleTypeOK, PlatformAssumption, PlatformStep
  PROVE  LifecycleTypeOK'
<1>1. PlatformTypeOK'
  <2>1. now' \in Nat /\ userList' \subseteq Users
    BY DEF PlatformStep, Tick, ConfigNext, SetPaused, UpdateProtocolFee,
           TransferAdmin, UpdateOracle, LifecycleTypeOK, PlatformTypeOK
  <2>2. cfg' \in Config
    <3> USE DEF LifecycleTypeOK, PlatformTypeOK, Config, Accounts,
                PlatformAssumption
    <3>1. ASSUME NEW p \in PauseValues, SetPaused(p) PROVE cfg' \in Config
      <4>1. p \in BOOLEAN
        OBVIOUS
      <4> QED BY <3>1, <4>1, Zenon DEF SetPaused
    <3>2. ASSUME NEW fee \in ProtocolFees, UpdateProtocolFee(fee)
          PROVE  cfg' \in Config
      BY <3>2 DEF UpdateProtocolFee
    <3>3. ASSUME NEW a \in NewAdmins, TransferAdmin(a) PROVE cfg' \in Config
      BY <3>3 DEF TransferAdmin
    <3>4. ASSUME NEW a \in NewOracles, UpdateOracle(a) PROVE cfg' \in Config
      BY <3>4 DEF UpdateOracle
    <3>5. CASE Tick
      BY <3>5 DEF Tick
    <3> QED BY <3>1, <3>2, <3>3, <3>4, <3>5 DEF PlatformStep, ConfigNext
  <2> QED BY <2>1, <2>2 DEF PlatformTypeOK
<1> QED BY <1>1
    DEF PlatformStep, LifecycleTypeOK, marketVars, stakeVars, disputeVars,
        historyVars

LEMMA PayingType ==
  ASSUME LifecycleTypeOK, NEW m \in Created
  PROVE  /\ \A u \in Users : ClaimPayout(u, m) => LifecycleTypeOK'
         /\ BatchDistribute(m) => LifecycleTypeOK'
<1>1. ASSUME NEW u \in Users, ClaimPayout(u, m) PROVE LifecycleTypeOK'
  <2> DEFINE winning == StakesOf(pred[m], Winners(m, pred))
                          + StakesOf(claimed[m], Winners(m, claimed))
  <2>1. PayOut(m, {u}, winning)
    BY <1>1 DEF ClaimPayout
  <2> QED BY <2>1, PayOutType
<1>2. ASSUME BatchDistribute(m) PROVE LifecycleTypeOK'
  <2> DEFINE unpaid      == Winners(m, pred)
             earlier(u)  == {v \in unpaid : Position(m, v) < Position(m, u)}
             batch       == {u \in unpaid : Cardinality(earlier(u)) < MaxBatch}
  <2>1. PayOut(m, batch, StakesOf(pred[m], unpaid))
    BY <1>2, Zenon DEF BatchDistribute
  <2>2. batch \subseteq Users
    BY DEF Winners
  <2> HIDE DEF batch
  <2> QED BY <2>1, <2>2, PayOutType
<1> QED BY <1>1, <1>2

LEMMA ExpireClaimedType ==
  ASSUME LifecycleTypeOK, NEW m \in Created, NEW u \in Users, ExpireClaimed(m, u)
  PROVE  LifecycleTypeOK'
<1>1. claimed' \in [MarketIds -> [Users -> Prediction \cup {None}]]
  BY EntryTypes DEF ExpireClaimed, LifecycleTypeOK
<1> QED BY <1>1
    DEF ExpireClaimed, LifecycleTypeOK, PlatformTypeOK, platformVars, marketVars,
        disputeVars, historyVars

LEMMA HousekeepingType ==
  ASSUME LifecycleTypeOK, Housekeeping
  PROVE  LifecycleTypeOK'
<1> USE DEF LifecycleTypeOK, PlatformTypeOK, platformVars, marketVars, stakeVars,
            disputeVars, historyVars
<1>1. ASSUME NEW to \in Users, NEW amount \in Withdrawals,
             WithdrawTreasury(to, amount)
      PROVE  LifecycleTypeOK'
  BY <1>1 DEF WithdrawTreasury
<1>2. ASSUME NEW c \in Resettable, ResetCreatorStats(c)
      PROVE  LifecycleTypeOK'
  BY <1>2 DEF ResetCreatorStats
<1> QED BY <1>1, <1>2 DEF Housekeeping

LEMMA DisputingType ==
  ASSUME LifecycleTypeOK, MarketAssumption, Disputed \subseteq Created, Disputing
  PROVE  LifecycleTypeOK'
  BY RaiseDisputeType, ResolveDisputeType DEF Disputing

-----------------------------------------------------------------------------
(***************************************************************************)
(* The inductive invariant.  A dispute stays inside the window of the      *)
(* resolution in force because resolutions lie in the past; a prediction   *)
(* has one record because claims only happen once a market has ended, and  *)
(* an ended market never takes a stake again: resolved markets have ended, *)
(* and the end of an ended market can no longer be moved.                  *)
(***************************************************************************)
Bookkeeping ==
  /\ \A m \in MarketIds : m > marketCount => market[m] = None
  /\ \A m \in Created :
       /\ market[m].endTime <= market[m].resolutionTime
       /\ market[m].resolved => /\ market[m].resolutionTime <= now
                                /\ market[m].resolvedAt <= now
  /\ \A m \in MarketIds, u \in Users :
       claimed[m][u] # None => m \in Created /\ market[m].endTime <= now

LifecycleInv ==
  /\ LifecycleTypeOK
  /\ Bookkeeping
  /\ DisputeIndexConsistent
  /\ DisputedIsResolved
  /\ OneRecord

(* What every step does to the timetable of a market ... *)
TimesKept(m) ==
  /\ market'[m] # None
  /\ market'[m].endTime <= market'[m].resolutionTime
  /\ market[m].endTime <= now => market'[m].endTime = market[m].endTime

Fresh(m) ==
  /\ m = marketCount + 1
  /\ marketCount' = m
  /\ ~market'[m].resolved
  /\ market'[m].endTime <= market'[m].resolutionTime

Timetable ==
  /\ now \in Nat
  /\ now' \in Nat
  /\ now <= now'
  /\ marketCount \in Nat
  /\ marketCount' \in Nat
  /\ marketCount <= marketCount'
  /\ \A m \in MarketIds :
       IF m \in Created THEN TimesKept(m) ELSE market'[m] = None \/ Fresh(m)

(* ... and every step but an upheld dispute to its result. *)
ResultKept(m) ==
  IF market[m].resolved
  THEN /\ market'[m].resolved
       /\ market'[m].resolvedAt = market[m].resolvedAt
       /\ market'[m].disputeWindow = market[m].disputeWindow
       /\ market'[m].resolutionTime = market[m].resolutionTime
  ELSE market'[m].resolved => /\ market'[m].resolutionTime <= now
                              /\ market'[m].resolvedAt = now

Frame == Timetable /\ \A m \in Created : ResultKept(m)

LEMMA MarketFacts ==
  ASSUME LifecycleInv
  PROVE  /\ Created \subseteq MarketIds
         /\ MarketIds \subseteq Nat
         /\ now \in Nat
         /\ marketCount \in 0..MaxMarkets
         /\ \A m \in MarketIds : m \in Created <=> market[m] # None
         /\ \A m \in Created :
              /\ market[m] \in Market
              /\ market[m].endTime \in Nat
              /\ market[m].resolutionTime \in Nat
              /\ market[m].resolvedAt \in Nat
              /\ market[m].disputeWindow \in Nat
              /\ market[m].endTime <= market[m].resolutionTime
              /\ market[m].resolved => market[m].resolutionTime <= now
<1>1. /\ Created \subseteq MarketIds
      /\ MarketIds \subseteq Nat
      /\ \A m \in MarketIds : m \in Created <=> market[m] # None
  BY DEF Created, MarketIds
<1>2. now \in Nat /\ marketCount \in 0..MaxMarkets
  BY DEF LifecycleInv, LifecycleTypeOK, PlatformTypeOK
<1>3. ASSUME NEW m \in Created
      PROVE  /\ market[m] \in Market
             /\ market[m].endTime \in Nat
             /\ market[m].resolutionTime \in Nat
             /\ market[m].resolvedAt \in Nat
             /\ market[m].disputeWindow \in Nat
  BY EntryTypes DEF LifecycleInv, Market
<1>4. ASSUME NEW m \in Created
      PROVE  /\ market[m].endTime <= market[m].resolutionTime
             /\ market[m].resolved => market[m].resolutionTime <= now
  BY DEF LifecycleInv, Bookkeeping
<1> QED BY <1>1, <1>2, <1>3, <1>4

LEMMA FrameSame ==
  ASSUME LifecycleInv, UNCHANGED <<marketCount, market>>, now' \in Nat, now <= now'
  PROVE  Frame
  BY MarketFacts DEF Frame, Timetable, TimesKept, Fresh, ResultKept, LifecycleInv,
                     LifecycleTypeOK

LEMMA FrameAdd ==
  ASSUME LifecycleInv, PlatformAssumption, MarketAssumption,
         NEW c \in Users, NEW p \in Params, NEW link, AddMarket(c, p, link)
  PROVE  Frame
<1> DEFINE id == marketCount + 1
<1>1. /\ id \in MarketIds
      /\ market[id] = None
      /\ id \notin Created
  BY DEF AddMarket, LifecycleInv, LifecycleTypeOK, Bookkeeping, MarketIds, Created,
         MarketAssumption
<1>2. market' = [market EXCEPT ![id] = NewMarket(c, p)]
  BY DEF AddMarket
<1>3. market'[id] = NewMarket(c, p)
  BY <1>1, <1>2 DEF LifecycleInv, LifecycleTypeOK
<1>4. Fresh(id)
  BY <1>3 DEF Fresh, AddMarket, NewMarket, ValidParams, Params
<1>5. \A m \in MarketIds \ {id} : market'[m] = market[m]
  BY <1>2 DEF LifecycleInv, LifecycleTypeOK
<1>6. \A m \in Created : TimesKept(m) /\ ResultKept(m)
  BY <1>1, <1>5, MarketFacts DEF TimesKept, ResultKept
<1>7. marketCount' = id /\ now' = now
  BY DEF AddMarket
<1> QED BY <1>1, <1>4, <1>5, <1>6, <1>7, MarketFacts
    DEF Frame, Timetable, Created

(* Steps that touch neither the timetable nor the result of a market.       *)
SameResult(m) ==
  /\ market'[m] # None
  /\ market'[m].endTime = market[m].endTime
  /\ market'[m].resolutionTime = market[m].resolutionTime
  /\ market'[m].disputeWindow = market[m].disputeWindow
  /\ market'[m].resolved = market[m].resolved
  /\ market'[m].resolvedAt = market[m].resolvedAt

LEMMA FrameSameResult ==
  ASSUME LifecycleInv, UNCHANGED <<now, marketCount>>,
         \A n \in MarketIds : IF n \in Created THEN SameResult(n)
                              ELSE market'[n] = None
  PROVE  Frame
  BY MarketFacts DEF Frame, Timetable, TimesKept, ResultKept, SameResult

LEMMA FrameUpdate ==
  ASSUME LifecycleInv, MarketAssumption, UNCHANGED <<now, marketCount>>,
         NEW m \in Created, NEW r \in Market, market' = [market EXCEPT ![m] = r],
         SameTimes(r, market[m]), r.resolved = market[m].resolved,
         r.resolvedAt = market[m].resolvedAt
  PROVE  Frame
<1>1. r # None /\ m \in MarketIds
  BY MarketFacts DEF MarketAssumption
<1>2. \A n \in MarketIds : market'[n] = IF n = m THEN r ELSE market[n]
  BY <1>1 DEF LifecycleInv, LifecycleTypeOK
<1> QED BY <1>1, <1>2, MarketFacts, FrameSameResult DEF SameResult, SameTimes

LEMMA FrameEdit ==
  ASSUME LifecycleInv, MarketAssumption, Editing
  PROVE  Frame
<1>1. ASSUME NEW c \in Creators, NEW m \in Created, NEW fee \in CreatorFees,
             UpdateCreatorFee(c, m, fee)
      PROVE  Frame
  <2> DEFINE r == [market[m] EXCEPT !.creatorFee = fee]
  <2>1. market[m] \in Market
    BY MarketFacts
  <2>2. /\ r \in Market /\ SameTimes(r, market[m])
        /\ r.resolved = market[m].resolved /\ r.resolvedAt = market[m].resolvedAt
    BY <2>1, FeeEntry DEF MarketAssumption
  <2>3. market' = [market EXCEPT ![m] = r] /\ UNCHANGED <<now, marketCount>>
    BY <1>1 DEF UpdateCreatorFee, platformVars
  <2> QED BY <2>2, <2>3, FrameUpdate
<1>2. ASSUME NEW c \in Closers, NEW m \in Created, CloseMarket(c, m)
      PROVE  Frame
  <2> DEFINE r == [market[m] EXCEPT !.closed = TRUE]
  <2>1. market[m] \in Market
    BY MarketFacts
  <2>2. /\ r \in Market /\ SameTimes(r, market[m])
        /\ r.resolved = market[m].resolved /\ r.resolvedAt = market[m].resolvedAt
    BY <2>1, ClosedEntry, Zenon
  <2>3. market' = [market EXCEPT ![m] = r] /\ UNCHANGED <<now, marketCount>>
    BY <1>2 DEF CloseMarket, platformVars
  <2> QED BY <2>2, <2>3, FrameUpdate
<1>3. ASSUME NEW c \in Creators, NEW m \in Created, NEW end \in NewEndTimes,
             ExtendEndTime(c, m, end)
      PROVE  Frame
  <2> DEFINE later == IF market[m].resolutionTime < end THEN end
                      ELSE market[m].resolutionTime
             r == [market[m] EXCEPT !.endTime = end, !.resolutionTime = later]
  <2>0. end \in Nat /\ market[m].resolutionTime \in Nat
    BY MarketFacts DEF MarketAssumption
  <2>1. later \in Nat /\ end \in Nat /\ end <= later
    BY <2>0
  <2>2. r \in Market /\ r.endTime = end /\ r.resolutionTime = later
        /\ r.resolved = market[m].resolved
    <3> DEFINE q == market[m]
    <3>1. q \in Market /\ end \in Nat /\ later \in Nat
      BY <2>1, MarketFacts
    <3> HIDE DEF later, q
    <3> DEFINE e == [q EXCEPT !.endTime = end, !.resolutionTime = later]
    <3>2. e \in Market
      BY <3>1, ExtendedEntry, Zenon
    <3>3. e.endTime = end /\ e.resolutionTime = later /\ e.resolved = q.resolved
      BY <3>1 DEF Market
    <3> QED BY <3>2, <3>3 DEF q
  <2>3. /\ now < market[m].endTime
        /\ ~market[m].resolved
        /\ market' = [market EXCEPT ![m] = r]
        /\ UNCHANGED <<now, marketCount>>
    BY <1>3 DEF ExtendEndTime, EditableBy, Live, platformVars
  <2>4. \A n \in MarketIds : market'[n] = IF n = m THEN r ELSE market[n]
    BY <2>3, MarketFacts DEF LifecycleInv, LifecycleTypeOK
  <2>5. r # None
    BY <2>2 DEF MarketAssumption
  <2> HIDE DEF r, later
  <2>6. TimesKept(m) /\ ResultKept(m)
    BY <2>1, <2>2, <2>3, <2>4, <2>5, MarketFacts DEF TimesKept, ResultKept
  <2>7. \A n \in Created \ {m} : TimesKept(n) /\ ResultKept(n)
    BY <2>4, MarketFacts DEF TimesKept, ResultKept
  <2> QED BY <2>3, <2>4, <2>6, <2>7, MarketFacts DEF Frame, Timetable
<1> QED BY <1>1, <1>2, <1>3 DEF Editing

LEMMA FrameStake ==
  ASSUME LifecycleInv, MarketAssumption, Staking
  PROVE  Frame
<1>1. PICK u \in Users, m \in Created, o \in Outcomes, stake \in Stakes :
             SubmitPrediction(u, m, o, stake)
  BY DEF Staking
<1> DEFINE q == market[m]
           pool == q.pool + stake
           n == q.participants + 1
           r == [q EXCEPT !.pool = pool, !.participants = n]
<1>2. q \in Market
  BY MarketFacts
<1>3. pool \in Nat /\ n \in Nat
  BY <1>2 DEF Market, MarketAssumption
<1>4. /\ r \in Market /\ SameTimes(r, market[m])
      /\ r.resolved = market[m].resolved /\ r.resolvedAt = market[m].resolvedAt
  <2> HIDE DEF q, pool, n
  <2>1. /\ r \in Market /\ SameTimes(r, q)
        /\ r.resolved = q.resolved /\ r.resolvedAt = q.resolvedAt
    BY <1>2, <1>3, StakedEntry, Zenon
  <2> QED BY <2>1 DEF q
<1>5. market' = [market EXCEPT ![m] = r] /\ UNCHANGED <<now, marketCount>>
  BY <1>1 DEF SubmitPrediction
<1> QED BY <1>4, <1>5, FrameUpdate

LEMMA WithCancelledKeepsResults ==
  ASSUME LifecycleInv, MarketAssumption, NEW S \in SUBSET Created,
         NEW n \in Created
  PROVE  /\ WithCancelled(S)[n] # None
         /\ WithCancelled(S)[n].endTime = market[n].endTime
         /\ WithCancelled(S)[n].resolutionTime = market[n].resolutionTime
         /\ WithCancelled(S)[n].disputeWindow = market[n].disputeWindow
         /\ WithCancelled(S)[n].resolved = market[n].resolved
         /\ WithCancelled(S)[n].resolvedAt = market[n].resolvedAt
<1> DEFINE r == [market[n] EXCEPT !.cancelled = TRUE]
<1>1. r \in Market /\ r # None
  <2>1. market[n] \in Market
    BY MarketFacts
  <2>2. r \in Market
    BY <2>1 DEF Market
  <2> QED BY <2>2, Zenon DEF MarketAssumption
<1>2. /\ r.endTime = market[n].endTime
      /\ r.resolutionTime = market[n].resolutionTime
      /\ r.disputeWindow = market[n].disputeWindow
      /\ r.resolved = market[n].resolved
      /\ r.resolvedAt = market[n].resolvedAt
  BY MarketFacts DEF Market
<1>3. WithCancelled(S)[n] = IF n \in S THEN r ELSE market[n]
  BY MarketFacts DEF WithCancelled
<1> HIDE DEF r
<1> QED BY <1>1, <1>2, <1>3, MarketFacts

LEMMA FrameCancel ==
  ASSUME LifecycleInv, MarketAssumption, NEW m \in Created, CancelMarket(m)
  PROVE  Frame
<1> DEFINE S == {m} \cup LiveOnes(Children(m))
<1>1. S \subseteq Created
  BY DEF LiveOnes, Children
<1>2. market' = WithCancelled(S) /\ UNCHANGED <<now, marketCount>>
  BY DEF CancelMarket, platformVars
<1>3. \A n \in MarketIds \ Created : WithCancelled(S)[n] = None
  BY <1>1, MarketFacts DEF WithCancelled
<1> HIDE DEF S
<1>4. \A n \in Created : SameResult(n)
  BY <1>1, <1>2, WithCancelledKeepsResults DEF SameResult
<1> QED BY <1>2, <1>3, <1>4, FrameSameResult

LEMMA FrameResolve ==
  ASSUME LifecycleInv, MarketAssumption, NEW m \in Created, NEW o \in Outcomes,
         ResolveMarket(m, o)
  PROVE  Frame
<1> DEFINE chosen == {c \in Children(m) : conditional[c].required = o}
           kids   == LiveOnes(Children(m) \ chosen)
           r      == [market[m] EXCEPT !.resolved = TRUE, !.outcome = o,
                                       !.resolvedAt = now]
<1>1. kids \subseteq Created
  BY DEF LiveOnes, Children
<1>2. /\ market' = [WithCancelled(kids) EXCEPT ![m] = r]
      /\ UNCHANGED <<now, marketCount>>
      /\ ~market[m].resolved
      /\ market[m].resolutionTime <= now
  BY MarketFacts DEF ResolveMarket, Resolvable, platformVars
<1>3. /\ r \in Market
      /\ r.resolved
      /\ r.resolvedAt = now
      /\ r.endTime = market[m].endTime
      /\ r.resolutionTime = market[m].resolutionTime
  <2>1. market[m] \in Market /\ now \in Nat /\ o \in Outcomes \cup {None}
    BY MarketFacts
  <2> QED BY <2>1 DEF Market
<1>4. r # None
  BY <1>3 DEF MarketAssumption
<1>5. \A n \in MarketIds :
        market'[n] = IF n = m THEN r ELSE WithCancelled(kids)[n]
  BY <1>2 DEF WithCancelled
<1>6. \A n \in MarketIds \ Created : WithCancelled(kids)[n] = None
  BY <1>1, MarketFacts DEF WithCancelled
<1> HIDE DEF kids, r
<1>7. TimesKept(m) /\ ResultKept(m)
  BY <1>2, <1>3, <1>4, <1>5, MarketFacts DEF TimesKept, ResultKept
<1>8. \A n \in Created \ {m} : TimesKept(n) /\ ResultKept(n)
  BY <1>1, <1>5, WithCancelledKeepsResults, MarketFacts DEF TimesKept, ResultKept
<1> QED BY <1>2, <1>5, <1>6, <1>7, <1>8, MarketFacts DEF Frame, Timetable

-----------------------------------------------------------------------------
(* The parts of the invariant, from what a step does to the markets. *)

ClaimsFollowResults ==
  \A m \in MarketIds, u \in Users :
    claimed'[m][u] # None =>
      claimed[m][u] # None \/ (m \in Created /\ market[m].resolved)

LEMMA BookkeepingStep ==
  ASSUME LifecycleInv, LifecycleTypeOK', Timetable, ClaimsFollowResults,
         \A m \in Created : ResultKept(m) \/ ~market'[m].resolved
  PROVE  Bookkeeping'
<1>1. ASSUME NEW m \in MarketIds, m > marketCount' PROVE market'[m] = None
  <2>1. m > marketCount /\ m \notin Created
    BY <1>1, MarketFacts DEF Timetable, LifecycleInv, Bookkeeping
  <2>2. ~Fresh(m)
    BY <1>1 DEF Fresh, Timetable
  <2> QED BY <2>1, <2>2 DEF Timetable
<1>2. ASSUME NEW m \in MarketIds, market'[m] # None
      PROVE  /\ market'[m].endTime <= market'[m].resolutionTime
             /\ market'[m].resolved => /\ market'[m].resolutionTime <= now'
                                       /\ market'[m].resolvedAt <= now'
  <2>1. CASE m \in Created
    <3>1. TimesKept(m)
      BY <2>1 DEF Timetable
    <3>2. CASE ~market'[m].resolved
      BY <3>1, <3>2 DEF TimesKept
    <3>3. CASE market'[m].resolved /\ ResultKept(m)
      <4>1. /\ market'[m].resolutionTime \in Nat /\ market'[m].resolutionTime <= now
            /\ market'[m].resolvedAt \in Nat /\ market'[m].resolvedAt <= now
        <5>1. /\ market[m].resolved => market[m].resolvedAt <= now
              /\ market'[m].resolutionTime \in Nat
          BY <1>2, <2>1, EntryTypes DEF LifecycleInv, Bookkeeping, LifecycleTypeOK, Market
        <5> QED BY <2>1, <3>3, <5>1, MarketFacts DEF ResultKept
      <4> QED BY <3>1, <4>1 DEF TimesKept, Timetable
    <3> QED BY <2>1, <3>2, <3>3
  <2>2. CASE m \notin Created
    BY <1>2, <2>2 DEF Timetable, Fresh
  <2> QED BY <2>1, <2>2
<1>3. ASSUME NEW m \in MarketIds, NEW u \in Users, claimed'[m][u] # None
      PROVE  market'[m] # None /\ market'[m].endTime <= now'
  <2>1. m \in Created /\ market[m].endTime <= now
    BY <1>3, MarketFacts DEF ClaimsFollowResults, LifecycleInv, Bookkeeping
  <2> QED BY <2>1, MarketFacts DEF Timetable, TimesKept
<1> QED BY <1>1, <1>2, <1>3 DEF Bookkeeping, Created, MarketIds

LEMMA DisputesUntouched ==
  ASSUME LifecycleInv, Frame, UNCHANGED disputeVars
  PROVE  DisputeIndexConsistent' /\ DisputedIsResolved'
<1>1. Disputed' = Disputed
  BY DEF disputeVars, Disputed
<1>2. DisputeIndexConsistent'
  BY <1>1 DEF LifecycleInv, DisputeIndexConsistent, disputeVars
<1>3. ASSUME NEW m \in Disputed
      PROVE  /\ m \in Created'
             /\ market'[m].resolved
             /\ dispute'[m].filedAt \in market'[m].resolvedAt ..
                   market'[m].resolvedAt + market'[m].disputeWindow
  <2>1. /\ m \in Created
        /\ market[m].resolved
        /\ dispute[m].filedAt \in market[m].resolvedAt ..
              market[m].resolvedAt + market[m].disputeWindow
    BY DEF LifecycleInv, DisputedIsResolved
  <2>2. m \in MarketIds /\ TimesKept(m) /\ ResultKept(m)
    BY <2>1, MarketFacts DEF Frame, Timetable
  <2> QED BY <2>1, <2>2 DEF TimesKept, ResultKept, Created, disputeVars
<1> QED BY <1>1, <1>2, <1>3 DEF DisputedIsResolved

LEMMA DisputedFinite ==
  ASSUME LifecycleInv
  PROVE  IsFiniteSet(Disputed) /\ Cardinality(Disputed) \in Nat
<1>1. MaxMarkets \in Int /\ IsFiniteSet(MarketIds)
  BY MarketAssumption, FS_Interval DEF MarketAssumption, MarketIds
<1> QED BY <1>1, FS_Subset, FS_CardinalityType DEF Disputed

LEMMA DisputeRaised ==
  ASSUME LifecycleInv, MarketAssumption, NEW u \in Users, NEW m \in Created,
         NEW bond \in Bonds, RaiseDispute(u, m, bond)
  PROVE  DisputeIndexConsistent' /\ DisputedIsResolved'
<1> DEFINE record == [disputer |-> u, bond |-> bond, filedAt |-> now]
<1>1. /\ m \in MarketIds \ Disputed
      /\ market[m].resolved
      /\ now <= market[m].resolvedAt + market[m].disputeWindow
      /\ dispute' = [dispute EXCEPT ![m] = record]
      /\ activeDisputes' = activeDisputes \cup {m}
      /\ disputeCount' = disputeCount + 1
      /\ market' = market
  BY MarketFacts DEF RaiseDispute, InWindow, Disputed, marketVars
<1>2. record \in Dispute /\ record # None /\ record.filedAt = now
  <2>1. bond \in Nat /\ now \in Nat
    BY MarketFacts DEF MarketAssumption
  <2>2. record \in Dispute
    BY <2>1 DEF Dispute
  <2> QED BY <2>2 DEF MarketAssumption
<1> HIDE DEF record
<1>3. \A n \in MarketIds : dispute'[n] = IF n = m THEN record ELSE dispute[n]
  BY <1>1 DEF LifecycleInv, LifecycleTypeOK
<1>4. Disputed' = Disputed \cup {m}
  BY <1>1, <1>2, <1>3 DEF Disputed
<1>5. DisputeIndexConsistent'
  BY <1>1, <1>4, DisputedFinite, FS_AddElement
    DEF DisputeIndexConsistent, LifecycleInv
<1>6. ASSUME NEW n \in Disputed'
      PROVE  /\ n \in Created'
             /\ market'[n].resolved
             /\ dispute'[n].filedAt \in market'[n].resolvedAt ..
                   market'[n].resolvedAt + market'[n].disputeWindow
  <2>1. CASE n = m
    <3>1. market[m].resolvedAt <= now
      BY <1>1 DEF LifecycleInv, Bookkeeping
    <3> QED BY <1>1, <1>2, <1>3, <2>1, <3>1, MarketFacts DEF Created
  <2>2. CASE n # m
    <3>1. n \in Disputed /\ n \in MarketIds
      BY <1>4, <2>2 DEF Disputed
    <3> QED BY <1>1, <1>3, <2>2, <3>1 DEF LifecycleInv, DisputedIsResolved, Created
  <2> QED BY <2>1, <2>2
<1> QED BY <1>5, <1>6 DEF DisputedIsResolved

LEMMA DisputeResolved ==
  ASSUME LifecycleInv, MarketAssumption, NEW m \in Disputed,
         NEW uphold \in BOOLEAN, ResolveDispute(m, uphold)
  PROVE  DisputeIndexConsistent' /\ DisputedIsResolved'
<1>1. /\ m \in MarketIds /\ m \in Created
      /\ dispute' = [dispute EXCEPT ![m] = None]
      /\ activeDisputes' = activeDisputes \ {m}
      /\ disputeCount' = Positive(disputeCount - 1)
  BY DEF ResolveDispute, Disputed, LifecycleInv, DisputedIsResolved
<1>2. \A n \in MarketIds : dispute'[n] = IF n = m THEN None ELSE dispute[n]
  BY <1>1 DEF LifecycleInv, LifecycleTypeOK
<1>3. Disputed' = Disputed \ {m}
  BY <1>1, <1>2 DEF Disputed
<1>4. \A n \in MarketIds \ {m} : market'[n] = market[n]
  BY DEF ResolveDispute, UpholdDispute, RejectDispute, LifecycleInv, LifecycleTypeOK
<1>5. DisputeIndexConsistent'
  <2>1. Cardinality(Disputed \ {m}) = Cardinality(Disputed) - 1
        /\ Cardinality(Disputed \ {m}) \in Nat
    BY DisputedFinite, FS_RemoveElement, FS_CardinalityType
  <2> QED BY <1>1, <1>3, <2>1, DisputedFinite
      DEF DisputeIndexConsistent, LifecycleInv, Positive
<1>6. \A n \in Disputed' :
        /\ n \in Created'
        /\ market'[n].resolved
        /\ dispute'[n].filedAt \in market'[n].resolvedAt ..
              market'[n].resolvedAt + market'[n].disputeWindow
  <2>1. ASSUME NEW n \in Disputed \ {m}
        PROVE  n \in MarketIds /\ dispute'[n] = dispute[n] /\ market'[n] = market[n]
    BY <1>2, <1>4 DEF Disputed
  <2> QED BY <1>3, <2>1 DEF LifecycleInv, DisputedIsResolved, Created
<1> QED BY <1>5, <1>6 DEF DisputedIsResolved

LEMMA FrameUphold ==
  ASSUME LifecycleInv, MarketAssumption, NEW m \in Disputed,
         NEW uphold \in BOOLEAN, ResolveDispute(m, uphold)
  PROVE  /\ Timetable
         /\ \A n \in Created : ResultKept(n) \/ ~market'[n].resolved
<1>1. m \in Created /\ UNCHANGED <<now, marketCount>>
  BY DEF ResolveDispute, LifecycleInv, DisputedIsResolved, platformVars
<1>2. CASE ~uphold
  <2>1. UNCHANGED market
    BY <1>2 DEF ResolveDispute, RejectDispute
  <2> QED BY <1>1, <2>1, MarketFacts, FrameSame DEF Frame
<1>3. CASE uphold
  <2> DEFINE r == [market[m] EXCEPT !.resolved = FALSE, !.outcome = None,
                                    !.resolvedAt = 0]
  <2>1. /\ r \in Market
        /\ ~r.resolved
        /\ r.endTime = market[m].endTime
        /\ r.resolutionTime = market[m].resolutionTime
    <3>1. market[m] \in Market
      BY <1>1, MarketFacts
    <3> QED BY <3>1, ReopenedEntry, Zenon DEF SameTimes
  <2>2. r # None
    BY <2>1 DEF MarketAssumption
  <2>3. market' = [market EXCEPT ![m] = r]
    BY <1>3 DEF ResolveDispute, UpholdDispute
  <2>4. \A n \in MarketIds : market'[n] = IF n = m THEN r ELSE market[n]
    BY <2>3 DEF LifecycleInv, LifecycleTypeOK
  <2> HIDE DEF r
  <2>5. TimesKept(m) /\ ~market'[m].resolved
    BY <1>1, <2>1, <2>2, <2>4, MarketFacts DEF TimesKept
  <2>6. \A n \in Created \ {m} : TimesKept(n) /\ ResultKept(n)
    BY <2>4, MarketFacts DEF TimesKept, ResultKept
  <2> QED BY <1>1, <2>4, <2>5, <2>6, MarketFacts DEF Timetable
<1> QED BY <1>2, <1>3

LEMMA StakingRecords ==
  ASSUME LifecycleInv, Staking
  PROVE  OneRecord' /\ UNCHANGED <<claimed, disputeVars>>
<1>1. PICK u \in Users, m \in Created, o \in Outcomes, stake \in Stakes :
             SubmitPrediction(u, m, o, stake)
  BY DEF Staking
<1>2. claimed[m][u] = None
  BY <1>1, MarketFacts DEF SubmitPrediction, Acceptable, LifecycleInv, Bookkeeping
<1>3. \A n \in MarketIds, v \in Users :
        pred'[n][v] = pred[n][v] \/ (n = m /\ v = u)
  BY <1>1 DEF SubmitPrediction, LifecycleInv, LifecycleTypeOK
<1>4. claimed' = claimed /\ UNCHANGED disputeVars
  BY <1>1 DEF SubmitPrediction
<1> QED BY <1>2, <1>3, <1>4 DEF OneRecord, LifecycleInv

LEMMA PayOutRecords ==
  ASSUME LifecycleInv, NEW m \in Created, NEW S \in SUBSET Users, NEW winning,
         market[m].resolved, PayOut(m, S, winning)
  PROVE  OneRecord' /\ ClaimsFollowResults /\ Frame /\ UNCHANGED disputeVars
<1>1. /\ pred' = [pred EXCEPT ![m] =
                    [u \in Users |-> IF u \in S THEN None ELSE pred[m][u]]]
      /\ claimed' = [claimed EXCEPT ![m] =
                       [u \in Users |-> IF u \in S THEN pred[m][u] ELSE claimed[m][u]]]
      /\ UNCHANGED <<now, marketVars, disputeVars>>
  BY Zenon DEF PayOut, MarkClaimed
<1>2. \A n \in MarketIds, u \in Users :
        /\ pred'[n][u] = IF n = m /\ u \in S THEN None ELSE pred[n][u]
        /\ claimed'[n][u] = IF n = m /\ u \in S THEN pred[n][u] ELSE claimed[n][u]
  BY <1>1, MarketFacts DEF LifecycleInv, LifecycleTypeOK
<1>3. OneRecord'
  BY <1>2 DEF OneRecord, LifecycleInv
<1>4. ClaimsFollowResults
  BY <1>2 DEF ClaimsFollowResults
<1>5. Frame
  BY <1>1, MarketFacts, FrameSame DEF marketVars
<1> QED BY <1>1, <1>3, <1>4, <1>5

LEMMA PayingRecords ==
  ASSUME LifecycleInv, NEW m \in Created,
         BatchDistribute(m) \/ \E u \in Users : ClaimPayout(u, m)
  PROVE  OneRecord' /\ ClaimsFollowResults /\ Frame /\ UNCHANGED disputeVars
<1>1. ASSUME NEW u \in Users, ClaimPayout(u, m)
      PROVE  OneRecord' /\ ClaimsFollowResults /\ Frame /\ UNCHANGED disputeVars
  <2> DEFINE winning == StakesOf(pred[m], Winners(m, pred))
                          + StakesOf(claimed[m], Winners(m, claimed))
  <2>1. market[m].resolved /\ PayOut(m, {u}, winning)
    BY <1>1 DEF ClaimPayout
  <2> QED BY <2>1, PayOutRecords
<1>2. ASSUME BatchDistribute(m)
      PROVE  OneRecord' /\ ClaimsFollowResults /\ Frame /\ UNCHANGED disputeVars
  <2> DEFINE unpaid      == Winners(m, pred)
             earlier(u)  == {v \in unpaid : Position(m, v) < Position(m, u)}
             batch       == {u \in unpaid : Cardinality(earlier(u)) < MaxBatch}
  <2>1. market[m].resolved /\ PayOut(m, batch, StakesOf(pred[m], unpaid))
    BY <1>2, Zenon DEF BatchDistribute
  <2>2. batch \subseteq Users
    BY DEF Winners
  <2> HIDE DEF batch
  <2> QED BY <2>1, <2>2, PayOutRecords
<1> QED BY <1>1, <1>2

(* A step that leaves the dispute records alone and keeps the frame.        *)
LEMMA OrdinaryStep ==
  ASSUME LifecycleInv, LifecycleTypeOK', Frame, ClaimsFollowResults, OneRecord',
         UNCHANGED disputeVars
  PROVE  LifecycleInv'
<1>1. Bookkeeping'
  BY BookkeepingStep DEF Frame
<1> QED BY <1>1, DisputesUntouched DEF LifecycleInv

LEMMA RecordsUntouched ==
  ASSUME LifecycleInv, UNCHANGED <<pred, claimed>>
  PROVE  OneRecord' /\ ClaimsFollowResults
  BY DEF OneRecord, ClaimsFollowResults, LifecycleInv

LEMMA InitInv ==
  ASSUME PlatformAssumption, MarketAssumption, Init
  PROVE  LifecycleInv
<1>1. PlatformTypeOK
  <2>1. PICK fee \in ProtocolFees, floor \in MinStakes :
          cfg = [admin |-> Admin, oracle |-> Oracle, feeBps |-> fee,
                 minStake |-> floor, paused |-> FALSE]
    BY DEF Init, PlatformInit
  <2>2. /\ fee \in 0..BPS /\ floor \in Nat \ {0}
        /\ Admin \in Accounts /\ Oracle \in Accounts
    BY DEF PlatformAssumption, Accounts
  <2>3. cfg \in Config
    BY <2>1, <2>2 DEF Config
  <2> QED BY <2>3 DEF Init, PlatformInit, PlatformTypeOK
<1>2. LifecycleTypeOK
  BY <1>1 DEF Init, LifecycleTypeOK, MarketAssumption
<1>3. Created = {} /\ Disputed = {}
  BY DEF Init, Created, Disputed
<1>4. DisputeIndexConsistent /\ DisputedIsResolved
  BY <1>3, FS_EmptySet DEF Init, DisputeIndexConsistent, DisputedIsResolved
<1>5. Bookkeeping /\ OneRecord
  BY <1>3 DEF Init, Bookkeeping, OneRecord
<1> QED BY <1>2, <1>4, <1>5 DEF LifecycleInv

LEMMA StepInv ==
  ASSUME PlatformAssumption, MarketAssumption, LifecycleInv, [Next]_vars
  PROVE  LifecycleInv'
<1> USE PlatformAssumption, MarketAssumption
<1>0. LifecycleTypeOK /\ Disputed \subseteq Created
  BY DEF LifecycleInv, DisputedIsResolved
<1>1. CASE PlatformStep
  <2>1. now' \in Nat /\ now <= now'
    BY <1>1, MarketFacts DEF PlatformStep, Tick, ConfigNext, SetPaused,
                             UpdateProtocolFee, TransferAdmin, UpdateOracle
  <2>2. UNCHANGED <<marketCount, market, pred, claimed, disputeVars>>
    BY <1>1 DEF PlatformStep, marketVars, stakeVars
  <2>3. Frame
    BY <2>1, <2>2, FrameSame
  <2> QED BY <1>0, <1>1, <2>2, <2>3, PlatformStepType, RecordsUntouched, OrdinaryStep
<1>2. CASE Creation
  <2>1. ASSUME NEW c \in Users, NEW p \in Params, NEW link, AddMarket(c, p, link)
        PROVE  Frame /\ UNCHANGED <<pred, claimed, disputeVars>>
    <3>1. UNCHANGED <<pred, claimed, disputeVars>>
      BY <2>1 DEF AddMarket, stakeVars
    <3> QED BY <2>1, <3>1, FrameAdd DEF LifecycleInv
  <2>2. Frame /\ UNCHANGED <<pred, claimed, disputeVars>>
    BY <1>2, <2>1 DEF Creation, CreateMarket, CreateConditionalMarket, MarketAssumption
  <2> QED BY <1>0, <1>2, <2>2, CreationType, RecordsUntouched, OrdinaryStep
<1>3. CASE Editing
  <2>1. UNCHANGED <<pred, claimed, disputeVars>>
    BY <1>3 DEF Editing, UpdateCreatorFee, ExtendEndTime, CloseMarket, stakeVars
  <2> QED BY <1>0, <1>3, <2>1, EditingType, FrameEdit, RecordsUntouched, OrdinaryStep
<1>4. CASE Staking
  <2>1. OneRecord' /\ UNCHANGED <<claimed, disputeVars>>
    BY <1>4, StakingRecords
  <2>2. ClaimsFollowResults
    BY <2>1 DEF ClaimsFollowResults
  <2> QED BY <1>0, <1>4, <2>1, <2>2, StakingType, FrameStake, OrdinaryStep
<1>5. ASSUME NEW m \in Created, CancelMarket(m) PROVE LifecycleInv'
  <2>1. UNCHANGED <<pred, claimed, disputeVars>>
    BY <1>5 DEF CancelMarket, stakeVars
  <2> QED BY <1>0, <1>5, <2>1, CancelMarketType, FrameCancel, RecordsUntouched,
             OrdinaryStep
<1>6. ASSUME NEW m \in Created, NEW o \in Outcomes, ResolveMarket(m, o)
      PROVE  LifecycleInv'
  <2>1. UNCHANGED <<pred, claimed, disputeVars>>
    BY <1>6 DEF ResolveMarket, stakeVars
  <2> QED BY <1>0, <1>6, <2>1, ResolveMarketType, FrameResolve, RecordsUntouched,
             OrdinaryStep
<1>7. ASSUME NEW m \in Created,
             BatchDistribute(m) \/ \E u \in Users : ClaimPayout(u, m)
      PROVE  LifecycleInv'
  BY <1>0, <1>7, PayingType, PayingRecords, OrdinaryStep
<1>8. ASSUME NEW m \in Created, NEW u \in Users, ExpireClaimed(m, u)
      PROVE  LifecycleInv'
  <2>1. /\ claimed' = [claimed EXCEPT ![m][u] = None]
        /\ UNCHANGED <<now, marketCount, market, pred, disputeVars>>
    BY <1>8 DEF ExpireClaimed, platformVars, marketVars
  <2>2. \A n \in MarketIds, v \in Users :
          claimed'[n][v] = None \/ claimed'[n][v] = claimed[n][v]
    BY <2>1 DEF LifecycleInv, LifecycleTypeOK
  <2>3. OneRecord' /\ ClaimsFollowResults
    BY <2>1, <2>2 DEF OneRecord, ClaimsFollowResults, LifecycleInv
  <2>4. Frame
    BY <2>1, MarketFacts, FrameSame
  <2> QED BY <1>0, <1>8, <2>1, <2>3, <2>4, ExpireClaimedType, OrdinaryStep
<1>9. CASE Disputing
  <2>1. UNCHANGED <<pred, claimed>>
    BY <1>9 DEF Disputing, RaiseDispute, ResolveDispute, stakeVars
  <2>2. LifecycleTypeOK'
    BY <1>0, <1>9, DisputingType
  <2>3. ASSUME NEW u \in Users, NEW m \in Created, NEW bond \in Bonds,
               RaiseDispute(u, m, bond)
        PROVE  LifecycleInv'
    <3>1. UNCHANGED <<now, marketCount, market>>
      BY <2>3 DEF RaiseDispute, platformVars, marketVars
    <3>2. Frame
      BY <3>1, MarketFacts, FrameSame
    <3>3. Bookkeeping'
      BY <2>1, <2>2, <3>2, RecordsUntouched, BookkeepingStep DEF Frame
    <3> QED BY <2>1, <2>2, <2>3, <3>3, DisputeRaised, RecordsUntouched
        DEF LifecycleInv
  <2>4. ASSUME NEW m \in Disputed, NEW uphold \in BOOLEAN,
               ResolveDispute(m, uphold)
        PROVE  LifecycleInv'
    <3>1. Bookkeeping'
      BY <2>1, <2>2, <2>4, FrameUphold, RecordsUntouched, BookkeepingStep
    <3> QED BY <2>1, <2>2, <2>4, <3>1, DisputeResolved, RecordsUntouched
        DEF LifecycleInv
  <2> QED BY <1>9, <2>3, <2>4 DEF Disputing
<1>10. CASE Housekeeping
  <2>1. UNCHANGED <<now, marketCount, market, pred, claimed, disputeVars>>
    BY <1>10 DEF Housekeeping, WithdrawTreasury, ResetCreatorStats, platformVars,
                 marketVars, stakeVars
  <2>2. Frame
    BY <2>1, MarketFacts, FrameSame
  <2> QED BY <1>0, <1>10, <2>1, <2>2, HousekeepingType, RecordsUntouched, OrdinaryStep
<1>11. CASE UNCHANGED vars
  <2>1. UNCHANGED <<now, marketCount, market, pred, claimed, disputeVars>>
    BY <1>11 DEF vars, platformVars, marketVars, stakeVars
  <2>2. LifecycleTypeOK'
    BY <1>0, <1>11 DEF vars, platformVars, marketVars, stakeVars, disputeVars,
                       historyVars, LifecycleTypeOK, PlatformTypeOK
  <2>3. Frame
    BY <2>1, MarketFacts, FrameSame
  <2> QED BY <2>1, <2>2, <2>3, RecordsUntouched, OrdinaryStep
<1> QED BY <1>1, <1>2, <1>3, <1>4, <1>5, <1>6, <1>7, <1>8, <1>9, <1>10, <1>11
    DEF Next, Claiming

-----------------------------------------------------------------------------
(* The theorems. *)

(* The inductive invariant holds in every reachable state.                  *)
THEOREM LifecycleInvariant == Spec => []LifecycleInv
<1>1. Init => LifecycleInv
  BY InitInv, PlatformAssumption, MarketAssumption
<1>2. LifecycleInv /\ [Next]_vars => LifecycleInv'
  BY StepInv, PlatformAssumption, MarketAssumption
<1> QED BY <1>1, <1>2, PTL DEF Spec

(* The entries the contract stores keep their types.                        *)
THEOREM TypeCorrect == Spec => []LifecycleTypeOK
<1>1. LifecycleInv => LifecycleTypeOK
  BY DEF LifecycleInv
<1> QED BY <1>1, LifecycleInvariant, PTL

(* raise_dispute and resolve_dispute keep the counter, the list of active   *)
(* disputes and the dispute records in agreement.                           *)
THEOREM DisputeIndexAlwaysConsistent == Spec => []DisputeIndexConsistent
<1>1. LifecycleInv => DisputeIndexConsistent
  BY DEF LifecycleInv
<1> QED BY <1>1, LifecycleInvariant, PTL

(* An open dispute always concerns the resolution in force, and was filed   *)
(* inside its window.                                                       *)
THEOREM DisputedAlwaysResolved == Spec => []DisputedIsResolved
<1>1. LifecycleInv => DisputedIsResolved
  BY DEF LifecycleInv
<1> QED BY <1>1, LifecycleInvariant, PTL

(* Whatever is resolved, disputed, reopened and resolved again, a user has  *)
(* at most one record of a prediction on a market.                          *)
THEOREM OneRecordAlways == Spec => []OneRecord
<1>1. LifecycleInv => OneRecord
  BY DEF LifecycleInv
<1> QED BY <1>1, LifecycleInvariant, PTL

-----------------------------------------------------------------------------
(***************************************************************************)
(* Stakes, records and pools.  A market keeps its totals in its entry and  *)
(* its stakes in records that move between two storages; the totals are    *)
(* those of the records.                                                   *)
(***************************************************************************)

(* What a step that moves no stake does to the records and the pools.       *)
PoolOf == [m \in MarketIds |-> IF market[m] = None THEN 0 ELSE market[m].pool]

(* The predictors of every market, by its entry. *)
HeadsOf ==
  [m \in MarketIds |-> IF market[m] = None THEN 0 ELSE market[m].participants]

(* The step leaves the stakes alone: the records, the lists, the totals of  *)
(* the markets and the statistics of the users.                             *)
StakesKept ==
  /\ UNCHANGED <<pred, claimed, predictors, profile, PoolOf, HeadsOf>>

(* What holds of the type of each record. *)
LEMMA RecordTypes ==
  ASSUME LifecycleInv
  PROVE  /\ IsFiniteSet(Users) /\ IsFiniteSet(MarketIds)
         /\ \A m \in MarketIds : predictors[m] \in Seq(Users)
         /\ \A m \in MarketIds, u \in Users :
              /\ pred[m][u] # None => pred[m][u] \in Prediction
              /\ claimed[m][u] # None => claimed[m][u] \in Prediction
<1>1. IsFiniteSet(MarketIds)
  BY MarketAssumption, FS_Interval DEF MarketAssumption, MarketIds
<1> QED BY <1>1, PlatformAssumption DEF PlatformAssumption, LifecycleInv, LifecycleTypeOK

(* The totals of the markets are numbers. *)
LEMMA PoolTypes ==
  ASSUME LifecycleInv
  PROVE  /\ PoolOf \in [MarketIds -> Nat] /\ HeadsOf \in [MarketIds -> Nat]
         /\ \A m \in Created : /\ PoolOf[m] = market[m].pool
                               /\ HeadsOf[m] = market[m].participants
<1>1. ASSUME NEW m \in MarketIds, market[m] # None
      PROVE  market[m].pool \in Nat /\ market[m].participants \in Nat
  BY <1>1, MarketFacts DEF Market
<1> QED BY <1>1, MarketFacts DEF PoolOf, HeadsOf

(* Everything about a market but its stakes may change. *)
SamePool(m) ==
  IF market[m] = None
  THEN market'[m] = None \/ (market'[m].pool = 0 /\ market'[m].participants = 0)
  ELSE /\ market'[m] # None
       /\ market'[m].pool = market[m].pool
       /\ market'[m].participants = market[m].participants

(* The totals stay when those of every market do. *)
LEMMA SamePools ==
  ASSUME \A m \in MarketIds : SamePool(m)
  PROVE  UNCHANGED <<PoolOf, HeadsOf>>
BY DEF PoolOf, HeadsOf, SamePool

(* An update of one entry that spares its totals. *)
LEMMA UpdatedPool ==
  ASSUME LifecycleInv, MarketAssumption, NEW m \in Created, NEW r \in Market,
         market' = [market EXCEPT ![m] = r], r.pool = market[m].pool,
         r.participants = market[m].participants
  PROVE  UNCHANGED <<PoolOf, HeadsOf>>
<1>1. r # None /\ m \in MarketIds /\ market[m] # None
  BY MarketFacts DEF MarketAssumption
<1>2. \A n \in MarketIds : market'[n] = IF n = m THEN r ELSE market[n]
  BY <1>1 DEF LifecycleInv, LifecycleTypeOK
<1>3. ASSUME NEW n \in MarketIds PROVE SamePool(n)
  <2>1. CASE n = m
    <3>1. market'[n] = r
      BY <1>2, <2>1
    <3> QED BY <1>1, <2>1, <3>1 DEF SamePool
  <2>2. CASE n # m
    <3>1. market'[n] = market[n]
      BY <1>2, <2>2
    <3> QED BY <3>1 DEF SamePool
  <2> QED BY <2>1, <2>2
<1> QED BY <1>3, SamePools

(* A cancelled market keeps its totals. *)
LEMMA CancelledPools ==
  ASSUME LifecycleInv, NEW S \in SUBSET Created, NEW n \in MarketIds
  PROVE  IF market[n] = None THEN WithCancelled(S)[n] = None
         ELSE /\ WithCancelled(S)[n] # None
              /\ WithCancelled(S)[n].pool = market[n].pool
              /\ WithCancelled(S)[n].participants = market[n].participants
<1>1. CASE n \in S
  <2>1. market[n] \in Market /\ market[n] # None
    BY <1>1, MarketFacts
  <2>2. [market[n] EXCEPT !.cancelled = TRUE] \in Market
    BY <2>1, CancelledEntry
  <2>3. [market[n] EXCEPT !.cancelled = TRUE] # None
    BY <2>2, MarketAssumption DEF MarketAssumption
  <2> QED BY <1>1, <2>1, <2>3 DEF WithCancelled, Market
<1>2. CASE n \notin S
  BY <1>2 DEF WithCancelled
<1> QED BY <1>1, <1>2

(* A new market holds no stakes. *)
LEMMA CreationKeepsStakes ==
  ASSUME LifecycleInv, Creation
  PROVE  StakesKept
<1>1. PICK c, p, link : c \in Users /\ p \in Params /\ AddMarket(c, p, link)
  BY MarketAssumption DEF Creation, CreateMarket, CreateConditionalMarket, MarketAssumption
<1>2. UNCHANGED <<pred, claimed, predictors, profile>>
  BY <1>1 DEF AddMarket, stakeVars
<1>3. marketCount + 1 \in MarketIds /\ market[marketCount + 1] = None
  <2>1. marketCount \in 0..MaxMarkets /\ marketCount < MaxMarkets /\ MaxMarkets \in Nat
    BY <1>1, MarketFacts, MarketAssumption DEF AddMarket, MarketAssumption
  <2>2. marketCount + 1 \in MarketIds /\ marketCount + 1 > marketCount
    BY <2>1 DEF MarketIds
  <2> QED BY <2>2 DEF LifecycleInv, Bookkeeping
<1>4. market' = [market EXCEPT ![marketCount + 1] = NewMarket(c, p)]
  BY <1>1 DEF AddMarket
<1>5. NewMarket(c, p).pool = 0 /\ NewMarket(c, p).participants = 0
  BY DEF NewMarket
<1>6. ASSUME NEW n \in MarketIds PROVE SamePool(n)
  <2>1. market'[n] = IF n = marketCount + 1 THEN NewMarket(c, p) ELSE market[n]
    BY <1>3, <1>4 DEF LifecycleInv, LifecycleTypeOK
  <2>2. CASE n = marketCount + 1
    BY <1>3, <1>5, <2>1, <2>2 DEF SamePool
  <2>3. CASE n # marketCount + 1
    BY <2>1, <2>3 DEF SamePool
  <2> QED BY <2>2, <2>3
<1>7. UNCHANGED <<PoolOf, HeadsOf>>
  BY <1>6, SamePools
<1> QED BY <1>2, <1>7 DEF StakesKept

(* The edits of a creator do not touch the stakes. *)
LEMMA EditingKeepsStakes ==
  ASSUME LifecycleInv, Editing
  PROVE  StakesKept
<1> USE PlatformAssumption, MarketAssumption
<1>1. UNCHANGED <<pred, claimed, predictors, profile>>
  BY DEF Editing, UpdateCreatorFee, ExtendEndTime, CloseMarket, stakeVars, statVars
<1>2. ASSUME NEW m \in Created, NEW r, market' = [market EXCEPT ![m] = r],
             r \in Market, r.pool = market[m].pool, r.participants = market[m].participants
      PROVE  UNCHANGED <<PoolOf, HeadsOf>>
  BY <1>2, UpdatedPool
<1>3. ASSUME NEW c \in Creators, NEW m \in Created, NEW fee \in CreatorFees,
             UpdateCreatorFee(c, m, fee)
      PROVE  UNCHANGED <<PoolOf, HeadsOf>>
  <2> PICK r : r = [market[m] EXCEPT !.creatorFee = fee]
    OBVIOUS
  <2>1. market' = [market EXCEPT ![m] = r]
    BY <1>3 DEF UpdateCreatorFee
  <2>2. r \in Market /\ r.pool = market[m].pool /\ r.participants = market[m].participants
    BY MarketFacts DEF Market, MarketAssumption
  <2> QED BY <2>1, <2>2, <1>2
<1>4. ASSUME NEW c \in Creators, NEW m \in Created, NEW end \in NewEndTimes,
             ExtendEndTime(c, m, end)
      PROVE  UNCHANGED <<PoolOf, HeadsOf>>
  <2> PICK later, r : /\ later = IF market[m].resolutionTime < end THEN end
                                 ELSE market[m].resolutionTime
                      /\ r = [market[m] EXCEPT !.endTime = end, !.resolutionTime = later]
    OBVIOUS
  <2>1. market' = [market EXCEPT ![m] = r]
    BY <1>4, MarketFacts DEF ExtendEndTime, LifecycleInv, LifecycleTypeOK
  <2>2. end \in Nat /\ later \in Nat /\ market[m] \in Market
    BY MarketFacts DEF MarketAssumption
  <2>3. r \in Market /\ r.pool = market[m].pool /\ r.participants = market[m].participants
    BY <2>2 DEF Market
  <2> QED BY <2>1, <2>3, <1>2
<1>5. ASSUME NEW c \in Closers, NEW m \in Created, CloseMarket(c, m)
      PROVE  UNCHANGED <<PoolOf, HeadsOf>>
  <2> PICK r : r = [market[m] EXCEPT !.closed = TRUE]
    OBVIOUS
  <2>1. market' = [market EXCEPT ![m] = r]
    BY <1>5 DEF CloseMarket
  <2>2. market[m] \in Market /\ r \in Market
    BY MarketFacts, ClosedEntry, Zenon
  <2>3. r.pool = market[m].pool /\ r.participants = market[m].participants
    BY <2>2 DEF Market
  <2> QED BY <2>1, <2>2, <2>3, <1>2
<1> QED BY <1>1, <1>3, <1>4, <1>5 DEF StakesKept, Editing

(* Cancelling repays stakes and keeps their records. *)
LEMMA CancellingKeepsStakes ==
  ASSUME LifecycleInv, NEW m \in Created, CancelMarket(m)
  PROVE  StakesKept
<1>1. UNCHANGED <<pred, claimed, predictors, profile>>
  BY DEF CancelMarket, stakeVars, statVars
<1> PICK S : S = {m} \cup LiveOnes(Children(m))
  OBVIOUS
<1>2. market' = WithCancelled(S)
  BY DEF CancelMarket
<1>3. S \in SUBSET Created
  BY DEF LiveOnes, Children
<1>4. ASSUME NEW n \in MarketIds PROVE SamePool(n)
  <2>1. market'[n] = WithCancelled(S)[n]
    BY <1>2
  <2> QED BY <1>3, <2>1, CancelledPools DEF SamePool
<1> QED BY <1>1, <1>4, SamePools DEF StakesKept

(* So does resolving, for the children it cancels. *)
LEMMA ResolvingKeepsStakes ==
  ASSUME LifecycleInv, NEW m \in Created, NEW o \in Outcomes, ResolveMarket(m, o)
  PROVE  StakesKept
<1>1. UNCHANGED <<pred, claimed, predictors, profile>>
  BY DEF ResolveMarket, stakeVars
<1> PICK S, r :
      /\ S = LiveOnes(Children(m) \ {c \in Children(m) : conditional[c].required = o})
      /\ r = [market[m] EXCEPT !.resolved = TRUE, !.outcome = o, !.resolvedAt = now]
  OBVIOUS
<1>2. market' = [WithCancelled(S) EXCEPT ![m] = r]
  BY DEF ResolveMarket
<1>3. S \in SUBSET Created
  BY DEF LiveOnes, Children
<1>4. r \in Market /\ r.pool = market[m].pool /\ r.participants = market[m].participants
  BY MarketFacts DEF Market
<1>5. r # None /\ m \in MarketIds /\ market[m] # None
  BY <1>4, MarketFacts, MarketAssumption DEF MarketAssumption
<1>6. \A n \in MarketIds : market'[n] = IF n = m THEN r ELSE WithCancelled(S)[n]
  BY <1>2 DEF WithCancelled
<1>7. ASSUME NEW n \in MarketIds PROVE SamePool(n)
  <2>1. CASE n = m
    BY <1>4, <1>5, <1>6, <2>1 DEF SamePool
  <2>2. CASE n # m
    <3>1. market'[n] = WithCancelled(S)[n]
      BY <1>6, <2>2
    <3> QED BY <1>3, <3>1, CancelledPools DEF SamePool
  <2> QED BY <2>1, <2>2
<1> QED BY <1>1, <1>7, SamePools DEF StakesKept

(* Disputes concern results and bonds. *)
LEMMA DisputingKeepsStakes ==
  ASSUME LifecycleInv, Disputing
  PROVE  StakesKept
<1>1. UNCHANGED <<pred, claimed, predictors, profile>>
  BY DEF Disputing, RaiseDispute, ResolveDispute, stakeVars, statVars
<1>2. UNCHANGED market => UNCHANGED <<PoolOf, HeadsOf>>
  BY DEF PoolOf, HeadsOf
<1>3. ASSUME NEW m \in Disputed, UpholdDispute(m) PROVE UNCHANGED <<PoolOf, HeadsOf>>
  <2> PICK r : r = [market[m] EXCEPT !.resolved = FALSE, !.outcome = None, !.resolvedAt = 0]
    OBVIOUS
  <2>1. m \in Created
    BY DEF LifecycleInv, DisputedIsResolved
  <2>2. market' = [market EXCEPT ![m] = r]
    BY <1>3, <2>1, MarketFacts DEF UpholdDispute, LifecycleInv, LifecycleTypeOK
  <2>3. r \in Market /\ r.pool = market[m].pool /\ r.participants = market[m].participants
    BY <2>1, MarketFacts DEF Market
  <2> QED BY <2>1, <2>2, <2>3, UpdatedPool, MarketAssumption
<1> QED BY <1>1, <1>2, <1>3 DEF StakesKept, Disputing, RaiseDispute, ResolveDispute,
           RejectDispute, marketVars

(* The remaining actions have nothing to do with stakes. *)
LEMMA OtherwiseKeepsStakes ==
  ASSUME PlatformStep \/ Housekeeping \/ UNCHANGED vars
  PROVE  StakesKept
BY DEF PlatformStep, Housekeeping, WithdrawTreasury, ResetCreatorStats, vars, marketVars,
       stakeVars, statVars, StakesKept, PoolOf, HeadsOf

(* What a user has at stake according to the two storages of a market. *)
StakeIn(p, c) ==
  [u \in Users |-> IF p[u] # None THEN p[u].stake
                   ELSE IF c[u] # None THEN c[u].stake ELSE 0]

(* The list of a market names everyone once, whose records are its stakes.  *)
RowOK(list, p, c, pool, heads) ==
  /\ heads = Len(list)
  /\ Cardinality(Range(list)) = Len(list)
  /\ \A u \in Users : p[u] # None \/ c[u] # None => u \in Range(list)
  /\ \A u \in Users : p[u] # None => p[u].stake > 0
  /\ \A u \in Users : c[u] # None => c[u].stake > 0
  /\ (\A u \in Range(list) : p[u] # None \/ c[u] # None)
       => pool = SumFunctionOnSet(StakeIn(p, c), Users)

(* The invariant behind PoolMatchesPredictions: every row is right, as long *)
(* as a market takes stakes every record of its list is in the persistent   *)
(* storage, and what is not a market has no list.                           *)
RecordsInv ==
  /\ \A m \in MarketIds :
       RowOK(predictors[m], pred[m], claimed[m], PoolOf[m], HeadsOf[m])
  /\ \A m \in Created : now < market[m].endTime =>
       \A u \in Range(predictors[m]) : pred[m][u] # None
  /\ \A m \in MarketIds : m \notin Created => predictors[m] = <<>>

(* The records of one market in one storage. *)
Row == [Users -> Prediction \cup {None}]

(* The two rows once the records of S have moved to temporary storage.      *)
Unpaid(p, S) == [u \in Users |-> IF u \in S THEN None ELSE p[u]]

(* ... with those of S added. *)
Paid(p, c, S) == [u \in Users |-> IF u \in S THEN p[u] ELSE c[u]]

(* A payout concerns winners of a resolved market whose record is in the    *)
(* persistent storage; the winning stakes are not nothing.                  *)
Pays(m, S, winning) ==
  /\ market[m].resolved
  /\ S \in SUBSET Winners(m, pred)
  /\ winning \in Nat \ {0}
  /\ PayOut(m, S, winning)

(* Stakes of records that exist add up.                                     *)
LEMMA StakesAdded ==
  ASSUME NEW p \in Row, NEW S \in SUBSET {u \in Users : p[u] # None}
  PROVE  /\ IsFiniteSet(S) /\ StakesOf(p, S) \in Nat
         /\ \A u \in S : p[u].stake \in Nat /\ p[u].stake <= StakesOf(p, S)
<1>1. IsFiniteSet(S)
  BY PlatformAssumption, FS_Subset DEF PlatformAssumption
<1> PICK f : f = [u \in S |-> p[u].stake]
  OBVIOUS
<1>2. StakesOf(p, S) = SumFunctionOnSet(f, S)
  BY DEF StakesOf, SumFunction
<1>3. \A u \in S : f[u] \in Nat /\ f[u] = p[u].stake
  BY DEF Row, Prediction
<1>4. SumFunctionOnSet(f, S) \in Nat /\ \A u \in S : f[u] <= SumFunctionOnSet(f, S)
  BY <1>1, <1>3, SumNat, SumMember
<1> QED BY <1>1, <1>2, <1>3, <1>4

(* The stakes of the winners add up; those of unpaid winners to more than   *)
(* nothing, so the divisions of the payouts are never by zero.              *)
LEMMA WinningStakes ==
  ASSUME LifecycleInv, RecordsInv, NEW m \in Created
  PROVE  /\ StakesOf(pred[m], Winners(m, pred)) \in Nat
         /\ StakesOf(claimed[m], Winners(m, claimed)) \in Nat
         /\ Winners(m, pred) # {} => StakesOf(pred[m], Winners(m, pred)) > 0
         /\ Winners(m, pred) \in SUBSET {u \in Users : pred[m][u] # None}
         /\ Winners(m, claimed) \in SUBSET {u \in Users : claimed[m][u] # None}
<1>1. /\ Winners(m, pred) \in SUBSET {u \in Users : pred[m][u] # None}
      /\ Winners(m, claimed) \in SUBSET {u \in Users : claimed[m][u] # None}
  BY DEF Winners
<1>2. m \in MarketIds /\ pred[m] \in Row /\ claimed[m] \in Row
  BY MarketFacts DEF LifecycleInv, LifecycleTypeOK, Row
<1>3. \A u \in Winners(m, pred) : pred[m][u].stake > 0
  BY <1>1, <1>2 DEF RecordsInv, RowOK
<1>4. /\ StakesOf(pred[m], Winners(m, pred)) \in Nat
      /\ StakesOf(claimed[m], Winners(m, claimed)) \in Nat
      /\ \A u \in Winners(m, pred) :
            /\ pred[m][u].stake \in Nat
            /\ pred[m][u].stake <= StakesOf(pred[m], Winners(m, pred))
  BY <1>1, <1>2, StakesAdded
<1> QED BY <1>1, <1>3, <1>4

(* Both ways of paying winners are payouts. *)
LEMMA PayingActions ==
  ASSUME LifecycleInv, RecordsInv
  PROVE  /\ \A u \in Users, m \in Created : ClaimPayout(u, m) =>
              \E S \in SUBSET Users : \E winning : Pays(m, S, winning)
         /\ \A m \in Created : BatchDistribute(m) =>
              \E S \in SUBSET Users : \E winning : Pays(m, S, winning)
<1>1. ASSUME NEW u \in Users, NEW m \in Created, ClaimPayout(u, m)
      PROVE  \E S \in SUBSET Users : \E winning : Pays(m, S, winning)
  <2>1. Pays(m, {u}, StakesOf(pred[m], Winners(m, pred))
                       + StakesOf(claimed[m], Winners(m, claimed)))
    BY <1>1, WinningStakes DEF ClaimPayout, Pays
  <2> QED BY <2>1
<1>2. ASSUME NEW m \in Created, BatchDistribute(m)
      PROVE  \E S \in SUBSET Users : \E winning : Pays(m, S, winning)
  <2> DEFINE unpaid     == Winners(m, pred)
             earlier(u) == {v \in unpaid : Position(m, v) < Position(m, u)}
             batch      == {u \in unpaid : Cardinality(earlier(u)) < MaxBatch}
  <2>1. market[m].resolved /\ PayOut(m, batch, StakesOf(pred[m], unpaid)) /\ unpaid # {}
    BY <1>2, Zenon DEF BatchDistribute
  <2>2. batch \in SUBSET unpaid
    OBVIOUS
  <2>3. unpaid \in SUBSET Users
    BY DEF Winners
  <2> HIDE DEF batch
  <2>4. Pays(m, batch, StakesOf(pred[m], unpaid))
    BY <2>1, <2>2, WinningStakes DEF Pays
  <2> QED BY <2>2, <2>3, <2>4
<1> QED BY <1>1, <1>2

(* The four things a step can do to the stakes. *)
LEMMA KindsOfSteps ==
  ASSUME LifecycleInv, RecordsInv, [Next]_vars
  PROVE  \/ StakesKept
         \/ Staking
         \/ \E m \in Created, S \in SUBSET Users : \E winning : Pays(m, S, winning)
         \/ \E m \in Created, u \in Users : ExpireClaimed(m, u)
BY PayingActions, CreationKeepsStakes, EditingKeepsStakes, CancellingKeepsStakes,
   ResolvingKeepsStakes, DisputingKeepsStakes, OtherwiseKeepsStakes
   DEF Next, Claiming

(* What appending does to the range of a list. *)
LEMMA AppendRange ==
  ASSUME NEW list \in Seq(Users), NEW u \in Users
  PROVE  /\ Range(Append(list, u)) = Range(list) \cup {u}
         /\ Len(Append(list, u)) = Len(list) + 1
         /\ Range(list) \subseteq Users
<1>1. /\ Len(Append(list, u)) = Len(list) + 1 /\ Append(list, u) \in Seq(Users)
      /\ DOMAIN list = 1..Len(list) /\ DOMAIN Append(list, u) = 1..(Len(list) + 1)
      /\ Len(list) \in Nat
      /\ \A i \in 1..Len(list) : Append(list, u)[i] = list[i]
      /\ Append(list, u)[Len(list) + 1] = u
  OBVIOUS
<1> PICK a, n : a = Append(list, u) /\ n = Len(list)
  OBVIOUS
<1>2. DOMAIN a = DOMAIN list \cup {n + 1}
  BY <1>1
<1>3. \A i \in DOMAIN list : a[i] = list[i]
  BY <1>1
<1>4. a[n + 1] = u
  BY <1>1
<1>5. Range(a) = Range(list) \cup {u}
  BY ONLY <1>2, <1>3, <1>4 DEF Range
<1>6. Range(list) \subseteq Users
  BY DEF Range
<1> QED BY <1>1, <1>5, <1>6

(* A stake adds a record and keeps the row right ... *)
LEMMA RowSubmit ==
  ASSUME PlatformAssumption, MarketAssumption,
         NEW list \in Seq(Users), NEW p \in Row, NEW c \in Row, NEW pool \in Nat,
         NEW heads \in Nat, NEW u \in Users, NEW r \in Prediction, r.stake > 0,
         RowOK(list, p, c, pool, heads), p[u] = None,
         \A v \in Range(list) : p[v] # None,
         NEW q, q = [p EXCEPT ![u] = r]
  PROVE  RowOK(Append(list, u), q, c, pool + r.stake, heads + 1)
<1>1. /\ u \notin Range(list) /\ c[u] = None
      /\ Range(list) \subseteq Users /\ IsFiniteSet(Range(list)) /\ IsFiniteSet(Users)
  BY AppendRange, FS_Subset DEF RowOK, PlatformAssumption
<1>2. Cardinality(Range(list) \cup {u}) = Len(list) + 1
  <2> PICK R : R = Range(list)
    OBVIOUS
  <2>1. Cardinality(R) = Len(list) /\ IsFiniteSet(R) /\ u \notin R
    BY <1>1 DEF RowOK
  <2>2. Cardinality(R \cup {u}) = Cardinality(R) + 1
    BY <2>1, FS_AddElement
  <2> QED BY <2>1, <2>2
<1>3. r # None /\ q[u] = r /\ \A v \in Users : v # u => q[v] = p[v]
  BY MarketAssumption DEF MarketAssumption, Row
<1>4. \A v \in Users : q[v] # None => q[v].stake > 0
  BY <1>3 DEF RowOK
<1>5. \A v \in Users : q[v] # None \/ c[v] # None => v \in Range(list) \cup {u}
  BY <1>3 DEF RowOK
<1>6. pool + r.stake = SumFunctionOnSet(StakeIn(q, c), Users)
  <2> PICK f, g : f = StakeIn(p, c) /\ g = StakeIn(q, c)
    OBVIOUS
  <2>1. pool = SumFunctionOnSet(f, Users)
    BY DEF RowOK
  <2>2. \A v \in Users : f[v] \in Int /\ g[v] \in Int /\ (v # u => g[v] = f[v])
    BY <1>3 DEF StakeIn, Row, Prediction
  <2>3. SumFunctionOnSet(g, Users) = SumFunctionOnSet(f, Users) - f[u] + g[u]
    BY ONLY IsFiniteSet(Users), u \in Users, <2>2, SumChange
  <2>4. f[u] = 0 /\ g[u] = r.stake /\ r.stake \in Int
    BY <1>1, <1>3 DEF StakeIn, Prediction
  <2> QED BY <2>1, <2>3, <2>4
<1> QED BY <1>2, <1>4, <1>5, <1>6, AppendRange DEF RowOK

(* ... a payout moves records and keeps it right ... *)
LEMMA RowPay ==
  ASSUME NEW list, NEW p \in Row, NEW c \in Row, NEW pool, NEW heads,
         NEW S, S \subseteq {u \in Users : p[u] # None},
         \A u \in Users : p[u] = None \/ c[u] = None,
         RowOK(list, p, c, pool, heads), Range(list) \subseteq Users
  PROVE  RowOK(list, Unpaid(p, S), Paid(p, c, S), pool, heads)
<1> PICK q, d : q = Unpaid(p, S) /\ d = Paid(p, c, S)
  OBVIOUS
<1> USE DEF Unpaid, Paid
<1>1. StakeIn(q, d) = StakeIn(p, c)
  BY DEF StakeIn
<1>2. \A u \in Users : q[u] # None \/ d[u] # None <=> p[u] # None \/ c[u] # None
  OBVIOUS
<1>3. \A u \in Users : q[u] # None => q[u].stake > 0
  BY DEF RowOK
<1>4. \A u \in Users : d[u] # None => d[u].stake > 0
  BY DEF RowOK
<1> QED BY <1>1, <1>2, <1>3, <1>4 DEF RowOK

(* ... and so does the end of a temporary record. *)
LEMMA RowExpire ==
  ASSUME NEW list, NEW p \in Row, NEW c \in Row, NEW pool, NEW heads,
         NEW u \in Users, c[u] # None,
         \A v \in Users : p[v] = None \/ c[v] = None,
         RowOK(list, p, c, pool, heads),
         NEW d, d = [c EXCEPT ![u] = None]
  PROVE  RowOK(list, p, d, pool, heads)
<1>1. u \in Range(list) /\ p[u] = None /\ d[u] = None
  BY DEF RowOK, Row
<1>2. \A v \in Users : d[v] # None => d[v] = c[v]
  BY DEF Row
<1> QED BY <1>1, <1>2 DEF RowOK

(* The timetable is kept by every step. *)
LEMMA NextTimetable ==
  ASSUME LifecycleInv, [Next]_vars
  PROVE  Timetable
<1> USE PlatformAssumption, MarketAssumption
<1>1. UNCHANGED <<marketCount, market>> /\ now' \in Nat /\ now <= now' => Timetable
  BY FrameSame DEF Frame
<1>2. PlatformStep => UNCHANGED <<marketCount, market>> /\ now' \in Nat /\ now <= now'
  BY MarketFacts DEF PlatformStep, Tick, ConfigNext, SetPaused, UpdateProtocolFee,
                     TransferAdmin, UpdateOracle, marketVars
<1>3. Creation => Timetable
  BY FrameAdd DEF Creation, CreateMarket, CreateConditionalMarket, MarketAssumption, Frame
<1>4. Editing \/ Staking => Timetable
  BY FrameEdit, FrameStake DEF Frame
<1>5. \A m \in Created : CancelMarket(m) => Timetable
  BY FrameCancel DEF Frame
<1>6. \A m \in Created, o \in Outcomes : ResolveMarket(m, o) => Timetable
  BY FrameResolve DEF Frame
<1>7. \A m \in Created : BatchDistribute(m) \/ (\E u \in Users : ClaimPayout(u, m)) => Timetable
  BY PayingRecords DEF Frame
<1>8. \A m \in Created, u \in Users : ExpireClaimed(m, u) => Timetable
  BY <1>1, MarketFacts DEF ExpireClaimed, platformVars, marketVars
<1>9. Disputing => Timetable
  <2>1. \A u \in Users, m \in Created, bond \in Bonds : RaiseDispute(u, m, bond) => Timetable
    BY <1>1, MarketFacts DEF RaiseDispute, platformVars, marketVars
  <2>2. \A m \in Disputed, uphold \in BOOLEAN : ResolveDispute(m, uphold) => Timetable
    BY FrameUphold
  <2> QED BY <2>1, <2>2 DEF Disputing
<1>10. Housekeeping \/ UNCHANGED vars => Timetable
  BY <1>1, MarketFacts DEF Housekeeping, WithdrawTreasury, ResetCreatorStats, vars,
                           platformVars, marketVars
<1> QED BY <1>1, <1>2, <1>3, <1>4, <1>5, <1>6, <1>7, <1>8, <1>9, <1>10 DEF Next, Claiming

(* What a prediction does to the records ... *)
LEMMA StakingEffect ==
  ASSUME LifecycleInv, NEW u \in Users, NEW m \in Created, NEW o \in Outcomes,
         NEW stake \in Stakes, SubmitPrediction(u, m, o, stake)
  PROVE  LET r == [outcome |-> o, stake |-> stake] IN
         /\ r \in Prediction /\ stake \in Nat /\ stake > 0 /\ pred[m][u] = None
         /\ now' = now /\ now < market[m].endTime /\ claimed' = claimed
         /\ pred' = [pred EXCEPT ![m] = [pred[m] EXCEPT ![u] = r]]
         /\ predictors' = [predictors EXCEPT ![m] = Append(predictors[m], u)]
         /\ PoolOf' = [PoolOf EXCEPT ![m] = PoolOf[m] + stake]
         /\ HeadsOf' = [HeadsOf EXCEPT ![m] = HeadsOf[m] + 1]
<1> DEFINE r == [outcome |-> o, stake |-> stake]
<1> PICK x : x = [market[m] EXCEPT !.pool = market[m].pool + stake,
                                   !.participants = market[m].participants + 1]
  OBVIOUS
<1>1. stake \in Nat /\ r \in Prediction /\ m \in MarketIds /\ market[m] # None
  BY MarketAssumption, MarketFacts DEF MarketAssumption, Prediction
<1>2. stake > 0 /\ pred[m][u] = None /\ now' = now /\ now < market[m].endTime /\ claimed' = claimed
  BY DEF SubmitPrediction, Deposit, Acceptable
<1>3. pred' = [pred EXCEPT ![m] = [pred[m] EXCEPT ![u] = r]]
  BY <1>1 DEF SubmitPrediction, LifecycleInv, LifecycleTypeOK
<1>4. predictors' = [predictors EXCEPT ![m] = Append(predictors[m], u)]
  BY DEF SubmitPrediction
<1>5. market' = [market EXCEPT ![m] = x]
  BY <1>1 DEF SubmitPrediction, LifecycleInv, LifecycleTypeOK
<1>6. x # None /\ x.pool = market[m].pool + stake /\ x.participants = market[m].participants + 1
  <2>1. market[m] \in Market /\ market[m].pool + stake \in Nat /\ market[m].participants + 1 \in Nat
    BY <1>1, MarketFacts DEF Market
  <2>2. x \in Market
    BY <2>1, StakedEntry, Zenon
  <2> QED BY <2>1, <2>2, MarketAssumption DEF Market, MarketAssumption
<1>7. \A n \in MarketIds : market'[n] = IF n = m THEN x ELSE market[n]
  BY <1>5 DEF LifecycleInv, LifecycleTypeOK
<1>8. PoolOf' = [PoolOf EXCEPT ![m] = PoolOf[m] + stake]
      /\ HeadsOf' = [HeadsOf EXCEPT ![m] = HeadsOf[m] + 1]
  BY <1>1, <1>6, <1>7 DEF PoolOf, HeadsOf
<1> QED BY <1>1, <1>2, <1>3, <1>4, <1>8

(* ... and what a payout does. *)
LEMMA PayingEffect ==
  ASSUME LifecycleInv, NEW m \in Created, NEW S \in SUBSET Users, NEW winning,
         Pays(m, S, winning)
  PROVE  /\ S \subseteq {u \in Users : pred[m][u] # None}
         /\ market[m].endTime <= now
         /\ pred' = [pred EXCEPT ![m] = Unpaid(pred[m], S)]
         /\ claimed' = [claimed EXCEPT ![m] = Paid(pred[m], claimed[m], S)]
         /\ UNCHANGED <<now, market, predictors, PoolOf, HeadsOf>>
<1>1. S \subseteq {u \in Users : pred[m][u] # None}
  BY DEF Pays, Winners
<1>2. market[m].endTime <= now
  BY MarketFacts DEF Pays, LifecycleInv, Bookkeeping
<1>3. UNCHANGED <<now, market, predictors>>
  BY DEF Pays, PayOut, marketVars
<1>4. /\ pred' = [pred EXCEPT ![m] = Unpaid(pred[m], S)]
      /\ claimed' = [claimed EXCEPT ![m] = Paid(pred[m], claimed[m], S)]
  BY Zenon DEF Pays, PayOut, MarkClaimed, Unpaid, Paid
<1> QED BY <1>1, <1>2, <1>3, <1>4 DEF PoolOf, HeadsOf

(* The rows of the markets after a step. *)
LEMMA RowsKept ==
  ASSUME LifecycleInv, RecordsInv, [Next]_vars, NEW n \in MarketIds
  PROVE  RowOK(predictors'[n], pred'[n], claimed'[n], PoolOf'[n], HeadsOf'[n])
<1> USE PlatformAssumption, MarketAssumption
<1>1. /\ RowOK(predictors[n], pred[n], claimed[n], PoolOf[n], HeadsOf[n])
      /\ pred[n] \in Row /\ claimed[n] \in Row /\ predictors[n] \in Seq(Users)
      /\ PoolOf[n] \in Nat /\ HeadsOf[n] \in Nat
      /\ \A u \in Users : pred[n][u] = None \/ claimed[n][u] = None
      /\ Range(predictors[n]) \subseteq Users
  <2>1. predictors[n] \in Seq(Users)
    BY RecordTypes
  <2>2. Range(predictors[n]) \subseteq Users
    BY <2>1 DEF Range
  <2> QED BY <2>1, <2>2, PoolTypes DEF RecordsInv, LifecycleInv, LifecycleTypeOK, OneRecord, Row
<1>2. CASE StakesKept
  BY <1>1, <1>2 DEF StakesKept
<1>3. CASE Staking
  <2> PICK u \in Users, m \in Created, o \in Outcomes, stake \in Stakes :
             SubmitPrediction(u, m, o, stake)
    BY <1>3 DEF Staking
  <2> PICK r, q, list : /\ r = [outcome |-> o, stake |-> stake]
                        /\ q = [pred[m] EXCEPT ![u] = r]
                        /\ list = Append(predictors[m], u)
    OBVIOUS
  <2>1. /\ r \in Prediction /\ stake \in Nat /\ r.stake = stake /\ stake > 0 /\ pred[m][u] = None
        /\ now < market[m].endTime /\ claimed' = claimed
        /\ pred' = [pred EXCEPT ![m] = q]
        /\ predictors' = [predictors EXCEPT ![m] = list]
        /\ PoolOf' = [PoolOf EXCEPT ![m] = PoolOf[m] + stake]
        /\ HeadsOf' = [HeadsOf EXCEPT ![m] = HeadsOf[m] + 1]
    BY StakingEffect
  <2>2. CASE n = m
    <3>1. \A v \in Range(predictors[n]) : pred[n][v] # None
      BY <2>1, <2>2 DEF RecordsInv
    <3>2. RowOK(list, q, claimed[n], PoolOf[n] + r.stake, HeadsOf[n] + 1)
      BY <1>1, <2>1, <2>2, <3>1, RowSubmit
    <3>3. /\ predictors'[n] = list /\ pred'[n] = q /\ claimed'[n] = claimed[n]
          /\ PoolOf'[n] = PoolOf[n] + r.stake /\ HeadsOf'[n] = HeadsOf[n] + 1
      BY <2>1, <2>2, PoolTypes DEF LifecycleInv, LifecycleTypeOK
    <3> QED BY <3>2, <3>3
  <2>3. CASE n # m
    <3>1. /\ predictors'[n] = predictors[n] /\ pred'[n] = pred[n] /\ claimed'[n] = claimed[n]
          /\ PoolOf'[n] = PoolOf[n] /\ HeadsOf'[n] = HeadsOf[n]
      BY <2>1, <2>3, PoolTypes DEF LifecycleInv, LifecycleTypeOK
    <3> QED BY <1>1, <3>1
  <2> QED BY <2>2, <2>3
<1>4. ASSUME NEW m \in Created, NEW S \in SUBSET Users, NEW winning, Pays(m, S, winning)
      PROVE  RowOK(predictors'[n], pred'[n], claimed'[n], PoolOf'[n], HeadsOf'[n])
  <2>0. /\ S \subseteq {u \in Users : pred[m][u] # None}
        /\ UNCHANGED <<predictors, PoolOf, HeadsOf>>
    BY <1>4, PayingEffect
  <2>1. /\ pred' = [pred EXCEPT ![m] = Unpaid(pred[m], S)]
        /\ claimed' = [claimed EXCEPT ![m] = Paid(pred[m], claimed[m], S)]
    BY <1>4, PayingEffect
  <2>2. CASE n = m
    <3>1. RowOK(predictors[n], Unpaid(pred[n], S), Paid(pred[n], claimed[n], S),
                PoolOf[n], HeadsOf[n])
      BY <1>1, <2>0, <2>2, RowPay
    <3>2. pred'[n] = Unpaid(pred[n], S) /\ claimed'[n] = Paid(pred[n], claimed[n], S)
      BY <2>1, <2>2 DEF LifecycleInv, LifecycleTypeOK
    <3> QED BY <2>0, <3>1, <3>2
  <2>3. CASE n # m
    <3>1. pred'[n] = pred[n] /\ claimed'[n] = claimed[n]
      BY <2>1, <2>3 DEF LifecycleInv, LifecycleTypeOK
    <3> QED BY <1>1, <2>0, <3>1
  <2> QED BY <2>2, <2>3
<1>5. ASSUME NEW m \in Created, NEW u \in Users, ExpireClaimed(m, u)
      PROVE  RowOK(predictors'[n], pred'[n], claimed'[n], PoolOf'[n], HeadsOf'[n])
  <2> PICK d : d = [claimed[m] EXCEPT ![u] = None]
    OBVIOUS
  <2>1. /\ claimed[m][u] # None /\ claimed' = [claimed EXCEPT ![m] = d]
        /\ UNCHANGED <<predictors, pred, market>>
    BY <1>5 DEF ExpireClaimed, LifecycleInv, LifecycleTypeOK, marketVars
  <2>2. UNCHANGED <<PoolOf, HeadsOf>>
    BY <2>1 DEF PoolOf, HeadsOf
  <2>3. CASE n = m
    <3>1. RowOK(predictors[n], pred[n], d, PoolOf[n], HeadsOf[n])
      BY <1>1, <2>1, <2>3, RowExpire
    <3>2. claimed'[n] = d
      BY <2>1, <2>3 DEF LifecycleInv, LifecycleTypeOK
    <3> QED BY <2>1, <2>2, <3>1, <3>2
  <2>4. CASE n # m
    <3>1. claimed'[n] = claimed[n]
      BY <2>1, <2>4 DEF LifecycleInv, LifecycleTypeOK
    <3> QED BY <1>1, <2>1, <2>2, <3>1
  <2> QED BY <2>3, <2>4
<1> QED BY <1>2, <1>3, <1>4, <1>5, KindsOfSteps

(* A market that takes stakes took them before too: an end is not moved     *)
(* once it has passed.                                                      *)
LEMMA OpenBefore ==
  ASSUME LifecycleInv, [Next]_vars
  PROVE  /\ Created \subseteq Created'
         /\ now' \in Nat /\ now <= now'
         /\ \A m \in Created : now' < market'[m].endTime => now < market[m].endTime
<1>1. Timetable
  BY NextTimetable
<1>2. now \in Nat /\ now' \in Nat /\ now <= now'
  BY <1>1 DEF Timetable
<1>3. \A m \in Created : TimesKept(m) /\ m \in MarketIds
  BY <1>1, MarketFacts DEF Timetable
<1>4. \A m \in Created : market[m].endTime \in Nat
  BY MarketFacts
<1> QED BY <1>2, <1>3, <1>4 DEF TimesKept, Created

(* Every step keeps the records right. *)
LEMMA RecordsStep ==
  ASSUME LifecycleInv, RecordsInv, [Next]_vars
  PROVE  RecordsInv'
<1>1. ASSUME NEW n \in MarketIds
      PROVE  RowOK(predictors'[n], pred'[n], claimed'[n], PoolOf'[n], HeadsOf'[n])
  BY <1>1, RowsKept
<1>2. ASSUME NEW n \in Created', now' < market'[n].endTime,
             NEW u \in Range(predictors'[n])
      PROVE  pred'[n][u] # None
  <2>0. n \in MarketIds
    BY DEF Created
  <2>1. CASE n \notin Created
    <3>1. predictors[n] = <<>>
      BY <2>0, <2>1 DEF RecordsInv
    <3>2. CASE StakesKept
      <4>1. predictors'[n] = <<>>
        BY <3>1, <3>2 DEF StakesKept
      <4>2. Range(<<>>) = {}
        BY DEF Range
      <4> QED BY <1>2, <4>1, <4>2
    <3>3. CASE Staking
      <4> PICK v \in Users, m \in Created, o \in Outcomes, stake \in Stakes :
                 SubmitPrediction(v, m, o, stake)
        BY <3>3 DEF Staking
      <4>0. predictors' = [predictors EXCEPT ![m] = Append(predictors[m], v)]
        BY StakingEffect
      <4>1. predictors'[n] = predictors[n]
        BY <2>0, <2>1, <4>0 DEF LifecycleInv, LifecycleTypeOK
      <4>2. Range(<<>>) = {}
        BY DEF Range
      <4> QED BY <1>2, <3>1, <4>1, <4>2
    <3>4. CASE \/ \E m \in Created, S \in SUBSET Users : \E winning : Pays(m, S, winning)
               \/ \E m \in Created, v \in Users : ExpireClaimed(m, v)
      <4>1. UNCHANGED market
        BY <3>4, PayingEffect DEF ExpireClaimed, marketVars
      <4> QED BY <2>1, <4>1 DEF Created
    <3> QED BY <3>2, <3>3, <3>4, KindsOfSteps
  <2>2. CASE n \in Created
    <3>1. now < market[n].endTime
      BY <1>2, <2>2, OpenBefore
    <3>2. \A v \in Range(predictors[n]) : pred[n][v] # None
      BY <2>2, <3>1 DEF RecordsInv
    <3>3. CASE StakesKept
      BY <1>2, <3>2, <3>3 DEF StakesKept
    <3>4. CASE Staking
      <4> PICK v \in Users, m \in Created, o \in Outcomes, stake \in Stakes :
                 SubmitPrediction(v, m, o, stake)
        BY <3>4 DEF Staking
      <4> PICK r : r = [outcome |-> o, stake |-> stake]
        OBVIOUS
      <4>1. /\ r \in Prediction
            /\ pred' = [pred EXCEPT ![m] = [pred[m] EXCEPT ![v] = r]]
            /\ predictors' = [predictors EXCEPT ![m] = Append(predictors[m], v)]
        BY StakingEffect
      <4>2. CASE n = m
        <5>1. predictors'[n] = Append(predictors[n], v) /\ pred'[n] = [pred[n] EXCEPT ![v] = r]
          BY <2>0, <4>1, <4>2 DEF LifecycleInv, LifecycleTypeOK
        <5>2. u \in Range(predictors[n]) \cup {v} /\ Range(predictors[n]) \subseteq Users
          BY <1>2, <2>0, <5>1, AppendRange, RecordTypes
        <5>3. r # None
          BY <4>1, MarketAssumption DEF MarketAssumption
        <5>4. pred[n] \in [Users -> Prediction \cup {None}]
          BY <2>0 DEF LifecycleInv, LifecycleTypeOK
        <5> QED BY <3>2, <5>1, <5>2, <5>3, <5>4
      <4>3. CASE n # m
        <5>1. predictors'[n] = predictors[n] /\ pred'[n] = pred[n]
          BY <2>0, <4>1, <4>3 DEF LifecycleInv, LifecycleTypeOK
        <5> QED BY <1>2, <3>2, <5>1
      <4> QED BY <4>2, <4>3
    <3>5. ASSUME NEW m \in Created, NEW S \in SUBSET Users, NEW winning, Pays(m, S, winning)
          PROVE  pred'[n][u] # None
      <4>1. market[m].endTime <= now /\ predictors' = predictors
            /\ pred' = [pred EXCEPT ![m] = Unpaid(pred[m], S)]
        BY <3>5, PayingEffect
      <4>2. n # m
        BY <3>1, <4>1, MarketFacts
      <4>3. pred'[n] = pred[n]
        BY <2>0, <4>1, <4>2 DEF LifecycleInv, LifecycleTypeOK
      <4> QED BY <1>2, <3>2, <4>1, <4>3
    <3>6. CASE \E m \in Created, v \in Users : ExpireClaimed(m, v)
      <4>1. UNCHANGED <<predictors, pred>>
        BY <3>6 DEF ExpireClaimed
      <4> QED BY <1>2, <3>2, <4>1
    <3> QED BY <3>3, <3>4, <3>5, <3>6, KindsOfSteps
  <2> QED BY <2>1, <2>2
<1>3. ASSUME NEW n \in MarketIds, n \notin Created' PROVE predictors'[n] = <<>>
  <2>1. n \notin Created
    BY <1>3, OpenBefore
  <2>2. predictors[n] = <<>>
    BY <2>1 DEF RecordsInv
  <2>3. CASE Staking
    <3> PICK v \in Users, m \in Created, o \in Outcomes, stake \in Stakes :
               SubmitPrediction(v, m, o, stake)
      BY <2>3 DEF Staking
    <3>0. predictors' = [predictors EXCEPT ![m] = Append(predictors[m], v)]
      BY StakingEffect
    <3>1. predictors'[n] = predictors[n]
      BY <2>1, <3>0 DEF LifecycleInv, LifecycleTypeOK
    <3> QED BY <2>2, <3>1
  <2>4. CASE UNCHANGED predictors
    BY <2>2, <2>4
  <2> QED BY <2>3, <2>4, KindsOfSteps, PayingEffect DEF StakesKept, ExpireClaimed
<1> QED BY <1>1, <1>2, <1>3 DEF RecordsInv

(* They are right in the beginning. *)
LEMMA RecordsInit ==
  ASSUME Init
  PROVE  RecordsInv
<1>1. /\ \A m \in MarketIds : market[m] = None /\ predictors[m] = <<>>
      /\ \A m \in MarketIds, u \in Users : pred[m][u] = None /\ claimed[m][u] = None
      /\ Created = {}
  BY DEF Init, Created
<1>2. ASSUME NEW m \in MarketIds
      PROVE  RowOK(predictors[m], pred[m], claimed[m], PoolOf[m], HeadsOf[m])
  <2>1. PoolOf[m] = 0 /\ HeadsOf[m] = 0
    BY <1>1 DEF PoolOf, HeadsOf
  <2>2. Range(predictors[m]) = {} /\ Len(predictors[m]) = 0
    BY <1>1 DEF Range
  <2>3. Cardinality({}) = 0
    BY FS_EmptySet
  <2>4. SumFunctionOnSet(StakeIn(pred[m], claimed[m]), Users) = 0
    <3> PICK f : f = StakeIn(pred[m], claimed[m])
      OBVIOUS
    <3>1. \A u \in Users : f[u] = 0
      BY <1>1 DEF StakeIn
    <3>2. SumFunctionOnSet(f, Users) = 0
      BY <3>1, SumOfZeros, PlatformAssumption DEF PlatformAssumption
    <3> QED BY <3>2
  <2> QED BY <1>1, <2>1, <2>2, <2>3, <2>4 DEF RowOK
<1> QED BY <1>1, <1>2 DEF RecordsInv

(* The records of the predictions match the totals of their markets in      *)
(* every reachable state.                                                   *)
THEOREM RecordsInvariant == Spec => []RecordsInv
<1>1. Init => RecordsInv
  BY RecordsInit
<1>2. LifecycleInv /\ RecordsInv /\ [Next]_vars => RecordsInv'
  BY RecordsStep
<1> QED BY <1>1, <1>2, LifecycleInvariant, PTL DEF Spec

(* What the property says, in terms of the rows. *)
LEMMA RowsMatch ==
  ASSUME LifecycleInv, RecordsInv
  PROVE  PoolMatchesPredictions
<1> SUFFICES ASSUME NEW m \in Created
      PROVE  LET listed  == Range(predictors[m])
                 held(u) == IF pred[m][u] # None THEN pred[m][u] ELSE claimed[m][u]
             IN  /\ market[m].participants = Len(predictors[m])
                 /\ Cardinality(listed) = Len(predictors[m])
                 /\ \A u \in Users : held(u) # None => u \in listed
                 /\ (\A u \in listed : held(u) # None) =>
                      market[m].pool = SumFunction([u \in listed |-> held(u).stake])
  BY DEF PoolMatchesPredictions
<1> DEFINE listed  == Range(predictors[m])
           held(u) == IF pred[m][u] # None THEN pred[m][u] ELSE claimed[m][u]
           f == [u \in listed |-> held(u).stake]
<1>1. /\ m \in MarketIds
      /\ RowOK(predictors[m], pred[m], claimed[m], market[m].pool, market[m].participants)
  BY PoolTypes, MarketFacts DEF RecordsInv
<1>2. IsFiniteSet(Users) /\ listed \in SUBSET Users
  BY <1>1, RecordTypes DEF Range
<1>3. ASSUME \A u \in listed : held(u) # None
      PROVE  market[m].pool = SumFunction(f)
  <2> PICK g : g = StakeIn(pred[m], claimed[m])
    OBVIOUS
  <2>1. market[m].pool = SumFunctionOnSet(g, Users)
    BY <1>1, <1>3 DEF RowOK
  <2>2. \A u \in Users : g[u] \in Int
    BY <1>1, RecordTypes DEF StakeIn, Prediction
  <2>3. \A u \in Users \ listed : g[u] = 0
    BY <1>1 DEF RowOK, StakeIn
  <2>4. \A u \in listed : g[u] \in Int /\ f[u] = g[u]
    BY <1>2, <1>3, <2>2 DEF StakeIn
  <2>5. SumFunction(f) = SumFunctionOnSet(f, listed)
    BY DEF SumFunction
  <2>6. IsFiniteSet(listed)
    BY <1>2, FS_Subset
  <2> HIDE DEF f, listed
  <2>7. SumFunctionOnSet(g, listed) = SumFunctionOnSet(f, listed)
    BY <2>4, <2>6, SumAgree
  <2>8. SumFunctionOnSet(g, Users) = SumFunctionOnSet(g, listed)
    BY <1>2, <2>2, <2>3, SumElsewhereZero
  <2> QED BY <2>1, <2>5, <2>7, <2>8
<1> QED BY <1>1, <1>3 DEF RowOK

(* The pool and the head count submit_prediction, claim_payout and the      *)
(* refunds maintain are those of the records, for any number of users,      *)
(* markets and amounts.                                                     *)
THEOREM PoolAlwaysMatchesPredictions == Spec => []PoolMatchesPredictions
<1>1. LifecycleInv /\ RecordsInv => PoolMatchesPredictions
  BY RowsMatch
<1> QED BY <1>1, LifecycleInvariant, RecordsInvariant, PTL

-----------------------------------------------------------------------------
(***************************************************************************)
(* Numbers and statistics.  Every amount is a natural number and no        *)
(* balance is overdrawn; the statistics of users and markets agree.        *)
(***************************************************************************)

(* Division rounds down. *)
LEMMA Division ==
  ASSUME NEW a \in Int, NEW b \in Nat \ {0}
  PROVE  /\ a \div b \in Int /\ b * (a \div b) <= a /\ a < b * (a \div b) + b
         /\ a \in Nat => a \div b \in Nat
OBVIOUS

(* No winner gets more than the share of the pool the stake stands for. *)
LEMMA GrossBounds ==
  ASSUME NEW stake \in Nat, NEW winning \in Nat \ {0}, NEW pool \in Nat
  PROVE  /\ Gross(stake, winning, pool) \in Nat
         /\ winning * Gross(stake, winning, pool) <= stake * pool
<1> PICK q : q = (stake * (pool - winning)) \div winning
  OBVIOUS
<1>1. stake * (pool - winning) \in Int
  OBVIOUS
<1>2. q \in Int /\ winning * q <= stake * (pool - winning)
      /\ stake * (pool - winning) < winning * q + winning
  BY <1>1, Division
<1>3. Gross(stake, winning, pool) = stake + q
  BY DEF Gross
<1>4. stake * (pool - winning) = stake * pool - stake * winning
  OBVIOUS
<1>5. winning * (stake + q) = stake * winning + winning * q
  BY <1>2
<1>6. winning * (stake + q) <= stake * pool /\ stake * pool < winning * (stake + q) + winning
  BY <1>2, <1>4, <1>5
<1>7. stake + q >= 0
  <2>1. stake * pool >= 0
    OBVIOUS
  <2>2. 0 < winning * (stake + q) + winning
    BY <1>2, <1>6, <2>1
  <2>3. winning * (stake + q) + winning = winning * (stake + q + 1)
    BY <1>2
  <2> QED BY <1>2, <2>2, <2>3
<1> QED BY <1>2, <1>3, <1>6, <1>7

(* A fee is at most its percentage of the amount. *)
LEMMA CutBounds ==
  ASSUME NEW amount \in Nat, NEW bps \in Nat
  PROVE  Cut(amount, bps) \in Nat /\ BPS * Cut(amount, bps) <= amount * bps
<1>1. amount * bps \in Nat
  OBVIOUS
<1> QED BY <1>1, Division DEF Cut, BPS

(* What is not positive is not transferred. *)
LEMMA PositiveNat ==
  ASSUME NEW n \in Int
  PROVE  Positive(n) \in Nat /\ n <= Positive(n)
BY DEF Positive

(* Points are never negative. *)
LEMMA PointsNat ==
  ASSUME MarketAssumption, NEW stake \in Nat, NEW correct \in Nat, NEW total \in Nat
  PROVE  Points(stake, correct, total) \in Nat
<1>1. stake \div StakePoint \in Nat
  BY Division DEF MarketAssumption
<1> PICK k, x : /\ k = IF correct < total THEN correct ELSE total
                /\ x = (100 + stake \div StakePoint) * k * 2
  OBVIOUS
<1>2. k \in Nat
  OBVIOUS
<1>3. x \in Nat
  BY <1>1, <1>2
<1>4. CASE total = 0
  BY <1>4 DEF Points
<1>5. CASE total # 0
  <2>1. Points(stake, correct, total) = x \div total
    BY <1>5 DEF Points
  <2> QED BY <1>3, <1>5, <2>1, Division
<1> QED BY <1>4, <1>5

(* In a finite set some element comes after all others. *)
LEMMA Latest ==
  ASSUME NEW S, IsFiniteSet(S), NEW R,
         \A x, y \in S : x = y \/ <<x, y>> \in R \/ <<y, x>> \in R,
         \A x, y, z \in S : <<x, y>> \in R /\ <<y, z>> \in R => <<x, z>> \in R
  PROVE  \A T \in SUBSET S : T # {} =>
           \E x \in T : \A y \in T : y = x \/ <<y, x>> \in R
<1> DEFINE Has(T) == \E x \in T : \A y \in T : y = x \/ <<y, x>> \in R
           G == {T \in SUBSET S : T # {} => Has(T)}
<1>1. {} \in G
  OBVIOUS
<1>2. ASSUME NEW T \in SUBSET S, NEW t \in T, T \ {t} \in G PROVE T \in G
  <2>1. CASE T \ {t} = {}
    <3>1. \A y \in T : y = t
      BY <2>1
    <3> QED BY <3>1
  <2>2. CASE T \ {t} # {}
    <3>1. PICK x \in T \ {t} : \A y \in T \ {t} : y = x \/ <<y, x>> \in R
      BY <1>2, <2>2
    <3>2. CASE <<t, x>> \in R
      <4>1. \A y \in T : y = x \/ <<y, x>> \in R
        BY <3>1, <3>2
      <4> QED BY <4>1
    <3>3. CASE <<x, t>> \in R
      <4>1. \A y \in T : y = t \/ <<y, t>> \in R
        <5> TAKE y \in T
        <5>1. CASE y = t
          BY <5>1
        <5>2. CASE y # t
          BY <3>1, <3>3, <5>2
        <5> QED BY <5>1, <5>2
      <4> QED BY <4>1
    <3>4. x = t \/ <<x, t>> \in R \/ <<t, x>> \in R
      OBVIOUS
    <3> QED BY <3>2, <3>3, <3>4
  <2> QED BY <2>1, <2>2
<1> HIDE DEF G
<1>3. \A T \in SUBSET S : T \in G
  BY <1>1, <1>2, OneByOne
<1> QED BY <1>3 DEF G

(* Refunds of distinct predictions of listed users. *)
Owing(late) ==
  /\ IsFiniteSet(late)
  /\ \A r \in late :
       /\ r.market \in MarketIds /\ r.amount \in Nat
       /\ r.user \in Staked(r.market) \cap Range(predictors[r.market])
       /\ r = [market |-> r.market, user |-> r.user, amount |-> pred[r.market][r.user].stake]

(* The refunds of a part, summed with the amounts of the whole. *)
LEMMA TotalOfPart ==
  ASSUME NEW late, Owing(late), NEW T \in SUBSET late
  PROVE  /\ IsFiniteSet(T) /\ Total(T) \in Nat
         /\ Total(T) = SumFunctionOnSet([r \in late |-> r.amount], T)
<1> PICK f, g : f = [r \in late |-> r.amount] /\ g = [r \in T |-> r.amount]
  OBVIOUS
<1>1. IsFiniteSet(T)
  BY FS_Subset DEF Owing
<1>2. Total(T) = SumFunctionOnSet(g, T)
  BY DEF Total, SumFunction
<1>3. \A r \in T : f[r] \in Nat /\ g[r] = f[r]
  BY DEF Owing
<1>4. SumFunctionOnSet(f, T) = SumFunctionOnSet(g, T) /\ SumFunctionOnSet(f, T) \in Nat
  BY <1>1, <1>3, SumAgree, SumNat
<1> QED BY <1>1, <1>2, <1>4

(* Totals of refunds add up. *)
LEMMA TotalFacts ==
  ASSUME NEW late, Owing(late)
  PROVE  /\ Total({}) = 0
         /\ \A T \in SUBSET late : \A x \in T : Total(T) = x.amount + Total(T \ {x})
         /\ \A T \in SUBSET late : Total(T) \in Nat /\ \A U \in SUBSET T : Total(U) <= Total(T)
         /\ \A T, U \in SUBSET late : T \cap U = {} => Total(T \cup U) = Total(T) + Total(U)
<1> PICK f : f = [r \in late |-> r.amount]
  OBVIOUS
<1>1. \A T \in SUBSET late : /\ IsFiniteSet(T) /\ Total(T) \in Nat
                             /\ Total(T) = SumFunctionOnSet(f, T)
  BY TotalOfPart
<1>2. \A r \in late : f[r] \in Nat /\ f[r] = r.amount
  BY DEF Owing
<1>3. Total({}) = 0
  BY <1>1, SumEmpty
<1>4. ASSUME NEW T \in SUBSET late, NEW x \in T PROVE Total(T) = x.amount + Total(T \ {x})
  <2>1. SumFunctionOnSet(f, T) = f[x] + SumFunctionOnSet(f, T \ {x})
    BY <1>1, <1>2, SumRemove
  <2>2. T \ {x} \in SUBSET late
    OBVIOUS
  <2> QED BY <1>1, <1>2, <2>1, <2>2
<1>5. ASSUME NEW T \in SUBSET late, NEW U \in SUBSET T PROVE Total(U) <= Total(T)
  <2>1. SumFunctionOnSet(f, U) <= SumFunctionOnSet(f, T)
    BY <1>1, <1>2, SumPart
  <2> QED BY <1>1, <2>1
<1>6. ASSUME NEW T \in SUBSET late, NEW U \in SUBSET late, T \cap U = {}
      PROVE  Total(T \cup U) = Total(T) + Total(U)
  <2>1. SumFunctionOnSet(f, T \cup U) = SumFunctionOnSet(f, T) + SumFunctionOnSet(f, U)
    BY <1>1, <1>2, <1>6, SumUnion
  <2> QED BY <1>1, <2>1
<1> QED BY <1>1, <1>3, <1>4, <1>5, <1>6

(* The order in which the loops refund. *)
LEMMA EarlierOrder ==
  ASSUME LifecycleInv, NEW late, Owing(late)
  PROVE  /\ \A q, r \in late : q = r \/ Earlier(q, r) \/ Earlier(r, q)
         /\ \A q, r, s \in late : Earlier(q, r) /\ Earlier(r, s) => Earlier(q, s)
         /\ \A r \in late : ~Earlier(r, r)
<1>1. ASSUME NEW r \in late
      PROVE  /\ Position(r.market, r.user) \in Nat
             /\ predictors[r.market][Position(r.market, r.user)] = r.user
             /\ r.market \in Nat
  <2>1. r.market \in MarketIds /\ r.user \in Range(predictors[r.market])
    BY DEF Owing
  <2>2. predictors[r.market] \in Seq(Users)
    BY <2>1, RecordTypes
  <2>3. \E i \in DOMAIN predictors[r.market] : predictors[r.market][i] = r.user
    BY <2>1 DEF Range
  <2>4. Position(r.market, r.user) \in DOMAIN predictors[r.market]
        /\ predictors[r.market][Position(r.market, r.user)] = r.user
    BY <2>3 DEF Position
  <2> QED BY <2>1, <2>2, <2>4, MarketFacts
<1>2. ASSUME NEW q \in late, NEW r \in late, q.market = r.market, q.user = r.user PROVE q = r
  BY <1>2 DEF Owing
<1>3. ASSUME NEW q \in late, NEW r \in late PROVE q = r \/ Earlier(q, r) \/ Earlier(r, q)
  BY <1>1, <1>2 DEF Earlier
<1>4. ASSUME NEW q \in late, NEW r \in late, NEW s \in late, Earlier(q, r), Earlier(r, s)
      PROVE  Earlier(q, s)
  BY <1>1, <1>4 DEF Earlier
<1>5. ASSUME NEW r \in late PROVE ~Earlier(r, r)
  BY <1>1 DEF Earlier
<1> QED BY <1>3, <1>4, <1>5

(* What is refunded on a best effort was there: each refund was covered by  *)
(* what the earlier ones had left.                                          *)
LEMMA BestEffortCovered ==
  ASSUME LifecycleInv, NEW late, Owing(late), NEW done \in SUBSET late, NEW balance \in Nat,
         BestEffort(done, late, balance)
  PROVE  Total(done) <= balance
<1> PICK R : R = {p \in late \X late : Earlier(p[1], p[2])}
  OBVIOUS
<1>0. \A q, r \in late : <<q, r>> \in R <=> Earlier(q, r)
  OBVIOUS
<1>10. /\ \A q, r \in late : q = r \/ <<q, r>> \in R \/ <<r, q>> \in R
      /\ \A q, r, s \in late : <<q, r>> \in R /\ <<r, s>> \in R => <<q, s>> \in R
  BY <1>0, EarlierOrder
<1>11. IsFiniteSet(late)
  BY DEF Owing
<1>12. \A T \in SUBSET late : T # {} => \E x \in T : \A y \in T : y = x \/ <<y, x>> \in R
  BY ONLY <1>10, <1>11, Latest
<1>1. CASE done = {}
  BY <1>1, TotalFacts
<1>2. CASE done # {}
  <2>1. PICK x \in done : \A y \in done : y = x \/ <<y, x>> \in R
    BY <1>2, <1>12
  <2>2. {q \in done : Earlier(q, x)} = done \ {x}
    BY <1>0, <2>1, EarlierOrder
  <2>3. Refundable(x.amount, balance - Total({q \in done : Earlier(q, x)}))
    BY <2>1 DEF BestEffort
  <2>4. Refundable(x.amount, balance - Total(done \ {x}))
    BY <2>2, <2>3, Zenon
  <2>5. Total(done) = x.amount + Total(done \ {x}) /\ x.amount \in Nat /\ Total(done \ {x}) \in Nat
    BY TotalFacts DEF Owing
  <2> QED BY <2>4, <2>5 DEF Refundable
<1> QED BY <1>1, <1>2

(* If all of it is there, all of it is refunded: no refund is skipped. *)
LEMMA BestEffortComplete ==
  ASSUME LifecycleInv, NEW late, Owing(late), NEW done \in SUBSET late, NEW balance \in Nat,
         BestEffort(done, late, balance), Total(late) <= balance
  PROVE  done = late
<1> PICK R : R = {p \in late \X late : Earlier(p[2], p[1])}
  OBVIOUS
<1>0. \A q, r \in late : <<q, r>> \in R <=> Earlier(r, q)
  OBVIOUS
<1>10. /\ \A q, r \in late : q = r \/ <<q, r>> \in R \/ <<r, q>> \in R
      /\ \A q, r, s \in late : <<q, r>> \in R /\ <<r, s>> \in R => <<q, s>> \in R
  BY <1>0, EarlierOrder
<1>11. IsFiniteSet(late)
  BY DEF Owing
<1>12. \A T \in SUBSET late : T # {} => \E x \in T : \A y \in T : y = x \/ <<y, x>> \in R
  BY ONLY <1>10, <1>11, Latest
<1>1. SUFFICES ASSUME late \ done # {} PROVE FALSE
  OBVIOUS
<1>2. PICK x \in late \ done : \A y \in late \ done : y = x \/ <<y, x>> \in R
  BY <1>1, <1>12
<1>3. \A q \in late : Earlier(q, x) => q \in done
  BY <1>0, <1>2, EarlierOrder
<1> PICK U : U = {q \in done : Earlier(q, x)}
  OBVIOUS
<1>4. U \cup {x} \in SUBSET late /\ x \notin U /\ (U \cup {x}) \ {x} = U
  BY <1>2
<1>5. Total(U \cup {x}) = x.amount + Total(U) /\ Total(U \cup {x}) <= Total(late)
  BY <1>4, TotalFacts
<1>6. x.amount \in Nat /\ Total(U) \in Nat /\ Total(late) \in Nat
  BY <1>4, TotalFacts DEF Owing
<1>7. Refundable(x.amount, balance - Total(U))
  BY <1>5, <1>6 DEF Refundable
<1>8. x \in done
  BY <1>3, <1>7 DEF BestEffort
<1> QED BY <1>2, <1>8

(* The predictions a loop over some markets finds. *)
LEMMA RefundsOwing ==
  ASSUME LifecycleInv, NEW S \in SUBSET MarketIds
  PROVE  Owing(UNION {RefundsOf(c) : c \in S})
<1> PICK late : late = UNION {RefundsOf(c) : c \in S}
  OBVIOUS
<1>1. \A r \in late :
        /\ r.market \in MarketIds /\ r.amount \in Nat
        /\ r.user \in Staked(r.market) \cap Range(predictors[r.market])
        /\ r = [market |-> r.market, user |-> r.user, amount |-> pred[r.market][r.user].stake]
  <2> SUFFICES ASSUME NEW c \in S, NEW r \in RefundsOf(c)
        PROVE  /\ r.market \in MarketIds /\ r.amount \in Nat
               /\ r.user \in Staked(r.market) \cap Range(predictors[r.market])
               /\ r = [market |-> r.market, user |-> r.user,
                       amount |-> pred[r.market][r.user].stake]
    OBVIOUS
  <2>1. PICK u \in Range(predictors[c]) \cap Staked(c) :
          r = [market |-> c, user |-> u, amount |-> pred[c][u].stake]
    BY DEF RefundsOf
  <2>2. pred[c][u].stake \in Nat
    BY RecordTypes DEF Staked, Prediction
  <2> QED BY <2>1, <2>2
<1>2. IsFiniteSet(late)
  <2> PICK f : f = [r \in late |-> <<r.market, r.user>>]
    OBVIOUS
  <2>1. f \in [late -> MarketIds \X Users]
    BY <1>1 DEF Staked
  <2>2. \A q, r \in late : f[q] = f[r] => q = r
    BY <1>1
  <2>3. f \in Injection(late, MarketIds \X Users)
    BY <2>1, <2>2 DEF Injection, IsInjective
  <2>4. IsFiniteSet(MarketIds \X Users)
    BY RecordTypes, FS_Product
  <2> QED BY <2>3, <2>4, FS_Injection
<1> QED BY <1>1, <1>2 DEF Owing

(* The refunds of a market and, best effort, of others after it are covered. *)
LEMMA RefundsCovered ==
  ASSUME LifecycleInv, NEW all, Owing(all), NEW own \in SUBSET all, NEW late \in SUBSET all,
         NEW balance \in Nat, Total(own) <= balance,
         NEW rest \in SUBSET late, BestEffort(rest, late, balance - Total(own))
  PROVE  /\ own \cup rest \in SUBSET all
         /\ Total(own \cup rest) \in Nat /\ Total(own \cup rest) <= balance
<1>1. Owing(late)
  BY FS_Subset DEF Owing
<1>2. Total(own) \in Nat /\ balance - Total(own) \in Nat
  BY TotalFacts
<1>3. Total(rest) <= balance - Total(own)
  BY <1>1, <1>2, BestEffortCovered
<1>4. own \cup rest = own \cup (rest \ own) /\ own \cap (rest \ own) = {}
      /\ rest \ own \in SUBSET all /\ rest \in SUBSET all
  OBVIOUS
<1>5. Total(own \cup (rest \ own)) = Total(own) + Total(rest \ own)
  BY <1>4, TotalFacts
<1>6. Total(rest \ own) <= Total(rest) /\ Total(rest \ own) \in Nat /\ Total(rest) \in Nat
  BY <1>4, TotalFacts
<1>7. Total(own \cup rest) = Total(own) + Total(rest \ own)
  BY <1>4, <1>5, Zenon
<1> QED BY <1>2, <1>3, <1>6, <1>7

(* What is repaid when a market is cancelled ... *)
LEMMA CancellingRefunds ==
  ASSUME LifecycleInv, bank[Contract] \in Nat, NEW m \in Created, CancelMarket(m)
  PROVE  LET kids == LiveOnes(Children(m))
             late == UNION {RefundsOf(c) : c \in kids}
             all  == UNION {RefundsOf(c) : c \in {m} \cup kids}
         IN  \E rest \in SUBSET late :
               /\ BestEffort(rest, late, bank[Contract] - Total(RefundsOf(m)))
               /\ PayRefunds(RefundsOf(m) \cup rest)
               /\ RefundsOf(m) \cup rest \in SUBSET all
               /\ Total(RefundsOf(m) \cup rest) \in Nat
               /\ Total(RefundsOf(m) \cup rest) <= bank[Contract]
<1> DEFINE kids == LiveOnes(Children(m))
           late == UNION {RefundsOf(c) : c \in kids}
           all  == UNION {RefundsOf(c) : c \in {m} \cup kids}
           own  == RefundsOf(m)
<1>1. PICK rest \in SUBSET late : /\ BestEffort(rest, late, bank[Contract] - Total(own))
                                  /\ PayRefunds(own \cup rest)
  BY DEF CancelMarket
<1>2. Total(own) <= bank[Contract]
  BY DEF CancelMarket
<1>3. {m} \cup kids \in SUBSET MarketIds
  BY MarketFacts DEF LiveOnes, Children
<1>4. own \in SUBSET all /\ late \in SUBSET all
  OBVIOUS
<1>5. Owing(all)
  BY <1>3, RefundsOwing
<1> HIDE DEF own, late, all, kids
<1>6. /\ own \cup rest \in SUBSET all
      /\ Total(own \cup rest) \in Nat /\ Total(own \cup rest) <= bank[Contract]
  BY <1>1, <1>2, <1>4, <1>5, RefundsCovered
<1> QED BY <1>1, <1>6 DEF own, late, all, kids

(* ... and when the oracle resolves one. *)
LEMMA ResolvingRefunds ==
  ASSUME LifecycleInv, bank[Contract] \in Nat, NEW m \in Created, NEW o \in Outcomes,
         ResolveMarket(m, o)
  PROVE  LET kids == LiveOnes(Children(m) \ {c \in Children(m) : conditional[c].required = o})
             late == UNION {RefundsOf(c) : c \in kids}
         IN  \E rest \in SUBSET late :
               /\ BestEffort(rest, late, bank[Contract])
               /\ PayRefunds(rest)
               /\ Total(rest) \in Nat /\ Total(rest) <= bank[Contract]
<1> DEFINE kids == LiveOnes(Children(m) \ {c \in Children(m) : conditional[c].required = o})
           late == UNION {RefundsOf(c) : c \in kids}
<1>1. PICK rest \in SUBSET late : BestEffort(rest, late, bank[Contract]) /\ PayRefunds(rest)
  BY DEF ResolveMarket
<1>2. kids \in SUBSET MarketIds
  BY MarketFacts DEF LiveOnes, Children
<1>3. Owing(late)
  BY <1>2, RefundsOwing
<1> HIDE DEF late, kids
<1>4. Total(rest) \in Nat /\ Total(rest) <= bank[Contract]
  BY <1>1, <1>3, BestEffortCovered, TotalFacts
<1> QED BY <1>1, <1>4 DEF late, kids

(* The money of the contract and the statistics are natural numbers.        *)
MoneyTypes ==
  /\ treasury \in Nat
  /\ bank \in [Accounts -> Nat]
  /\ paidOut \in [MarketIds -> Nat]

(* Refunds that are covered leave numbers. *)
LEMMA PayRefundsMoney ==
  ASSUME LifecycleInv, MoneyTypes, NEW S \in SUBSET MarketIds,
         NEW refunds \in SUBSET UNION {RefundsOf(c) : c \in S},
         PayRefunds(refunds), Total(refunds) <= bank[Contract], UNCHANGED treasury
  PROVE  MoneyTypes'
<1> PICK all : all = UNION {RefundsOf(c) : c \in S}
  OBVIOUS
<1>1. Owing(all) /\ refunds \in SUBSET all
  BY RefundsOwing
<1>2. \A T \in SUBSET refunds : Total(T) \in Nat
  BY <1>1, TotalFacts
<1>3. bank' \in [Accounts -> Nat]
  <2>1. bank' = [a \in Accounts |-> IF a = Contract THEN bank[a] - Total(refunds)
                                    ELSE bank[a] + Total({r \in refunds : r.user = a})]
    BY DEF PayRefunds
  <2>2. ASSUME NEW a \in Accounts
        PROVE  (IF a = Contract THEN bank[a] - Total(refunds)
                ELSE bank[a] + Total({r \in refunds : r.user = a})) \in Nat
    <3>1. bank[a] \in Nat /\ Total(refunds) \in Nat
      BY <1>2 DEF MoneyTypes
    <3>2. {r \in refunds : r.user = a} \in SUBSET refunds
      OBVIOUS
    <3>3. Total({r \in refunds : r.user = a}) \in Nat
      BY <1>2, <3>2
    <3> QED BY <3>1, <3>3
  <2> QED BY <2>1, <2>2
<1>4. paidOut' \in [MarketIds -> Nat]
  <2>1. paidOut' = [n \in MarketIds |-> paidOut[n] + Total({r \in refunds : r.market = n})]
    BY DEF PayRefunds
  <2>2. ASSUME NEW n \in MarketIds
        PROVE  paidOut[n] + Total({r \in refunds : r.market = n}) \in Nat
    <3>1. {r \in refunds : r.market = n} \in SUBSET refunds
      OBVIOUS
    <3>2. Total({r \in refunds : r.market = n}) \in Nat
      BY <1>2, <3>1
    <3> QED BY <3>2 DEF MoneyTypes
  <2> QED BY <2>1, <2>2
<1> QED BY <1>3, <1>4 DEF MoneyTypes

(* The tokens a payout moves. *)
Payment(m, S, winning, gross, fee, royalty, net) ==
  /\ gross \in [S -> Nat] /\ fee \in [S -> Nat] /\ royalty \in [S -> Nat] /\ net \in [S -> Int]
  /\ \A u \in S :
       /\ gross[u] = Gross(pred[m][u].stake, winning, market[m].pool)
       /\ winning * gross[u] <= pred[m][u].stake * market[m].pool
       /\ fee[u] = Cut(gross[u], cfg.feeBps)
       /\ royalty[u] = Cut(gross[u], market[m].creatorFee)
       /\ net[u] = gross[u] - fee[u] - royalty[u]

(* The tokens that leave the contract. *)
Outflow(S, royalty, net) ==
  SumFunctionOnSet(royalty, S) + SumFunctionOnSet([u \in S |-> Positive(net[u])], S)

(* What a payout books, with the sums in hand. *)
Booked(m, S, gross, fee, royalty, net) ==
  /\ Outflow(S, royalty, net) <= bank[Contract]
  /\ bank' = [a \in Accounts |->
        IF a = Contract THEN bank[a] - Outflow(S, royalty, net)
        ELSE bank[a] + (IF a \in S THEN Positive(net[a]) ELSE 0)
                     + (IF a = market[m].creator THEN SumFunctionOnSet(royalty, S) ELSE 0)]
  /\ treasury' = treasury + SumFunctionOnSet(fee, S)
  /\ profile' = [u \in Users |->
        IF u \notin S THEN profile[u]
        ELSE [profile[u] EXCEPT
                !.winnings = @ + net[u],
                !.correct  = @ + 1,
                !.points   = @ + Points(pred[m][u].stake, profile[u].correct + 1,
                                        profile[u].predictions)]]
  /\ settlements' = [settlements EXCEPT ![m] =
        [u \in Users |-> settlements[m][u] + IF u \in S THEN 1 ELSE 0]]
  /\ paidOut' = [paidOut EXCEPT ![m] = paidOut[m] + SumFunctionOnSet(gross, S)]
  /\ UNCHANGED creatorStats

(* A payout books the amounts of Payment. *)
LEMMA PaymentBooked ==
  ASSUME LifecycleInv, NEW m \in Created, NEW S \in SUBSET Users, NEW winning,
         Pays(m, S, winning)
  PROVE  \E gross, fee, royalty, net :
           /\ Payment(m, S, winning, gross, fee, royalty, net)
           /\ Booked(m, S, gross, fee, royalty, net)
<1> PICK gross : gross = [u \in S |-> Gross(pred[m][u].stake, winning, market[m].pool)]
  OBVIOUS
<1> PICK fee, royalty : /\ fee = [u \in S |-> Cut(gross[u], cfg.feeBps)]
                        /\ royalty = [u \in S |-> Cut(gross[u], market[m].creatorFee)]
  OBVIOUS
<1> PICK net : net = [u \in S |-> gross[u] - fee[u] - royalty[u]]
  OBVIOUS
<1>1. Payment(m, S, winning, gross, fee, royalty, net)
  <2> SUFFICES ASSUME NEW u \in S
        PROVE  /\ gross[u] \in Nat /\ fee[u] \in Nat /\ royalty[u] \in Nat
               /\ winning * gross[u] <= pred[m][u].stake * market[m].pool
    BY DEF Payment
  <2>1. m \in MarketIds /\ pred[m][u] # None
    BY MarketFacts DEF Pays, Winners
  <2>2. pred[m][u].stake \in Nat /\ market[m].pool \in Nat /\ market[m].creatorFee \in Nat
    BY <2>1, RecordTypes, MarketFacts DEF Prediction, Market
  <2>3. cfg.feeBps \in Nat
    <3>1. cfg \in [admin : Accounts, oracle : Accounts, feeBps : 0..BPS,
                   minStake : Nat \ {0}, paused : BOOLEAN]
      BY Zenon DEF LifecycleInv, LifecycleTypeOK, PlatformTypeOK, Config
    <3>2. cfg.feeBps \in 0..BPS
      BY <3>1
    <3>3. BPS \in Nat
      BY DEF BPS
    <3> QED BY <3>2, <3>3
  <2>4. gross[u] \in Nat /\ winning * gross[u] <= pred[m][u].stake * market[m].pool
    BY <2>2, GrossBounds DEF Pays
  <2> QED BY <2>2, <2>3, <2>4, CutBounds
<1>2. Booked(m, S, gross, fee, royalty, net)
  <2> DEFINE g(u) == Gross(pred[m][u].stake, winning, market[m].pool)
             f(u) == Cut(g(u), cfg.feeBps)
             r(u) == Cut(g(u), market[m].creatorFee)
             n(u) == g(u) - f(u) - r(u)
  <2>1. /\ gross = [u \in S |-> g(u)] /\ fee = [u \in S |-> f(u)]
        /\ royalty = [u \in S |-> r(u)] /\ net = [u \in S |-> n(u)]
        /\ [u \in S |-> Positive(net[u])] = [u \in S |-> Positive(n(u))]
    OBVIOUS
  <2>2. PayOut(m, S, winning)
    BY DEF Pays
  <2>3. /\ SumFunctionOnSet(gross, S) = SumFunction([u \in S |-> g(u)])
        /\ SumFunctionOnSet(fee, S) = SumFunction([u \in S |-> f(u)])
        /\ SumFunctionOnSet(royalty, S) = SumFunction([u \in S |-> r(u)])
        /\ Outflow(S, royalty, net) = SumFunction([u \in S |-> r(u)])
                                        + SumFunction([u \in S |-> Positive(n(u))])
    BY <2>1 DEF SumFunction, Outflow
  <2>4. /\ \A u \in S : net[u] = n(u)
    BY <2>1
  <2> HIDE DEF g, f, r, n
  <2>5. /\ Outflow(S, royalty, net) <= bank[Contract]
        /\ treasury' = treasury + SumFunctionOnSet(fee, S)
        /\ paidOut' = [paidOut EXCEPT ![m] = paidOut[m] + SumFunctionOnSet(gross, S)]
        /\ settlements' = [settlements EXCEPT ![m] =
              [u \in Users |-> settlements[m][u] + IF u \in S THEN 1 ELSE 0]]
        /\ UNCHANGED creatorStats
    BY <2>2, <2>3 DEF PayOut, g, f, r, n
  <2>6. bank' = [a \in Accounts |->
        IF a = Contract THEN bank[a] - Outflow(S, royalty, net)
        ELSE bank[a] + (IF a \in S THEN Positive(net[a]) ELSE 0)
                     + (IF a = market[m].creator THEN SumFunctionOnSet(royalty, S) ELSE 0)]
    BY <2>2, <2>3, <2>4 DEF PayOut, g, f, r, n
  <2>7. profile' = [u \in Users |->
        IF u \notin S THEN profile[u]
        ELSE [profile[u] EXCEPT
                !.winnings = @ + net[u],
                !.correct  = @ + 1,
                !.points   = @ + Points(pred[m][u].stake, profile[u].correct + 1,
                                        profile[u].predictions)]]
    BY <2>2, <2>4 DEF PayOut, g, f, r, n
  <2> QED BY <2>5, <2>6, <2>7 DEF Booked
<1> QED BY <1>1, <1>2

(* Their sums are numbers. *)
LEMMA PaymentSums ==
  ASSUME PlatformAssumption, NEW m, NEW S \in SUBSET Users, NEW winning, NEW gross, NEW fee,
         NEW royalty, NEW net, Payment(m, S, winning, gross, fee, royalty, net)
  PROVE  /\ IsFiniteSet(S)
         /\ SumFunctionOnSet(gross, S) \in Nat /\ SumFunctionOnSet(fee, S) \in Nat
         /\ SumFunctionOnSet(royalty, S) \in Nat
         /\ SumFunctionOnSet([u \in S |-> Positive(net[u])], S) \in Nat
         /\ Outflow(S, royalty, net) \in Nat
<1>1. IsFiniteSet(S)
  BY FS_Subset DEF PlatformAssumption
<1>2. \A u \in S : /\ gross[u] \in Nat /\ fee[u] \in Nat /\ royalty[u] \in Nat
                   /\ net[u] \in Int
  BY DEF Payment
<1> PICK pos : pos = [u \in S |-> Positive(net[u])]
  OBVIOUS
<1>3. \A u \in S : pos[u] \in Nat
  BY <1>2, PositiveNat
<1>4. /\ SumFunctionOnSet(gross, S) \in Nat /\ SumFunctionOnSet(fee, S) \in Nat
      /\ SumFunctionOnSet(royalty, S) \in Nat /\ SumFunctionOnSet(pos, S) \in Nat
  BY <1>1, <1>2, <1>3, SumNat
<1> QED BY <1>1, <1>4 DEF Outflow

(* A payout leaves numbers. *)
LEMMA PaymentMoney ==
  ASSUME LifecycleInv, MoneyTypes, NEW m \in Created, NEW S \in SUBSET Users, NEW winning,
         Pays(m, S, winning)
  PROVE  MoneyTypes'
<1>1. PICK gross, fee, royalty, net : /\ Payment(m, S, winning, gross, fee, royalty, net)
                                      /\ Booked(m, S, gross, fee, royalty, net)
  BY PaymentBooked
<1> PICK out, ro : out = Outflow(S, royalty, net) /\ ro = SumFunctionOnSet(royalty, S)
  OBVIOUS
<1>2. /\ SumFunctionOnSet(gross, S) \in Nat /\ SumFunctionOnSet(fee, S) \in Nat
      /\ ro \in Nat /\ out \in Nat
  BY <1>1, PaymentSums, PlatformAssumption
<1>3. treasury' \in Nat /\ paidOut' \in [MarketIds -> Nat]
  <2>1. treasury' = treasury + SumFunctionOnSet(fee, S)
        /\ paidOut' = [paidOut EXCEPT ![m] = paidOut[m] + SumFunctionOnSet(gross, S)]
    BY <1>1 DEF Booked
  <2>2. m \in MarketIds
    BY MarketFacts
  <2> QED BY <1>2, <2>1, <2>2 DEF MoneyTypes
<1>4. bank' \in [Accounts -> Nat]
  <2>1. \A u \in S : net[u] \in Int /\ Positive(net[u]) \in Nat
    BY <1>1, PositiveNat DEF Payment
  <2>2. /\ out <= bank[Contract]
        /\ bank' = [a \in Accounts |->
              IF a = Contract THEN bank[a] - out
              ELSE bank[a] + (IF a \in S THEN Positive(net[a]) ELSE 0)
                           + (IF a = market[m].creator THEN ro ELSE 0)]
    BY <1>1 DEF Booked
  <2> QED BY <1>2, <2>1, <2>2 DEF MoneyTypes
<1> QED BY <1>3, <1>4 DEF MoneyTypes

(* Every kind of transfer leaves natural numbers. *)
LEMMA DepositMoney ==
  ASSUME PlatformAssumption, MoneyTypes, NEW u \in Users, NEW amount \in Nat,
         Deposit(u, amount)
  PROVE  /\ bank' \in [Accounts -> Nat]
         /\ bank'[Contract] = bank[Contract] + amount
<1>1. u \in Accounts /\ Contract \in Accounts /\ u # Contract
  BY DEF Accounts, PlatformAssumption
<1>2. bank[u] - amount \in Nat /\ bank[Contract] + amount \in Nat
  BY <1>1 DEF Deposit, MoneyTypes
<1> QED BY <1>1, <1>2 DEF Deposit, MoneyTypes

(* ... a payment by the contract ... *)
LEMMA PaidFromContract ==
  ASSUME PlatformAssumption, MoneyTypes, NEW to \in Users, NEW amount \in Nat,
         amount <= bank[Contract],
         bank' = [bank EXCEPT ![Contract] = @ - amount, ![to] = @ + amount]
  PROVE  /\ bank' \in [Accounts -> Nat]
         /\ bank'[Contract] = bank[Contract] - amount
<1>1. to \in Accounts /\ Contract \in Accounts /\ to # Contract
  BY DEF Accounts, PlatformAssumption
<1>2. bank[to] + amount \in Nat /\ bank[Contract] - amount \in Nat
  BY <1>1 DEF MoneyTypes
<1> QED BY <1>1, <1>2 DEF MoneyTypes

(* The bond of an open dispute is a number. *)
LEMMA BondFacts ==
  ASSUME LifecycleInv, NEW m \in Disputed
  PROVE  /\ m \in Created /\ dispute[m].bond \in Nat /\ dispute[m].disputer \in Users
BY EntryTypes DEF LifecycleInv, DisputedIsResolved, Dispute

(* ... the moves of bonds ... *)
LEMMA DisputingMoney ==
  ASSUME LifecycleInv, MoneyTypes, Disputing
  PROVE  MoneyTypes'
<1> USE PlatformAssumption, MarketAssumption
<1>1. ASSUME NEW u \in Users, NEW m \in Created, NEW bond \in Bonds, RaiseDispute(u, m, bond)
      PROVE  MoneyTypes'
  <2>1. bond \in Nat /\ Deposit(u, bond) /\ UNCHANGED <<treasury, paidOut>>
    BY <1>1 DEF MarketAssumption, RaiseDispute, historyVars
  <2> QED BY <2>1, DepositMoney DEF MoneyTypes
<1>2. ASSUME NEW m \in Disputed, UpholdDispute(m), UNCHANGED paidOut PROVE MoneyTypes'
  <2> PICK bond, to : bond = dispute[m].bond /\ to = dispute[m].disputer
    OBVIOUS
  <2>1. bond \in Nat /\ to \in Users
    BY BondFacts
  <2>2. bond <= bank[Contract] /\ UNCHANGED treasury
        /\ bank' = [bank EXCEPT ![Contract] = @ - bond, ![to] = @ + bond]
    BY <1>2 DEF UpholdDispute
  <2> QED BY <1>2, <2>1, <2>2, PaidFromContract DEF MoneyTypes
<1>3. ASSUME NEW m \in Disputed, RejectDispute(m), UNCHANGED paidOut PROVE MoneyTypes'
  BY <1>3, BondFacts DEF RejectDispute, MoneyTypes
<1> QED BY <1>1, <1>2, <1>3 DEF Disputing, ResolveDispute, historyVars

(* ... and a withdrawal by the admin. *)
LEMMA WithdrawingMoney ==
  ASSUME MoneyTypes, NEW to \in Users, NEW amount \in Withdrawals,
         WithdrawTreasury(to, amount)
  PROVE  MoneyTypes'
<1> USE PlatformAssumption, MarketAssumption
<1>1. amount \in Nat
  BY DEF MarketAssumption
<1>2. amount <= bank[Contract] /\ amount <= treasury /\ treasury' = treasury - amount
      /\ bank' = [bank EXCEPT ![Contract] = @ - amount, ![to] = @ + amount]
      /\ UNCHANGED paidOut
  BY DEF WithdrawTreasury, historyVars
<1>3. bank' \in [Accounts -> Nat]
  BY <1>1, <1>2, PaidFromContract
<1> QED BY <1>1, <1>2, <1>3 DEF MoneyTypes

(* Every step leaves numbers. *)
LEMMA MoneyStep ==
  ASSUME LifecycleInv, RecordsInv, MoneyTypes, [Next]_vars
  PROVE  MoneyTypes'
<1> USE PlatformAssumption, MarketAssumption
<1>0. Contract \in Accounts /\ bank[Contract] \in Nat
  BY DEF Accounts, MoneyTypes
<1>1. UNCHANGED <<treasury, bank, paidOut>> => MoneyTypes'
  BY DEF MoneyTypes
<1>2. PlatformStep \/ Creation \/ Editing \/ UNCHANGED vars => MoneyTypes'
  BY <1>1 DEF PlatformStep, Creation, CreateMarket, CreateConditionalMarket, AddMarket, Editing,
              UpdateCreatorFee, ExtendEndTime, CloseMarket, vars, moneyVars, historyVars
<1>3. ASSUME Staking PROVE MoneyTypes'
  <2> PICK u \in Users, m \in Created, o \in Outcomes, stake \in Stakes :
             SubmitPrediction(u, m, o, stake)
    BY <1>3 DEF Staking
  <2>1. stake \in Nat /\ Deposit(u, stake) /\ UNCHANGED <<treasury, paidOut>>
    BY DEF MarketAssumption, SubmitPrediction, historyVars
  <2> QED BY <2>1, DepositMoney DEF MoneyTypes
<1>4. ASSUME NEW m \in Created, CancelMarket(m) PROVE MoneyTypes'
  <2>1. UNCHANGED treasury
    BY <1>4 DEF CancelMarket
  <2> DEFINE S == {m} \cup LiveOnes(Children(m))
  <2>2. PICK refunds : /\ refunds \in SUBSET UNION {RefundsOf(c) : c \in S}
                       /\ PayRefunds(refunds) /\ Total(refunds) <= bank[Contract]
    BY <1>0, <1>4, CancellingRefunds
  <2>3. S \in SUBSET MarketIds
    BY MarketFacts DEF LiveOnes, Children
  <2> HIDE DEF S
  <2> QED BY <2>1, <2>2, <2>3, PayRefundsMoney
<1>5. ASSUME NEW m \in Created, NEW o \in Outcomes, ResolveMarket(m, o) PROVE MoneyTypes'
  <2>1. UNCHANGED treasury
    BY <1>5 DEF ResolveMarket
  <2> DEFINE S == LiveOnes(Children(m) \ {c \in Children(m) : conditional[c].required = o})
  <2>2. PICK refunds : /\ refunds \in SUBSET UNION {RefundsOf(c) : c \in S}
                       /\ PayRefunds(refunds) /\ Total(refunds) <= bank[Contract]
    BY <1>0, <1>5, ResolvingRefunds
  <2>3. S \in SUBSET MarketIds
    BY MarketFacts DEF LiveOnes, Children
  <2> HIDE DEF S
  <2> QED BY <2>1, <2>2, <2>3, PayRefundsMoney
<1>6. ASSUME NEW m \in Created, NEW S \in SUBSET Users, NEW winning, Pays(m, S, winning)
      PROVE  MoneyTypes'
  BY <1>6, PaymentMoney
<1>7. Claiming \/ (\E m \in Created : BatchDistribute(m)) => MoneyTypes'
  BY <1>6, PayingActions DEF Claiming
<1>8. \A m \in Created, u \in Users : ExpireClaimed(m, u) => MoneyTypes'
  BY <1>1 DEF ExpireClaimed, moneyVars, historyVars
<1>9. Disputing => MoneyTypes'
  BY DisputingMoney
<1>10. Housekeeping => MoneyTypes'
  BY <1>1, WithdrawingMoney DEF Housekeeping, ResetCreatorStats, moneyVars, historyVars
<1> QED BY <1>2, <1>3, <1>4, <1>5, <1>7, <1>8, <1>9, <1>10 DEF Next

(* The reputation of the creators. *)
CreatorTypes == creatorStats \in [Users -> CreatorStats]

(* A rated creator has a proper entry. *)
LEMMA RatedEntry ==
  ASSUME NEW s \in CreatorStats, NEW a \in Nat, NEW k \in Nat
  PROVE  [s EXCEPT !.average = a, !.resolved = k] \in CreatorStats
BY DEF CreatorStats

(* Every step keeps the types of the reputations. *)
LEMMA CreatorStep ==
  ASSUME LifecycleInv, RecordsInv, CreatorTypes, [Next]_vars
  PROVE  CreatorTypes'
<1> USE PlatformAssumption, MarketAssumption
<1>1. UNCHANGED creatorStats => CreatorTypes'
  BY DEF CreatorTypes
<1>2. ASSUME Creation PROVE CreatorTypes'
  <2> PICK c, p, link : c \in Users /\ AddMarket(c, p, link)
    BY <1>2 DEF Creation, CreateMarket, CreateConditionalMarket, MarketAssumption
  <2>1. creatorStats' = [creatorStats EXCEPT ![c].created = @ + 1]
    BY DEF AddMarket
  <2> QED BY <2>1 DEF CreatorTypes, CreatorStats
<1>3. ASSUME NEW m \in Created, NEW o \in Outcomes, ResolveMarket(m, o) PROVE CreatorTypes'
  <2> PICK c, n : c = market[m].creator /\ n = market[m].participants
    OBVIOUS
  <2>1. c \in Users /\ n \in Nat
    BY MarketFacts DEF Market
  <2> PICK k, a : /\ k = creatorStats[c].resolved
                  /\ a = (creatorStats[c].average * k + n) \div (k + 1)
    OBVIOUS
  <2> PICK r : r = [creatorStats[c] EXCEPT !.average = a, !.resolved = k + 1]
    OBVIOUS
  <2>2. k \in Nat /\ creatorStats[c].average \in Nat /\ creatorStats[c] \in CreatorStats
    BY <2>1 DEF CreatorTypes, CreatorStats
  <2>3. creatorStats[c].average * k \in Nat
    BY <2>2
  <2>4. creatorStats[c].average * k + n \in Nat
    BY <2>1, <2>3
  <2>5. a \in Nat
    BY <2>2, <2>4, Division
  <2>6. r \in CreatorStats
    <3>1. k + 1 \in Nat
      BY <2>2
    <3> QED BY <2>2, <2>5, <3>1, RatedEntry
  <2>7. creatorStats' = [creatorStats EXCEPT ![c] = r]
    BY <1>3, <2>1 DEF ResolveMarket, CreditResolution, CreatorTypes
  <2> QED BY <2>1, <2>6, <2>7 DEF CreatorTypes
<1>4. ASSUME NEW u \in Users, NEW m \in Created, NEW bond \in Bonds, RaiseDispute(u, m, bond)
      PROVE  CreatorTypes'
  <2>1. market[m].creator \in Users
    BY MarketFacts DEF Market
  <2>2. creatorStats' = [creatorStats EXCEPT ![market[m].creator].disputes = @ + 1]
    BY <1>4 DEF RaiseDispute
  <2> QED BY <2>1, <2>2 DEF CreatorTypes, CreatorStats
<1>5. ASSUME NEW c \in Resettable, ResetCreatorStats(c) PROVE CreatorTypes'
  BY <1>5 DEF ResetCreatorStats, CreatorTypes, CreatorStats
<1>6. ASSUME NEW m \in Created, NEW S \in SUBSET Users, NEW winning, Pays(m, S, winning)
      PROVE  UNCHANGED creatorStats
  BY <1>6 DEF Pays, PayOut
<1>7. Claiming \/ (\E m \in Created : BatchDistribute(m)) => UNCHANGED creatorStats
  BY <1>6, PayingActions DEF Claiming
<1>8. (PlatformStep \/ Editing \/ Staking \/ UNCHANGED vars) => UNCHANGED creatorStats
  BY DEF PlatformStep, Editing, UpdateCreatorFee, ExtendEndTime, CloseMarket, Staking,
         SubmitPrediction, vars, statVars
<1>11. \A m \in Created : CancelMarket(m) => UNCHANGED creatorStats
  BY DEF CancelMarket, statVars
<1>12. \A m \in Created, u \in Users : ExpireClaimed(m, u) => UNCHANGED creatorStats
  BY DEF ExpireClaimed, statVars
<1>9. Disputing => CreatorTypes'
  BY <1>1, <1>4 DEF Disputing, ResolveDispute, statVars
<1>10. Housekeeping => CreatorTypes'
  BY <1>1, <1>5 DEF Housekeeping, WithdrawTreasury, statVars
<1> QED BY <1>1, <1>2, <1>3, <1>7, <1>8, <1>9, <1>10, <1>11, <1>12 DEF Next

(* The statistics of the users. *)
StakedBy == [u \in Users |-> profile[u].staked]

(* ... and the predictions they made. *)
MadeBy == [u \in Users |-> profile[u].predictions]

(* The markets a user has a record for. *)
Held(records, u) == {m \in MarketIds : records[m][u] # None}

(* A user is credited with n results at most besides those counted. *)
Credited(p, n) == p.correct + n <= p.predictions

(* The invariant behind StatisticsAgree: the statistics of the users and    *)
(* those of the markets add up to the same, and what a user was credited    *)
(* with and has still to be credited with was predicted.                    *)
StatsInv ==
  /\ profile \in [Users -> Profile]
  /\ SumFunctionOnSet(StakedBy, Users) = SumFunctionOnSet(PoolOf, MarketIds)
  /\ SumFunctionOnSet(MadeBy, Users) = SumFunctionOnSet(HeadsOf, MarketIds)
  /\ \A u \in Users : Credited(profile[u], Cardinality(Held(pred, u)))

(* A user holds records in finitely many markets. *)
LEMMA HeldFinite ==
  ASSUME LifecycleInv, NEW records, NEW u
  PROVE  IsFiniteSet(Held(records, u)) /\ Cardinality(Held(records, u)) \in Nat
BY RecordTypes, FS_Subset, FS_CardinalityType DEF Held

(* A prediction is booked with the user and with the market alike. *)
LEMMA StakingProfile ==
  ASSUME LifecycleInv, StatsInv, NEW u \in Users, NEW m \in Created, NEW o \in Outcomes,
         NEW stake \in Stakes, SubmitPrediction(u, m, o, stake)
  PROVE  StatsInv'
<1> PICK r, x : /\ r = [outcome |-> o, stake |-> stake]
                /\ x = [profile[u] EXCEPT !.predictions = profile[u].predictions + 1,
                                          !.staked = profile[u].staked + stake]
  OBVIOUS
<1>1. /\ r \in Prediction /\ stake \in Nat /\ pred[m][u] = None
      /\ pred' = [pred EXCEPT ![m] = [pred[m] EXCEPT ![u] = r]]
      /\ PoolOf' = [PoolOf EXCEPT ![m] = PoolOf[m] + stake]
      /\ HeadsOf' = [HeadsOf EXCEPT ![m] = HeadsOf[m] + 1]
  BY StakingEffect
<1>2. profile' = [profile EXCEPT ![u] = x] /\ profile[u] \in Profile
  BY DEF SubmitPrediction, StatsInv
<1>3. /\ x \in Profile /\ x.correct = profile[u].correct
      /\ x.predictions = profile[u].predictions + 1 /\ x.staked = profile[u].staked + stake
  <2> PICK p, a, b : p = profile[u] /\ a = p.predictions + 1 /\ b = p.staked + stake
    OBVIOUS
  <2>1. p \in Profile /\ a \in Nat /\ b \in Nat
    BY <1>1, <1>2 DEF Profile
  <2>2. x = [p EXCEPT !.predictions = a, !.staked = b]
    OBVIOUS
  <2>3. x \in Profile /\ x.correct = p.correct /\ x.predictions = a /\ x.staked = b
    BY ONLY <2>1, <2>2 DEF Profile
  <2> QED BY <2>3
<1>4. profile' \in [Users -> Profile]
  BY <1>2, <1>3 DEF StatsInv
<1>5. IsFiniteSet(Users) /\ IsFiniteSet(MarketIds) /\ m \in MarketIds
  BY RecordTypes, MarketFacts
<1>6. PoolOf \in [MarketIds -> Nat] /\ HeadsOf \in [MarketIds -> Nat]
  BY PoolTypes
<1>7. SumFunctionOnSet(PoolOf', MarketIds) = SumFunctionOnSet(PoolOf, MarketIds) + stake
      /\ SumFunctionOnSet(PoolOf, MarketIds) \in Nat
  <2> PICK f, g : f = PoolOf /\ g = PoolOf'
    OBVIOUS
  <2>1. \A y \in MarketIds : f[y] \in Nat /\ g[y] \in Nat /\ (y # m => g[y] = f[y])
    BY <1>1, <1>5, <1>6
  <2>2. g[m] = f[m] + stake
    BY <1>1, <1>5, <1>6
  <2>3. \A y \in MarketIds : f[y] \in Int /\ g[y] \in Int /\ (y # m => g[y] = f[y])
    BY <2>1
  <2>4. SumFunctionOnSet(g, MarketIds) = SumFunctionOnSet(f, MarketIds) - f[m] + g[m]
    BY ONLY <1>5, <2>3, SumChange
  <2>5. SumFunctionOnSet(f, MarketIds) \in Nat
    BY <1>5, <2>1, SumNat
  <2> QED BY <1>1, <1>5, <2>1, <2>2, <2>4, <2>5
<1>8. SumFunctionOnSet(HeadsOf', MarketIds) = SumFunctionOnSet(HeadsOf, MarketIds) + 1
      /\ SumFunctionOnSet(HeadsOf, MarketIds) \in Nat
  <2> PICK f, g : f = HeadsOf /\ g = HeadsOf'
    OBVIOUS
  <2>1. \A y \in MarketIds : f[y] \in Nat /\ g[y] \in Nat /\ (y # m => g[y] = f[y])
    BY <1>1, <1>5, <1>6
  <2>2. g[m] = f[m] + 1
    BY <1>1, <1>5, <1>6
  <2>3. \A y \in MarketIds : f[y] \in Int /\ g[y] \in Int /\ (y # m => g[y] = f[y])
    BY <2>1
  <2>4. SumFunctionOnSet(g, MarketIds) = SumFunctionOnSet(f, MarketIds) - f[m] + g[m]
    BY ONLY <1>5, <2>3, SumChange
  <2>5. SumFunctionOnSet(f, MarketIds) \in Nat
    BY <1>5, <2>1, SumNat
  <2> QED BY <1>1, <1>5, <2>1, <2>2, <2>4, <2>5
<1>9. /\ \A v \in Users : profile[v].staked \in Nat /\ profile[v].predictions \in Nat
      /\ \A v \in Users : v # u => profile'[v] = profile[v]
      /\ profile'[u] = x /\ x.staked \in Nat /\ x.predictions \in Nat
  BY <1>2, <1>3 DEF StatsInv, Profile
<1>10. SumFunctionOnSet(StakedBy', Users) = SumFunctionOnSet(StakedBy, Users) + stake
  <2> PICK f, g : f = StakedBy /\ g = StakedBy'
    OBVIOUS
  <2>1. \A v \in Users : f[v] = profile[v].staked /\ g[v] = profile'[v].staked
    BY DEF StakedBy
  <2>0. f[u] = profile[u].staked /\ g[u] = x.staked
    BY <1>9, <2>1
  <2>2. ASSUME NEW v \in Users
        PROVE  f[v] \in Int /\ g[v] \in Int /\ (v # u => g[v] = f[v])
    <3>1. CASE v = u
      BY ONLY <1>9, <2>0, <3>1
    <3>2. CASE v # u
      BY <1>9, <2>1, <3>2
    <3> QED BY <3>1, <3>2
  <2>3. SumFunctionOnSet(g, Users) = SumFunctionOnSet(f, Users) - f[u] + g[u]
    BY ONLY <1>5, u \in Users, <2>2, SumChange
  <2>4. SumFunctionOnSet(f, Users) \in Int
    BY <1>5, <2>2, SumType
  <2> QED BY <1>1, <1>3, <1>9, <2>0, <2>3, <2>4
<1>11. SumFunctionOnSet(MadeBy', Users) = SumFunctionOnSet(MadeBy, Users) + 1
  <2> PICK f, g : f = MadeBy /\ g = MadeBy'
    OBVIOUS
  <2>1. \A v \in Users : f[v] = profile[v].predictions /\ g[v] = profile'[v].predictions
    BY DEF MadeBy
  <2>0. f[u] = profile[u].predictions /\ g[u] = x.predictions
    BY <1>9, <2>1
  <2>2. ASSUME NEW v \in Users
        PROVE  f[v] \in Int /\ g[v] \in Int /\ (v # u => g[v] = f[v])
    <3>1. CASE v = u
      BY ONLY <1>9, <2>0, <3>1
    <3>2. CASE v # u
      BY <1>9, <2>1, <3>2
    <3> QED BY <3>1, <3>2
  <2>3. SumFunctionOnSet(g, Users) = SumFunctionOnSet(f, Users) - f[u] + g[u]
    BY ONLY <1>5, u \in Users, <2>2, SumChange
  <2>4. SumFunctionOnSet(f, Users) \in Int
    BY <1>5, <2>2, SumType
  <2> QED BY <1>1, <1>3, <1>9, <2>0, <2>3, <2>4
<1>12. ASSUME NEW v \in Users PROVE Credited(profile'[v], Cardinality(Held(pred', v)))
  <2>1. r # None
    BY <1>1, MarketAssumption DEF MarketAssumption
  <2>2. \A n \in MarketIds : pred'[n][v] = IF n = m /\ v = u THEN r ELSE pred[n][v]
    BY <1>1, <1>5 DEF LifecycleInv, LifecycleTypeOK
  <2>3. Credited(profile[v], Cardinality(Held(pred, v)))
    BY DEF StatsInv
  <2>4. CASE v = u
    <3>1. Held(pred', v) = Held(pred, v) \cup {m} /\ m \notin Held(pred, v)
      BY <1>1, <1>5, <2>1, <2>2, <2>4 DEF Held
    <3>2. Cardinality(Held(pred, v) \cup {m}) = Cardinality(Held(pred, v)) + 1
      BY <3>1, HeldFinite, FS_AddElement
    <3>3. Cardinality(Held(pred', v)) = Cardinality(Held(pred, v)) + 1
      BY <3>1, <3>2, Zenon
    <3>4. profile[v].correct \in Nat /\ profile[v].predictions \in Nat
          /\ Cardinality(Held(pred, v)) \in Nat
      BY <1>2, <2>4, HeldFinite DEF Profile
    <3>5. profile[v].correct + Cardinality(Held(pred, v)) <= profile[v].predictions
      BY <2>3 DEF Credited
    <3>6. x.correct + Cardinality(Held(pred', v)) <= x.predictions
      BY <1>3, <2>4, <3>3, <3>4, <3>5
    <3> QED BY <1>9, <2>4, <3>6 DEF Credited
  <2>5. CASE v # u
    <3>1. Held(pred', v) = Held(pred, v)
      BY <2>2, <2>5 DEF Held
    <3> QED BY <1>9, <2>3, <2>5, <3>1
  <2> QED BY <2>4, <2>5
<1> QED BY <1>4, <1>7, <1>8, <1>10, <1>11, <1>12 DEF StatsInv

(* A payout credits each winner once for the record it takes away. *)
LEMMA PayingProfile ==
  ASSUME LifecycleInv, StatsInv, NEW m \in Created, NEW S \in SUBSET Users, NEW winning,
         Pays(m, S, winning)
  PROVE  StatsInv'
<1>1. PICK gross, fee, royalty, net : /\ Payment(m, S, winning, gross, fee, royalty, net)
                                      /\ Booked(m, S, gross, fee, royalty, net)
  BY PaymentBooked
<1>2. /\ S \subseteq {u \in Users : pred[m][u] # None}
      /\ pred' = [pred EXCEPT ![m] = Unpaid(pred[m], S)]
      /\ UNCHANGED <<PoolOf, HeadsOf>>
  BY PayingEffect
<1>3. m \in MarketIds
  BY MarketFacts
<1>4. ASSUME NEW u \in Users
      PROVE  /\ profile'[u] \in Profile /\ profile'[u].predictions = profile[u].predictions
             /\ profile'[u].staked = profile[u].staked
             /\ profile'[u].correct = profile[u].correct + IF u \in S THEN 1 ELSE 0
  <2> PICK p : p = profile[u]
    OBVIOUS
  <2>1. p \in Profile /\ p.winnings \in Int /\ p.correct \in Nat /\ p.points \in Nat
        /\ p.predictions \in Nat
    BY DEF StatsInv, Profile
  <2>2. CASE u \in S
    <3> PICK w, c, k : /\ w = p.winnings + net[u] /\ c = p.correct + 1
                       /\ k = p.points + Points(pred[m][u].stake, c, p.predictions)
      OBVIOUS
    <3>1. net[u] \in Int /\ pred[m][u].stake \in Nat
      BY <1>1, <1>2, <1>3, <2>2, RecordTypes DEF Payment, Prediction
    <3>2. w \in Int /\ c \in Nat
      BY <2>1, <3>1
    <3>3. Points(pred[m][u].stake, c, p.predictions) \in Nat
      BY <2>1, <3>1, <3>2, PointsNat, MarketAssumption
    <3>4. k \in Nat
      BY <2>1, <3>3
    <3>5. profile'[u] = [p EXCEPT !.winnings = w, !.correct = c, !.points = k]
      BY <1>1, <2>2 DEF Booked
    <3> PICK x : x = profile'[u]
      OBVIOUS
    <3>6. x \in Profile /\ x.correct = c /\ x.predictions = p.predictions /\ x.staked = p.staked
      <4>1. x = [p EXCEPT !.winnings = w, !.correct = c, !.points = k]
        BY <3>5
      <4> QED BY ONLY <2>1, <3>2, <3>4, <4>1 DEF Profile
    <3> QED BY <2>2, <3>6
  <2>3. CASE u \notin S
    <3>1. profile'[u] = profile[u]
      BY <1>1, <2>3 DEF Booked
    <3> QED BY <2>1, <2>3, <3>1
  <2> QED BY <2>2, <2>3
<1>5. profile' \in [Users -> Profile]
  <2>1. DOMAIN profile' = Users /\ profile' = [u \in Users |-> profile'[u]]
    BY <1>1 DEF Booked
  <2> QED BY <1>4, <2>1
<1>6. UNCHANGED <<StakedBy, MadeBy>>
  BY <1>4 DEF StakedBy, MadeBy
<1>7. ASSUME NEW u \in Users PROVE Credited(profile'[u], Cardinality(Held(pred', u)))
  <2>1. \A n \in MarketIds :
          pred'[n][u] = IF n = m /\ u \in S THEN None ELSE pred[n][u]
    BY <1>2, <1>3 DEF LifecycleInv, LifecycleTypeOK, Unpaid
  <2>2. profile[u].correct + Cardinality(Held(pred, u)) <= profile[u].predictions
    BY DEF StatsInv, Credited
  <2>3. profile[u].correct \in Nat /\ profile[u].predictions \in Nat
        /\ Cardinality(Held(pred, u)) \in Nat
    BY HeldFinite DEF StatsInv, Profile
  <2>4. CASE u \in S
    <3>1. Held(pred', u) = Held(pred, u) \ {m} /\ m \in Held(pred, u)
      BY <1>2, <1>3, <2>1, <2>4 DEF Held
    <3>2. Cardinality(Held(pred, u) \ {m}) = Cardinality(Held(pred, u)) - 1
      BY <3>1, HeldFinite, FS_RemoveElement
    <3>3. Cardinality(Held(pred', u)) = Cardinality(Held(pred, u)) - 1
      BY <3>1, <3>2, Zenon
    <3> QED BY <1>4, <2>2, <2>3, <2>4, <3>3 DEF Credited
  <2>5. CASE u \notin S
    <3>1. Held(pred', u) = Held(pred, u)
      BY <2>1, <2>5 DEF Held
    <3> QED BY <1>4, <2>2, <2>3, <2>5, <3>1 DEF Credited
  <2> QED BY <2>4, <2>5
<1> QED BY <1>2, <1>5, <1>6, <1>7 DEF StatsInv

(* Every step keeps the statistics in agreement. *)
LEMMA StatsStep ==
  ASSUME LifecycleInv, RecordsInv, StatsInv, [Next]_vars
  PROVE  StatsInv'
<1>1. CASE StakesKept
  BY <1>1 DEF StakesKept, StatsInv, StakedBy, MadeBy
<1>2. CASE Staking
  BY <1>2, StakingProfile DEF Staking
<1>3. CASE \E m \in Created, S \in SUBSET Users : \E winning : Pays(m, S, winning)
  BY <1>3, PayingProfile
<1>4. CASE \E m \in Created, u \in Users : ExpireClaimed(m, u)
  BY <1>4 DEF ExpireClaimed, marketVars, statVars, StatsInv, StakedBy, MadeBy, PoolOf, HeadsOf
<1> QED BY <1>1, <1>2, <1>3, <1>4, KindsOfSteps

(* The numbers the contract starts with. *)
LEMMA NumbersInit ==
  ASSUME Init
  PROVE  MoneyTypes /\ CreatorTypes /\ StatsInv
<1>1. MoneyTypes
  BY MarketAssumption DEF Init, MoneyTypes, MarketAssumption
<1>2. CreatorTypes
  BY DEF Init, CreatorTypes, CreatorStats
<1>3. profile \in [Users -> Profile]
  BY DEF Init, Profile
<1>4. \A u \in Users : profile[u].staked = 0 /\ profile[u].predictions = 0 /\ profile[u].correct = 0
  BY DEF Init
<1>5. IsFiniteSet(Users) /\ IsFiniteSet(MarketIds)
  <2> PICK n : n = MaxMarkets
    OBVIOUS
  <2>1. n \in Nat
    BY MarketAssumption DEF MarketAssumption
  <2>2. IsFiniteSet(1..n)
    BY <2>1, FS_Interval
  <2> QED BY <2>2, PlatformAssumption DEF PlatformAssumption, MarketIds
<1>6. \A m \in MarketIds : PoolOf[m] = 0 /\ HeadsOf[m] = 0
  BY DEF Init, PoolOf, HeadsOf
<1>7. /\ SumFunctionOnSet(PoolOf, MarketIds) = 0 /\ SumFunctionOnSet(HeadsOf, MarketIds) = 0
  <2> PICK f, g : f = PoolOf /\ g = HeadsOf
    OBVIOUS
  <2>1. SumFunctionOnSet(f, MarketIds) = 0 /\ SumFunctionOnSet(g, MarketIds) = 0
    BY <1>5, <1>6, SumOfZeros
  <2> QED BY <2>1
<1>8. /\ SumFunctionOnSet(StakedBy, Users) = 0 /\ SumFunctionOnSet(MadeBy, Users) = 0
  <2> PICK f, g : f = StakedBy /\ g = MadeBy
    OBVIOUS
  <2>0. \A u \in Users : f[u] = 0 /\ g[u] = 0
    BY <1>4 DEF StakedBy, MadeBy
  <2>1. SumFunctionOnSet(f, Users) = 0 /\ SumFunctionOnSet(g, Users) = 0
    BY <1>5, <2>0, SumOfZeros
  <2> QED BY <2>1
<1>9. \A u \in Users : Credited(profile[u], Cardinality(Held(pred, u)))
  <2> TAKE u \in Users
  <2>1. Held(pred, u) = {}
    BY DEF Init, Held
  <2> QED BY <1>4, <2>1, FS_EmptySet DEF Credited
<1> QED BY <1>1, <1>2, <1>3, <1>7, <1>8, <1>9 DEF StatsInv

(* Balances, reputations and statistics have their types, and the two kinds *)
(* of statistics agree, in every reachable state.                           *)
THEOREM NumbersInvariant == Spec => [](MoneyTypes /\ CreatorTypes /\ StatsInv)
<1>1. Init => MoneyTypes /\ CreatorTypes /\ StatsInv
  BY NumbersInit
<1>2. LifecycleInv /\ RecordsInv /\ (MoneyTypes /\ CreatorTypes /\ StatsInv) /\ [Next]_vars
        => (MoneyTypes /\ CreatorTypes /\ StatsInv)'
  BY MoneyStep, CreatorStep, StatsStep
<1> QED BY <1>1, <1>2, LifecycleInvariant, RecordsInvariant, PTL DEF Spec

(* Every variable has its type in every reachable state: no balance and no  *)
(* total is ever driven below zero.                                         *)
THEOREM TypesCorrect == Spec => []TypeOK
<1>1. LifecycleInv /\ MoneyTypes /\ CreatorTypes /\ StatsInv => TypeOK
  BY DEF LifecycleInv, MoneyTypes, CreatorTypes, StatsInv, TypeOK
<1> QED BY <1>1, LifecycleInvariant, NumbersInvariant, PTL

(* The sums over the markets created so far. *)
LEMMA SumOverCreated ==
  ASSUME LifecycleInv, NEW f \in [MarketIds -> Nat], NEW g,
         \A m \in MarketIds : m \notin Created => f[m] = 0,
         \A m \in Created : g[m] = f[m], g = [m \in Created |-> g[m]]
  PROVE  SumFunction(g) = SumFunctionOnSet(f, MarketIds)
<1>1. IsFiniteSet(MarketIds) /\ Created \in SUBSET MarketIds
  BY RecordTypes, MarketFacts
<1>2. IsFiniteSet(Created)
  BY <1>1, FS_Subset
<1>3. \A m \in MarketIds : f[m] \in Int
  OBVIOUS
<1>4. SumFunctionOnSet(f, MarketIds) = SumFunctionOnSet(f, Created)
  BY <1>1, <1>3, SumElsewhereZero
<1>5. SumFunctionOnSet(f, Created) = SumFunctionOnSet(g, Created)
  BY <1>1, <1>2, <1>3, SumAgree
<1>6. SumFunction(g) = SumFunctionOnSet(g, Created)
  <2>1. DOMAIN g = Created
    OBVIOUS
  <2> QED BY <2>1 DEF SumFunction
<1> QED BY <1>4, <1>5, <1>6

(* The statistics submit_prediction and claim_payout keep for users and for *)
(* markets agree, however often a market is reopened and resolved anew.     *)
THEOREM StatisticsAlwaysAgree == Spec => []StatisticsAgree
<1>1. ASSUME LifecycleInv, StatsInv PROVE StatisticsAgree
  <2> USE <1>1
  <2> PICK f, g : f = [m \in Created |-> market[m].pool]
                  /\ g = [m \in Created |-> market[m].participants]
    OBVIOUS
  <2> PICK p, h : p = PoolOf /\ h = HeadsOf
    OBVIOUS
  <2>1. /\ p \in [MarketIds -> Nat] /\ h \in [MarketIds -> Nat]
        /\ \A m \in Created : f[m] = p[m] /\ g[m] = h[m]
    BY PoolTypes
  <2>2. \A m \in MarketIds : m \notin Created => p[m] = 0 /\ h[m] = 0
    BY DEF PoolOf, HeadsOf, Created
  <2>3. SumFunction(f) = SumFunctionOnSet(p, MarketIds)
    BY <2>1, <2>2, SumOverCreated
  <2>4. SumFunction(g) = SumFunctionOnSet(h, MarketIds)
    BY <2>1, <2>2, SumOverCreated
  <2>5. SumFunction([u \in Users |-> profile[u].staked]) = SumFunctionOnSet(StakedBy, Users)
        /\ SumFunction([u \in Users |-> profile[u].predictions]) = SumFunctionOnSet(MadeBy, Users)
    BY DEF SumFunction, StakedBy, MadeBy
  <2>6. SumFunction([u \in Users |-> profile[u].staked]) = SumFunction(f)
        /\ SumFunction([u \in Users |-> profile[u].predictions]) = SumFunction(g)
    BY <2>3, <2>4, <2>5 DEF StatsInv
  <2>7. ASSUME NEW u \in Users PROVE profile[u].correct <= profile[u].predictions
    <3>1. profile[u].correct + Cardinality(Held(pred, u)) <= profile[u].predictions
      BY DEF StatsInv, Credited
    <3>2. profile[u].correct \in Nat /\ profile[u].predictions \in Nat
          /\ Cardinality(Held(pred, u)) \in Nat
      BY HeldFinite DEF StatsInv, Profile
    <3> QED BY <3>1, <3>2
  <2> QED BY <2>6, <2>7 DEF StatisticsAgree
<1> QED BY <1>1, LifecycleInvariant, NumbersInvariant, PTL

-----------------------------------------------------------------------------
(***************************************************************************)
(* The fates of the markets.  What the steps do to the results, the        *)
(* cancellations and the links of conditional markets.                     *)
(***************************************************************************)

(* The entry of one market is edited, its fate is not. *)
Edited(m, r) ==
  /\ m \in MarketIds /\ market[m] # None /\ r # None
  /\ \A n \in MarketIds : market'[n] = IF n = m THEN r ELSE market[n]
  /\ r.resolved = market[m].resolved /\ r.outcome = market[m].outcome
  /\ r.cancelled = market[m].cancelled /\ r.creator = market[m].creator
  /\ r.isPublic = market[m].isPublic

(* An edit of a creator or a stake changes one entry. *)
LEMMA EntryEdited ==
  ASSUME LifecycleInv, Editing \/ Staking
  PROVE  \E m \in Created : \E r \in Market : Edited(m, r)
<1> USE PlatformAssumption, MarketAssumption
<1>1. ASSUME NEW m \in Created, NEW r \in Market, market' = [market EXCEPT ![m] = r],
             r.resolved = market[m].resolved, r.outcome = market[m].outcome,
             r.cancelled = market[m].cancelled, r.creator = market[m].creator,
             r.isPublic = market[m].isPublic
      PROVE  Edited(m, r)
  <2>1. m \in MarketIds /\ market[m] # None /\ r # None
    BY MarketFacts DEF MarketAssumption
  <2>2. \A n \in MarketIds : market'[n] = IF n = m THEN r ELSE market[n]
    BY <1>1, <2>1 DEF LifecycleInv, LifecycleTypeOK
  <2> QED BY <1>1, <2>1, <2>2 DEF Edited
<1>2. ASSUME NEW c \in Creators, NEW m \in Created, NEW fee \in CreatorFees,
             UpdateCreatorFee(c, m, fee)
      PROVE  \E r \in Market : Edited(m, r)
  <2> PICK r : r = [market[m] EXCEPT !.creatorFee = fee]
    OBVIOUS
  <2>1. market' = [market EXCEPT ![m] = r]
    BY <1>2 DEF UpdateCreatorFee
  <2>2. market[m] \in Market /\ r \in Market
    BY MarketFacts DEF Market, MarketAssumption
  <2>3. /\ r.resolved = market[m].resolved /\ r.outcome = market[m].outcome
        /\ r.cancelled = market[m].cancelled /\ r.creator = market[m].creator
        /\ r.isPublic = market[m].isPublic
    BY <2>2 DEF Market
  <2> QED BY <2>1, <2>2, <2>3, <1>1
<1>3. ASSUME NEW c \in Creators, NEW m \in Created, NEW end \in NewEndTimes,
             ExtendEndTime(c, m, end)
      PROVE  \E r \in Market : Edited(m, r)
  <2> PICK later, r : /\ later = IF market[m].resolutionTime < end THEN end
                                 ELSE market[m].resolutionTime
                      /\ r = [market[m] EXCEPT !.endTime = end, !.resolutionTime = later]
    OBVIOUS
  <2>1. market' = [market EXCEPT ![m] = r]
    BY <1>3, MarketFacts DEF ExtendEndTime, LifecycleInv, LifecycleTypeOK
  <2>2. end \in Nat /\ later \in Nat /\ market[m] \in Market
    BY MarketFacts DEF MarketAssumption
  <2>3. r \in Market
    BY <2>2, ExtendedEntry
  <2>4. /\ r.resolved = market[m].resolved /\ r.outcome = market[m].outcome
        /\ r.cancelled = market[m].cancelled /\ r.creator = market[m].creator
        /\ r.isPublic = market[m].isPublic
    BY <2>2 DEF Market
  <2> QED BY <2>1, <2>3, <2>4, <1>1
<1>4. ASSUME NEW c \in Closers, NEW m \in Created, CloseMarket(c, m)
      PROVE  \E r \in Market : Edited(m, r)
  <2> PICK r : r = [market[m] EXCEPT !.closed = TRUE]
    OBVIOUS
  <2>1. market' = [market EXCEPT ![m] = r]
    BY <1>4 DEF CloseMarket
  <2>2. market[m] \in Market /\ r \in Market
    BY MarketFacts, ClosedEntry, Zenon
  <2>3. /\ r.resolved = market[m].resolved /\ r.outcome = market[m].outcome
        /\ r.cancelled = market[m].cancelled /\ r.creator = market[m].creator
        /\ r.isPublic = market[m].isPublic
    BY <2>2 DEF Market
  <2> QED BY <2>1, <2>2, <2>3, <1>1
<1>5. ASSUME NEW u \in Users, NEW m \in Created, NEW o \in Outcomes, NEW stake \in Stakes,
             SubmitPrediction(u, m, o, stake)
      PROVE  \E r \in Market : Edited(m, r)
  <2> PICK r : r = [market[m] EXCEPT !.pool = market[m].pool + stake,
                                     !.participants = market[m].participants + 1]
    OBVIOUS
  <2>1. market' = [market EXCEPT ![m] = r]
    BY <1>5, MarketFacts DEF SubmitPrediction, LifecycleInv, LifecycleTypeOK
  <2>2. market[m] \in Market /\ market[m].pool + stake \in Nat /\ market[m].participants + 1 \in Nat
    BY MarketFacts DEF Market, MarketAssumption
  <2>3. r \in Market
    BY <2>2, StakedEntry, Zenon
  <2>4. /\ r.resolved = market[m].resolved /\ r.outcome = market[m].outcome
        /\ r.cancelled = market[m].cancelled /\ r.creator = market[m].creator
        /\ r.isPublic = market[m].isPublic
    BY <2>2 DEF Market
  <2> QED BY <2>1, <2>3, <2>4, <1>1
<1> QED BY <1>2, <1>3, <1>4, <1>5 DEF Editing, Staking

(* What a market has come to. *)
SameFate(n) ==
  /\ market'[n] # None
  /\ market'[n].resolved = market[n].resolved
  /\ market'[n].outcome = market[n].outcome
  /\ market'[n].cancelled = market[n].cancelled
  /\ market'[n].isPublic = market[n].isPublic

(* Most steps leave the fate of every market and the links alone.           *)
FatesKept ==
  /\ \A n \in Created : SameFate(n)
  /\ \A n \in MarketIds : market[n] = None => market'[n] = None
  /\ UNCHANGED conditional

(* Edits and stakes do so ... *)
LEMMA EditingFates ==
  ASSUME LifecycleInv, Editing \/ Staking
  PROVE  FatesKept
<1>1. PICK m \in Created : \E r \in Market : Edited(m, r)
  BY EntryEdited
<1>2. PICK r \in Market : Edited(m, r)
  BY <1>1
<1>3. ASSUME NEW n \in Created PROVE SameFate(n)
  <2>0. n \in MarketIds /\ market[n] # None
    BY MarketFacts
  <2>1. CASE n = m
    <3>1. market'[n] = r
      BY <1>2, <2>0, <2>1 DEF Edited
    <3> QED BY <1>2, <2>1, <3>1 DEF Edited, SameFate
  <2>2. CASE n # m
    <3>1. market'[n] = market[n]
      BY <1>2, <2>0, <2>2 DEF Edited
    <3> QED BY <2>0, <3>1 DEF SameFate
  <2> QED BY <2>1, <2>2
<1>4. ASSUME NEW n \in MarketIds, market[n] = None PROVE market'[n] = None
  BY <1>2, <1>4 DEF Edited
<1>5. UNCHANGED conditional
  BY DEF Editing, UpdateCreatorFee, ExtendEndTime, CloseMarket, Staking, SubmitPrediction
<1> QED BY <1>3, <1>4, <1>5 DEF FatesKept

(* ... and what leaves the markets alone. *)
LEMMA UntouchedFates ==
  ASSUME LifecycleInv, UNCHANGED marketVars
  PROVE  FatesKept
BY MarketFacts DEF FatesKept, SameFate, marketVars

(* A new market is live, and so is the parent of a new child. *)
LEMMA CreatedFates ==
  ASSUME LifecycleInv, Creation
  PROVE  /\ \A n \in Created : SameFate(n) /\ conditional'[n] = conditional[n]
         /\ \E n \in MarketIds :
              /\ n = marketCount + 1 /\ market[n] = None
              /\ market'[n] # None /\ ~market'[n].resolved /\ ~market'[n].cancelled
              /\ \A k \in MarketIds : k # n =>
                   market'[k] = market[k] /\ conditional'[k] = conditional[k]
              /\ \/ conditional'[n] = None
                 \/ /\ conditional'[n] \in Conditional
                    /\ conditional'[n].parent \in Created /\ Live(conditional'[n].parent)
<1> USE PlatformAssumption, MarketAssumption
<1>1. PICK c, p, link :
        /\ c \in Users /\ p \in Params /\ AddMarket(c, p, link)
        /\ \/ link = None
           \/ link \in Conditional /\ link.parent \in Created /\ Live(link.parent)
  <2>1. ASSUME NEW c \in Creators, NEW p \in RootParams, CreateMarket(c, p)
        PROVE  AddMarket(c, p, None) /\ c \in Users /\ p \in Params
    BY <2>1 DEF CreateMarket, MarketAssumption
  <2>2. ASSUME NEW c \in Creators, NEW p \in ChildParams, NEW parent \in Created,
               NEW o \in Outcomes,
               CreateConditionalMarket(c, parent, o, p)
        PROVE  \E link \in Conditional : /\ AddMarket(c, p, link) /\ link.parent \in Created
                                         /\ Live(link.parent) /\ c \in Users /\ p \in Params
    <3> PICK link : link = [parent |-> parent, required |-> o,
                            depth |-> Depth[parent] + 1, activated |-> FALSE]
      OBVIOUS
    <3>1. AddMarket(c, p, link) /\ Live(parent) /\ Depth[parent] \in 0..(MaxDepth - 1)
      BY <2>2 DEF CreateConditionalMarket, ConditionalParams
    <3>2. link \in Conditional
      BY <3>1, MarketFacts DEF Conditional, MarketAssumption
    <3> QED BY <3>1, <3>2 DEF MarketAssumption
  <2> QED BY <2>1, <2>2 DEF Creation
<1> PICK n : n = marketCount + 1
  OBVIOUS
<1>2. n \in MarketIds /\ market[n] = None
  <2>1. marketCount \in 0..MaxMarkets /\ marketCount < MaxMarkets /\ MaxMarkets \in Nat
    BY <1>1, MarketFacts DEF AddMarket, MarketAssumption
  <2>2. n \in MarketIds /\ n > marketCount
    BY <2>1 DEF MarketIds
  <2> QED BY <2>2 DEF LifecycleInv, Bookkeeping
<1>3. market' = [market EXCEPT ![n] = NewMarket(c, p)]
      /\ conditional' = [conditional EXCEPT ![n] = link]
  BY <1>1 DEF AddMarket
<1>4. market'[n] = NewMarket(c, p) /\ conditional'[n] = link
      /\ \A k \in MarketIds : k # n => market'[k] = market[k] /\ conditional'[k] = conditional[k]
  BY <1>2, <1>3 DEF LifecycleInv, LifecycleTypeOK
<1>5. NewMarket(c, p) \in Market /\ ~NewMarket(c, p).resolved /\ ~NewMarket(c, p).cancelled
  BY <1>1 DEF NewMarket, Market, Params
<1>6. NewMarket(c, p) # None
  BY <1>5 DEF MarketAssumption
<1>7. ASSUME NEW k \in Created PROVE SameFate(k) /\ conditional'[k] = conditional[k]
  <2>1. k \in MarketIds /\ k # n /\ market[k] # None
    BY <1>2, MarketFacts
  <2> QED BY <1>4, <2>1 DEF SameFate
<1> QED BY <1>1, <1>2, <1>4, <1>5, <1>6, <1>7

(* What is left of the fate of a market when others are cancelled. *)
LEMMA CancelledFate ==
  ASSUME LifecycleInv, NEW S \in SUBSET Created, NEW n \in Created
  PROVE  /\ WithCancelled(S)[n] # None
         /\ WithCancelled(S)[n].resolved = market[n].resolved
         /\ WithCancelled(S)[n].outcome = market[n].outcome
         /\ WithCancelled(S)[n].isPublic = market[n].isPublic
         /\ WithCancelled(S)[n].cancelled = (market[n].cancelled \/ n \in S)
<1>1. market[n] \in Market /\ market[n] # None /\ n \in MarketIds
  BY MarketFacts
<1>2. CASE n \in S
  <2>1. [market[n] EXCEPT !.cancelled = TRUE] \in Market
    BY <1>1, CancelledEntry
  <2>2. [market[n] EXCEPT !.cancelled = TRUE] # None
    BY <2>1, MarketAssumption DEF MarketAssumption
  <2>3. WithCancelled(S)[n] = [market[n] EXCEPT !.cancelled = TRUE]
    BY <1>1, <1>2 DEF WithCancelled
  <2> QED BY <1>1, <1>2, <2>2, <2>3 DEF Market
<1>3. CASE n \notin S
  <2>1. WithCancelled(S)[n] = market[n]
    BY <1>1, <1>3 DEF WithCancelled
  <2>2. market[n].cancelled \in BOOLEAN
    BY <1>1 DEF Market
  <2> QED BY <1>1, <1>3, <2>1, <2>2
<1> QED BY <1>2, <1>3

(* Cancelling sets a flag and nothing else. *)
CancelledIn(S, n) ==
  /\ market'[n] # None
  /\ market'[n].resolved = market[n].resolved
  /\ market'[n].outcome = market[n].outcome
  /\ market'[n].isPublic = market[n].isPublic
  /\ market'[n].cancelled = (market[n].cancelled \/ n \in S)

(* The fates once a market is cancelled with its children ... *)
LEMMA CancellingFates ==
  ASSUME LifecycleInv, NEW m \in Created, CancelMarket(m)
  PROVE  /\ \A n \in Created : CancelledIn({m} \cup LiveOnes(Children(m)), n)
         /\ \A n \in MarketIds : market[n] = None => market'[n] = None
         /\ conditional' = WithActivated(Children(m), {})
<1> PICK S : S = {m} \cup LiveOnes(Children(m))
  OBVIOUS
<1>1. market' = WithCancelled(S) /\ conditional' = WithActivated(Children(m), {})
  BY DEF CancelMarket
<1>2. S \in SUBSET Created
  BY DEF LiveOnes, Children
<1>3. \A n \in MarketIds : market[n] = None => market'[n] = None
  BY <1>1, <1>2 DEF WithCancelled, Created
<1>4. ASSUME NEW n \in Created PROVE CancelledIn(S, n)
  <2>1. market'[n] = WithCancelled(S)[n]
    BY <1>1
  <2> QED BY <1>2, <2>1, CancelledFate DEF CancelledIn
<1> QED BY <1>1, <1>3, <1>4

(* ... once the oracle has resolved a market ... *)
LEMMA ResolvingFates ==
  ASSUME LifecycleInv, NEW m \in Created, NEW o \in Outcomes, ResolveMarket(m, o)
  PROVE  LET chosen == {c \in Children(m) : conditional[c].required = o}
         IN  /\ \A n \in Created : n # m => CancelledIn(LiveOnes(Children(m) \ chosen), n)
             /\ market'[m] = [market[m] EXCEPT !.resolved = TRUE, !.outcome = o,
                                               !.resolvedAt = now]
             /\ market'[m] # None /\ market'[m].resolved /\ market'[m].outcome = o
             /\ market'[m].cancelled = market[m].cancelled /\ ~market[m].resolved
             /\ market'[m].isPublic = market[m].isPublic
             /\ \A n \in MarketIds : market[n] = None => market'[n] = None
             /\ conditional' = WithActivated(Children(m), chosen)
<1> PICK chosen, S, r :
      /\ chosen = {c \in Children(m) : conditional[c].required = o}
      /\ S = LiveOnes(Children(m) \ chosen)
      /\ r = [market[m] EXCEPT !.resolved = TRUE, !.outcome = o, !.resolvedAt = now]
  OBVIOUS
<1>1. market' = [WithCancelled(S) EXCEPT ![m] = r] /\ ~market[m].resolved
      /\ conditional' = WithActivated(Children(m), chosen)
  BY DEF ResolveMarket, Resolvable
<1>2. S \in SUBSET Created /\ m \in MarketIds
  BY MarketFacts DEF LiveOnes, Children
<1>3. market[m] \in Market /\ r \in Market
  BY MarketFacts DEF Market
<1>4. /\ r # None /\ r.resolved /\ r.outcome = o /\ r.cancelled = market[m].cancelled
      /\ r.isPublic = market[m].isPublic
  BY <1>3, MarketAssumption DEF Market, MarketAssumption
<1>5. \A n \in MarketIds : market'[n] = IF n = m THEN r ELSE WithCancelled(S)[n]
  BY <1>1 DEF WithCancelled
<1>6. market'[m] = r
  BY <1>2, <1>5
<1>7. ASSUME NEW n \in MarketIds, market[n] = None PROVE market'[n] = None
  <2>1. n # m /\ n \notin S
    BY <1>2, <1>7, MarketFacts
  <2> QED BY <1>5, <1>7, <2>1 DEF WithCancelled
<1>8. ASSUME NEW n \in Created, n # m PROVE CancelledIn(S, n)
  <2>1. n \in MarketIds
    BY MarketFacts
  <2>2. market'[n] = WithCancelled(S)[n]
    BY <1>5, <1>8, <2>1
  <2> QED BY <1>2, <2>2, CancelledFate DEF CancelledIn
<1>9. /\ market'[m] # None /\ market'[m].resolved /\ market'[m].outcome = o
      /\ market'[m].cancelled = market[m].cancelled /\ market'[m].isPublic = market[m].isPublic
  BY <1>4, <1>6
<1> QED BY <1>1, <1>6, <1>7, <1>8, <1>9

(* ... and once a dispute is upheld. *)
LEMMA UpholdingFates ==
  ASSUME LifecycleInv, NEW m \in Disputed, UpholdDispute(m), UNCHANGED conditional
  PROVE  /\ m \in Created /\ \A n \in Created : n # m => SameFate(n)
         /\ market'[m] # None /\ ~market'[m].resolved
         /\ market'[m].cancelled = market[m].cancelled
         /\ market'[m].isPublic = market[m].isPublic
         /\ \A n \in MarketIds : market[n] = None => market'[n] = None
<1> PICK r : r = [market[m] EXCEPT !.resolved = FALSE, !.outcome = None, !.resolvedAt = 0]
  OBVIOUS
<1>1. m \in Created /\ m \in MarketIds
  BY MarketFacts DEF LifecycleInv, DisputedIsResolved
<1>2. \A n \in MarketIds : market'[n] = IF n = m THEN r ELSE market[n]
  BY <1>1, MarketFacts DEF UpholdDispute, LifecycleInv, LifecycleTypeOK
<1>3. market[m] \in Market /\ r \in Market
  BY <1>1, MarketFacts DEF Market
<1>4. /\ r # None /\ ~r.resolved /\ r.cancelled = market[m].cancelled
      /\ r.isPublic = market[m].isPublic
  BY <1>3, MarketAssumption DEF Market, MarketAssumption
<1>5. market'[m] = r
  BY <1>1, <1>2
<1>6. \A n \in Created : n # m => SameFate(n)
  BY <1>2, MarketFacts DEF SameFate
<1>7. \A n \in MarketIds : market[n] = None => market'[n] = None
  BY <1>1, <1>2, MarketFacts
<1> QED BY <1>1, <1>4, <1>5, <1>6, <1>7

(* All other steps. *)
LEMMA QuietFates ==
  ASSUME LifecycleInv, RecordsInv,
         \/ PlatformStep \/ Housekeeping \/ Claiming \/ UNCHANGED vars
         \/ (\E m \in Created : BatchDistribute(m))
         \/ (\E m \in Created, u \in Users : ExpireClaimed(m, u))
         \/ (\E u \in Users, m \in Created, bond \in Bonds : RaiseDispute(u, m, bond))
         \/ (\E m \in Disputed : ResolveDispute(m, FALSE))
  PROVE  UNCHANGED marketVars
<1>1. ASSUME NEW m \in Created, NEW S \in SUBSET Users, NEW winning, Pays(m, S, winning)
      PROVE  UNCHANGED marketVars
  BY <1>1 DEF Pays, PayOut
<1>2. Claiming \/ (\E m \in Created : BatchDistribute(m)) => UNCHANGED marketVars
  BY <1>1, PayingActions DEF Claiming
<1>3. \A m \in Created, u \in Users : ExpireClaimed(m, u) => UNCHANGED marketVars
  BY DEF ExpireClaimed
<1>4. \A u \in Users, m \in Created, bond \in Bonds :
        RaiseDispute(u, m, bond) => UNCHANGED marketVars
  BY DEF RaiseDispute
<1>5. \A m \in Disputed : ResolveDispute(m, FALSE) => UNCHANGED marketVars
  BY DEF ResolveDispute, RejectDispute, marketVars
<1>6. PlatformStep \/ Housekeeping \/ UNCHANGED vars => UNCHANGED marketVars
  BY DEF PlatformStep, Housekeeping, WithdrawTreasury, ResetCreatorStats, vars
<1> QED BY <1>2, <1>3, <1>4, <1>5, <1>6

(* The five things a step can do to the fates of the markets. *)
LEMMA KindsOfFates ==
  ASSUME LifecycleInv, RecordsInv, [Next]_vars
  PROVE  \/ FatesKept
         \/ Creation
         \/ \E m \in Created : CancelMarket(m)
         \/ \E m \in Created, o \in Outcomes : ResolveMarket(m, o)
         \/ \E m \in Disputed : UpholdDispute(m) /\ UNCHANGED conditional
<1>1. Disputing => \/ \E u \in Users, m \in Created, bond \in Bonds : RaiseDispute(u, m, bond)
                   \/ \E m \in Disputed : ResolveDispute(m, FALSE)
                   \/ \E m \in Disputed : UpholdDispute(m) /\ UNCHANGED conditional
  <2>1. ASSUME NEW m \in Disputed, ResolveDispute(m, TRUE)
        PROVE  UpholdDispute(m) /\ UNCHANGED conditional
    BY <2>1 DEF ResolveDispute
  <2> QED BY <2>1 DEF Disputing
<1> QED BY <1>1, QuietFates, UntouchedFates, EditingFates DEF Next

(* A result changes only when a dispute over it is upheld, and it is then   *)
(* withdrawn, not replaced.                                                 *)
THEOREM ResultsStand == Spec => ResultStandsUnlessDisputed
<1>1. ASSUME LifecycleInv, RecordsInv, [Next]_vars
      PROVE  \A m \in Created : market[m].resolved /\ market'[m].outcome # market[m].outcome
               => m \in Disputed /\ ~market'[m].resolved
  <2> USE <1>1
  <2> SUFFICES ASSUME NEW n \in Created, market[n].resolved, market'[n].outcome # market[n].outcome
        PROVE  n \in Disputed /\ ~market'[n].resolved
    OBVIOUS
  <2>1. CASE FatesKept
    BY <2>1 DEF FatesKept, SameFate
  <2>2. CASE Creation
    BY <2>2, CreatedFates DEF SameFate
  <2>3. CASE \E m \in Created : CancelMarket(m)
    BY <2>3, CancellingFates DEF CancelledIn
  <2>4. CASE \E m \in Created, o \in Outcomes : ResolveMarket(m, o)
    <3> PICK m \in Created, o \in Outcomes : ResolveMarket(m, o)
      BY <2>4
    <3>1. ~market[m].resolved
      BY ResolvingFates
    <3>2. \A k \in Created : k # m =>
            CancelledIn(
              LiveOnes(Children(m) \ {c \in Children(m) : conditional[c].required = o}), k)
      BY ResolvingFates
    <3> QED BY <3>1, <3>2 DEF CancelledIn
  <2>5. CASE \E m \in Disputed : UpholdDispute(m) /\ UNCHANGED conditional
    BY <2>5, UpholdingFates DEF SameFate
  <2> QED BY <2>1, <2>2, <2>3, <2>4, <2>5, KindsOfFates
<1>2. LifecycleInv /\ RecordsInv /\ [Next]_vars =>
        [\A m \in Created : market[m].resolved /\ market'[m].outcome # market[m].outcome
           => m \in Disputed /\ ~market'[m].resolved]_vars
  BY <1>1
<1> QED BY <1>2, LifecycleInvariant, RecordsInvariant, PTL DEF Spec, ResultStandsUnlessDisputed

(* A child is younger than its parent.  While its parent's result stands,   *)
(* its flag says whether its condition is met, and one whose condition      *)
(* failed has been cancelled or has reached its end: it is resolved, or     *)
(* was and has been reopened.                                               *)
Kin(c) ==
  conditional[c] # None =>
    LET p == conditional[c].parent
    IN  /\ c \in Created /\ p \in Created /\ p < c
        /\ market[p].resolved =>
             /\ conditional[c].activated = (conditional[c].required = market[p].outcome)
             /\ conditional[c].required # market[p].outcome =>
                  market[c].cancelled \/ market[c].endTime <= now

(* The invariant behind ChildrenFollowResolution. *)
FamilyInv == \A c \in MarketIds : Kin(c)

(* An end that has passed stays where it is. *)
LEMMA EndedStays ==
  ASSUME LifecycleInv, [Next]_vars, NEW c \in Created, market[c].endTime <= now
  PROVE  market'[c].endTime <= now'
<1>1. Timetable /\ c \in MarketIds /\ market[c].endTime \in Nat /\ now \in Nat
  BY NextTimetable, MarketFacts
<1>2. TimesKept(c) /\ now' \in Nat /\ now <= now'
  BY <1>1 DEF Timetable
<1> QED BY <1>1, <1>2 DEF TimesKept

(* What resolving or cancelling a parent does to the link of a child. *)
LEMMA ActivatedLink ==
  ASSUME LifecycleInv, NEW m \in Created, NEW chosen, NEW c \in MarketIds,
         NEW link, link = WithActivated(Children(m), chosen)[c]
  PROVE  IF conditional[c] = None THEN link = None
         ELSE /\ link # None /\ link.parent = conditional[c].parent
              /\ link.required = conditional[c].required
              /\ conditional[c].parent # m => link = conditional[c]
              /\ c \in Created /\ conditional[c].parent = m => link.activated = (c \in chosen)
<1>1. conditional[c] # None => conditional[c] \in Conditional
  BY EntryTypes DEF LifecycleInv
<1>2. CASE c \in Children(m)
  <2>1. conditional[c] \in Conditional /\ conditional[c].parent = m /\ conditional[c] # None
    BY <1>1, <1>2 DEF Children
  <2> PICK x : x = [conditional[c] EXCEPT !.activated = c \in chosen]
    OBVIOUS
  <2>2. WithActivated(Children(m), chosen)[c] = x
    BY <1>2 DEF WithActivated
  <2>3. (c \in chosen) \in BOOLEAN
    OBVIOUS
  <2>4. x \in Conditional /\ x.parent = m /\ x.required = conditional[c].required
        /\ x.activated = (c \in chosen)
    BY <2>1, <2>3 DEF Conditional
  <2>5. x # None
    BY <2>4, MarketAssumption DEF MarketAssumption
  <2> QED BY <2>1, <2>2, <2>4, <2>5
<1>3. CASE c \notin Children(m)
  <2>1. WithActivated(Children(m), chosen)[c] = conditional[c]
    BY <1>3 DEF WithActivated
  <2> QED BY <1>3, <2>1 DEF Children
<1> QED BY <1>2, <1>3

(* Every step keeps the families in order. *)
LEMMA FamilyStep ==
  ASSUME LifecycleInv, RecordsInv, FamilyInv, [Next]_vars
  PROVE  FamilyInv'
<1> SUFFICES ASSUME NEW c \in MarketIds PROVE Kin(c)'
  BY DEF FamilyInv
<1>0. /\ Kin(c) /\ Created \subseteq Created' /\ Created \subseteq MarketIds
      /\ c \in Created /\ market[c].endTime <= now => market'[c].endTime <= now'
  BY OpenBefore, EndedStays, MarketFacts DEF FamilyInv
<1>1. CASE FatesKept
  <2>1. conditional' = conditional /\ \A n \in Created : SameFate(n)
    BY <1>1 DEF FatesKept
  <2> QED BY <1>0, <2>1 DEF Kin, SameFate
<1>2. CASE Creation
  <2>1. PICK n \in MarketIds :
          /\ n = marketCount + 1 /\ market[n] = None /\ market'[n] # None /\ ~market'[n].resolved
          /\ \A k \in MarketIds : k # n =>
               market'[k] = market[k] /\ conditional'[k] = conditional[k]
          /\ \/ conditional'[n] = None
             \/ conditional'[n].parent \in Created /\ Live(conditional'[n].parent)
    BY <1>2, CreatedFates
  <2>2. \A k \in Created : SameFate(k)
    BY <1>2, CreatedFates
  <2>3. CASE c = n
    <3>1. ASSUME NEW p \in Created, Live(p) PROVE p < n /\ ~market'[p].resolved
      <4>1. p <= marketCount /\ p \in Nat /\ marketCount \in Nat
        BY MarketFacts DEF LifecycleInv, Bookkeeping
      <4>2. ~market'[p].resolved
        BY <2>2, <3>1 DEF SameFate, Live
      <4> QED BY <2>1, <4>1, <4>2
    <3>2. n \in Created'
      BY <2>1 DEF Created
    <3> QED BY <1>0, <2>1, <2>3, <3>1, <3>2 DEF Kin
  <2>4. CASE c # n
    <3>1. conditional'[c] = conditional[c] /\ market'[c] = market[c]
      BY <2>1, <2>4
    <3> QED BY <1>0, <2>2, <3>1 DEF Kin, SameFate
  <2> QED BY <2>3, <2>4
<1>3. CASE \E m \in Created : CancelMarket(m)
  <2> PICK m \in Created : CancelMarket(m)
    BY <1>3
  <2> PICK S : S = {m} \cup LiveOnes(Children(m))
    OBVIOUS
  <2>1. /\ \A n \in Created : CancelledIn(S, n)
        /\ conditional' = WithActivated(Children(m), {})
    BY CancellingFates
  <2>2. ~market[m].resolved
    BY DEF CancelMarket, Live
  <2>3. IF conditional[c] = None THEN conditional'[c] = None
        ELSE /\ conditional'[c] # None /\ conditional'[c].parent = conditional[c].parent
             /\ conditional'[c].required = conditional[c].required
             /\ conditional[c].parent # m => conditional'[c] = conditional[c]
    BY <2>1, ActivatedLink
  <2> QED BY <1>0, <2>1, <2>2, <2>3 DEF Kin, CancelledIn
<1>4. CASE \E m \in Created, o \in Outcomes : ResolveMarket(m, o)
  <2> PICK m \in Created, o \in Outcomes : ResolveMarket(m, o)
    BY <1>4
  <2> DEFINE chosen == {k \in Children(m) : conditional[k].required = o}
             S == LiveOnes(Children(m) \ chosen)
  <2>1. /\ \A n \in Created : n # m => CancelledIn(S, n)
        /\ market'[m] # None /\ market'[m].resolved /\ market'[m].outcome = o
        /\ market'[m].cancelled = market[m].cancelled
        /\ conditional' = WithActivated(Children(m), chosen)
    BY ResolvingFates
  <2>8. \A k \in Children(m) : k \in chosen <=> conditional[k].required = o
    OBVIOUS
  <2>9. S = LiveOnes(Children(m) \ chosen)
    OBVIOUS
  <2> HIDE DEF S, chosen
  <2>2. IF conditional[c] = None THEN conditional'[c] = None
        ELSE /\ conditional'[c] # None /\ conditional'[c].parent = conditional[c].parent
             /\ conditional'[c].required = conditional[c].required
             /\ conditional[c].parent # m => conditional'[c] = conditional[c]
             /\ c \in Created /\ conditional[c].parent = m =>
                  conditional'[c].activated = (c \in chosen)
    <3>0. PICK link : link = WithActivated(Children(m), chosen)[c]
      OBVIOUS
    <3>1. IF conditional[c] = None THEN link = None
          ELSE /\ link # None /\ link.parent = conditional[c].parent
               /\ link.required = conditional[c].required
               /\ conditional[c].parent # m => link = conditional[c]
               /\ c \in Created /\ conditional[c].parent = m => link.activated = (c \in chosen)
      BY ONLY LifecycleInv, m \in Created, c \in MarketIds, <3>0, ActivatedLink
    <3>2. conditional'[c] = link
      BY <2>1, <3>0
    <3> QED BY <3>1, <3>2
  <2>3. CASE conditional[c] = None
    BY <2>2, <2>3 DEF Kin
  <2>4. CASE conditional[c] # None /\ conditional[c].parent = m
    <3>1. c \in Created /\ m < c /\ c \in Nat /\ m \in Nat
      BY <1>0, <2>4, MarketFacts DEF Kin
    <3>2. c # m /\ c \in Children(m)
      BY <2>4, <3>1 DEF Children
    <3>3. CancelledIn(S, c)
      BY <2>1, <3>1, <3>2
    <3>4. (c \in chosen) = (conditional[c].required = o)
      BY <2>8, <3>2
    <3>5. ASSUME conditional[c].required # o
          PROVE  market'[c].cancelled \/ market'[c].endTime <= now'
      <4>1. CASE c \in S
        BY <3>3, <4>1 DEF CancelledIn
      <4>2. CASE market[c].cancelled
        BY <3>3, <4>2 DEF CancelledIn
      <4>3. CASE c \notin S /\ ~market[c].cancelled
        <5>1. market[c].resolved
          BY <2>9, <3>2, <3>4, <3>5, <4>3 DEF LiveOnes, Live
        <5>2. market[c].endTime <= now
          BY <3>1, <5>1, MarketFacts DEF LifecycleInv, Bookkeeping
        <5> QED BY <1>0, <3>1, <5>2
      <4> QED BY <4>1, <4>2, <4>3
    <3> QED BY <1>0, <2>1, <2>2, <2>4, <3>1, <3>4, <3>5 DEF Kin
  <2>5. CASE conditional[c] # None /\ conditional[c].parent # m
    <3>1. conditional'[c] = conditional[c] /\ c \in Created /\ conditional[c].parent \in Created
      BY <1>0, <2>2, <2>5 DEF Kin
    <3>2. CancelledIn(S, conditional[c].parent)
      BY <2>1, <2>5, <3>1
    <3>3. market'[c].cancelled = market[c].cancelled \/ CancelledIn(S, c)
      BY <2>1, <3>1
    <3>4. market[c].cancelled => market'[c].cancelled
      BY <3>3 DEF CancelledIn
    <3> QED BY <1>0, <2>5, <3>1, <3>2, <3>4 DEF Kin, CancelledIn
  <2> QED BY <2>3, <2>4, <2>5
<1>5. CASE \E m \in Disputed : UpholdDispute(m) /\ UNCHANGED conditional
  <2> PICK m \in Disputed : UpholdDispute(m) /\ UNCHANGED conditional
    BY <1>5
  <2>1. /\ m \in Created /\ \A n \in Created : n # m => SameFate(n)
        /\ market'[m] # None /\ ~market'[m].resolved
        /\ market'[m].cancelled = market[m].cancelled
    BY UpholdingFates
  <2> QED BY <1>0, <2>1 DEF Kin, SameFate
<1> QED BY <1>1, <1>2, <1>3, <1>4, <1>5, KindsOfFates

(* The families of markets are in order in every reachable state. *)
THEOREM FamilyInvariant == Spec => []FamilyInv
<1>1. Init => FamilyInv
  BY DEF Init, FamilyInv, Kin
<1>2. LifecycleInv /\ RecordsInv /\ FamilyInv /\ [Next]_vars => FamilyInv'
  BY FamilyStep
<1> QED BY <1>1, <1>2, LifecycleInvariant, RecordsInvariant, PTL DEF Spec

(* While a result stands, the children that waited for it and no others     *)
(* carry the activation flag, and a child whose condition failed takes no   *)
(* stakes.                                                                  *)
THEOREM ChildrenAlwaysFollow == Spec => []ChildrenFollowResolution
<1>1. ASSUME LifecycleInv, FamilyInv PROVE ChildrenFollowResolution
  <2> USE <1>1
  <2> SUFFICES ASSUME NEW c \in Created, conditional[c] # None,
                      market[conditional[c].parent].resolved
        PROVE  LET met == conditional[c].required = market[conditional[c].parent].outcome
               IN  conditional[c].activated = met /\ (~met => ~OpenForStakes(c))
    BY DEF ChildrenFollowResolution
  <2>1. Kin(c) /\ c \in MarketIds /\ now \in Nat /\ market[c].endTime \in Nat
    BY MarketFacts DEF FamilyInv
  <2> QED BY <2>1 DEF Kin, OpenForStakes, Live
<1> QED BY <1>1, LifecycleInvariant, FamilyInvariant, PTL

-----------------------------------------------------------------------------
(***************************************************************************)
(* Private markets.  A code grants its market as many uses as its creator  *)
(* put on it; the list of a market and the uses its codes still grant are  *)
(* within the uses granted.                                                *)
(***************************************************************************)

(* A market is private or public for good. *)
LEMMA SamePublicity ==
  ASSUME LifecycleInv, RecordsInv, [Next]_vars, NEW m \in Created
  PROVE  market'[m].isPublic = market[m].isPublic
<1>1. CASE FatesKept
  BY <1>1 DEF FatesKept, SameFate
<1>2. CASE Creation
  BY <1>2, CreatedFates DEF SameFate
<1>3. ASSUME NEW n \in Created, CancelMarket(n)
      PROVE  market'[m].isPublic = market[m].isPublic
  BY <1>3, CancellingFates DEF CancelledIn
<1>4. ASSUME NEW n \in Created, NEW o \in Outcomes, ResolveMarket(n, o)
      PROVE  market'[m].isPublic = market[m].isPublic
  BY <1>4, ResolvingFates DEF CancelledIn
<1>5. ASSUME NEW n \in Disputed, UpholdDispute(n), UNCHANGED conditional
      PROVE  market'[m].isPublic = market[m].isPublic
  BY <1>5, UpholdingFates DEF SameFate
<1> QED BY <1>1, <1>2, <1>3, <1>4, <1>5, KindsOfFates

(* The contract's other calls leave the allowlists, and the clock goes on   *)
(* by at most one.                                                          *)
LEMMA ListsAndClock ==
  ASSUME LifecycleInv, RecordsInv, [Next]_vars
  PROVE  allowlist' = allowlist /\ (now' = now \/ (now < MaxTime /\ now' = now + 1))
<1>1. CASE PlatformStep
  BY <1>1 DEF PlatformStep, Tick, ConfigNext, SetPaused, UpdateProtocolFee, TransferAdmin,
              UpdateOracle
<1>2. CASE Creation
  BY <1>2 DEF Creation, CreateMarket, CreateConditionalMarket, AddMarket
<1>3. CASE Editing
  BY <1>3 DEF Editing, UpdateCreatorFee, ExtendEndTime, CloseMarket, platformVars
<1>4. CASE Staking
  BY <1>4 DEF Staking, SubmitPrediction
<1>5. ASSUME NEW m \in Created, CancelMarket(m) PROVE allowlist' = allowlist /\ now' = now
  BY <1>5 DEF CancelMarket, platformVars
<1>6. ASSUME NEW m \in Created, NEW o \in Outcomes, ResolveMarket(m, o)
      PROVE  allowlist' = allowlist /\ now' = now
  BY <1>6 DEF ResolveMarket, platformVars
<1>7. CASE Claiming \/ \E m \in Created : BatchDistribute(m)
  <2>1. PICK m \in Created, S \in SUBSET Users : \E winning : Pays(m, S, winning)
    BY <1>7, PayingActions DEF Claiming
  <2> QED BY <2>1 DEF Pays, PayOut
<1>8. CASE \E m \in Created, u \in Users : ExpireClaimed(m, u)
  BY <1>8 DEF ExpireClaimed, platformVars
<1>9. CASE Disputing
  BY <1>9 DEF Disputing, RaiseDispute, ResolveDispute, UpholdDispute, RejectDispute,
              platformVars
<1>10. CASE Housekeeping \/ UNCHANGED vars
  BY <1>10 DEF Housekeeping, WithdrawTreasury, ResetCreatorStats, vars, platformVars
<1> QED BY <1>1, <1>2, <1>3, <1>4, <1>5, <1>6, <1>7, <1>8, <1>9, <1>10 DEF Next

(* Only a prediction adds to the list of a market, and only a user let in.  *)
LEMMA PredictorsAdded ==
  ASSUME LifecycleInv, RecordsInv, [Next]_vars, NEW n \in MarketIds
  PROVE  \/ predictors'[n] = predictors[n]
         \/ \E u \in Users : /\ n \in Created /\ Admitted(u, n)
                             /\ predictors'[n] = Append(predictors[n], u)
<1>1. CASE StakesKept
  BY <1>1 DEF StakesKept
<1>2. CASE Staking
  <2> PICK u \in Users, m \in Created, o \in Outcomes, stake \in Stakes :
        SubmitPrediction(u, m, o, stake)
    BY <1>2 DEF Staking
  <2>1. /\ predictors' = [predictors EXCEPT ![m] = Append(predictors[m], u)]
        /\ Admitted(u, m)
    BY DEF SubmitPrediction, Acceptable
  <2>2. predictors \in [MarketIds -> Seq(Users)]
    BY DEF LifecycleInv, LifecycleTypeOK
  <2>3. predictors'[n] = IF n = m THEN Append(predictors[m], u) ELSE predictors[n]
    BY <2>1, <2>2
  <2> QED BY <2>1, <2>3
<1>3. ASSUME NEW m \in Created, NEW S \in SUBSET Users, NEW winning, Pays(m, S, winning)
      PROVE  predictors' = predictors
  BY <1>3 DEF Pays, PayOut
<1>4. ASSUME NEW m \in Created, NEW u \in Users, ExpireClaimed(m, u)
      PROVE  predictors' = predictors
  BY <1>4 DEF ExpireClaimed
<1> QED BY <1>1, <1>2, <1>3, <1>4, KindsOfSteps

(* The uses a code still grants, and those of the codes of one market.      *)
UsesLeft(i) == IF i = None THEN 0 ELSE i.maxUses - i.uses

Unspent == [code \in Codes |-> UsesLeft(invites[code])]

CodesOf(m) == {code \in Codes : code[1] = m}

Outstanding(m) == SumFunctionOnSet(Unspent, CodesOf(m))

InviteTypes ==
  /\ now <= MaxTime
  /\ invites \in [Codes -> Invite \cup {None}]
  /\ \A code \in Codes :
       invites[code] # None => invites[code].uses <= invites[code].maxUses
  /\ issued \in [MarketIds -> Nat]

(* Those on the list and those who can still be let in by the codes in      *)
(* force were all granted a use: a code replaced by a later one of the same *)
(* ledger takes its unspent uses with it.                                   *)
Granted(m) == Cardinality(allowlist[m]) + Outstanding(m) <= issued[m]

PrivateInv ==
  /\ LifecycleInv
  /\ RecordsInv
  /\ InviteTypes
  /\ OnlyInvitedPredict
  /\ \A m \in MarketIds : Granted(m)

LEMMA CodesFinite ==
  /\ IsFiniteSet(Codes)
  /\ \A m \in MarketIds : IsFiniteSet(CodesOf(m)) /\ CodesOf(m) \subseteq Codes
<1>1. IsFiniteSet(MarketIds)
  <2> PICK n : n = MaxMarkets
    OBVIOUS
  <2>1. n \in Nat
    BY MarketAssumption DEF MarketAssumption
  <2>2. IsFiniteSet(1..n)
    BY <2>1, FS_Interval
  <2> QED BY <2>2 DEF MarketIds
<1>2. IsFiniteSet(0..MaxTime)
  BY PlatformAssumption, FS_Interval DEF PlatformAssumption
<1>3. IsFiniteSet(Codes)
  BY <1>1, <1>2, FS_Product DEF Codes
<1>4. \A m \in MarketIds : CodesOf(m) \subseteq Codes
  BY DEF CodesOf
<1> QED BY <1>3, <1>4, FS_Subset

LEMMA UnspentTyped ==
  ASSUME InviteTypes
  PROVE  /\ \A code \in Codes : Unspent[code] \in Nat
         /\ \A m \in MarketIds : Outstanding(m) \in Nat
<1>1. \A code \in Codes : Unspent[code] \in Nat
  BY DEF InviteTypes, Unspent, UsesLeft, Invite
<1>2. \A m \in MarketIds : Outstanding(m) \in Nat
  <2> TAKE m \in MarketIds
  <2>1. \A code \in CodesOf(m) : Unspent[code] \in Nat
    BY <1>1 DEF CodesOf
  <2> QED BY <2>1, CodesFinite, SumNat DEF Outstanding
<1> QED BY <1>1, <1>2

LEMMA ListTyped ==
  ASSUME LifecycleInv, NEW m \in MarketIds
  PROVE  /\ allowlist[m] \in SUBSET Users /\ IsFiniteSet(allowlist[m])
         /\ Cardinality(allowlist[m]) \in Nat
<1>1. allowlist[m] \in SUBSET Users
  BY DEF LifecycleInv, LifecycleTypeOK
<1>2. IsFiniteSet(Users)
  BY PlatformAssumption DEF PlatformAssumption
<1> QED BY <1>1, <1>2, FS_Subset, FS_CardinalityType

(* A call on one code changes what is outstanding of its market only.       *)
LEMMA OneCode ==
  ASSUME InviteTypes, InviteTypes', NEW code \in Codes,
         \A other \in Codes \ {code} : invites'[other] = invites[other],
         NEW m \in MarketIds
  PROVE  Outstanding(m)' = IF m = code[1]
                           THEN Outstanding(m) - UsesLeft(invites[code])
                                  + UsesLeft(invites'[code])
                           ELSE Outstanding(m)
<1> PICK f, g : f = Unspent /\ g = Unspent'
  OBVIOUS
<1>1. \A c \in Codes : f[c] \in Int /\ g[c] \in Int
  <2>1. \A c \in Codes : Unspent[c] \in Nat
    BY UnspentTyped
  <2>2. \A c \in Codes : Unspent'[c] \in Nat
    BY DEF InviteTypes, Unspent, UsesLeft, Invite
  <2> QED BY <2>1, <2>2
<1>2. /\ f[code] = UsesLeft(invites[code]) /\ g[code] = UsesLeft(invites'[code])
      /\ \A c \in Codes : c # code => g[c] = f[c]
  BY DEF Unspent
<1>3. IsFiniteSet(CodesOf(m)) /\ \A c \in CodesOf(m) : c \in Codes
  BY CodesFinite
<1>4. CASE m = code[1]
  <2>1. code \in CodesOf(m)
    BY <1>4 DEF CodesOf
  <2>2. \A c \in CodesOf(m) : f[c] \in Int /\ g[c] \in Int /\ (c # code => g[c] = f[c])
    BY <1>1, <1>2, <1>3
  <2>3. SumFunctionOnSet(g, CodesOf(m)) = SumFunctionOnSet(f, CodesOf(m)) - f[code] + g[code]
    BY ONLY <1>3, <2>1, <2>2, SumChange
  <2> QED BY <1>2, <1>4, <2>3 DEF Outstanding, CodesOf
<1>5. CASE m # code[1]
  <2>1. \A c \in CodesOf(m) : f[c] \in Int /\ g[c] = f[c]
    BY <1>1, <1>2, <1>3, <1>5 DEF CodesOf
  <2>2. SumFunctionOnSet(f, CodesOf(m)) = SumFunctionOnSet(g, CodesOf(m))
    BY ONLY <1>3, <2>1, SumAgree
  <2> QED BY <1>5, <2>2 DEF Outstanding, CodesOf
<1> QED BY <1>4, <1>5

(* The contract's other calls. *)
LEMMA OtherCallsPrivate ==
  ASSUME PrivateInv, [Next]_vars, UNCHANGED inviteVars
  PROVE  PrivateInv'
<1> USE PlatformAssumption, MarketAssumption
<1>1. LifecycleInv /\ RecordsInv /\ InviteTypes /\ OnlyInvitedPredict
      /\ LifecycleInv' /\ RecordsInv'
  BY StepInv, RecordsStep DEF PrivateInv
<1>2. allowlist' = allowlist /\ (now' = now \/ (now < MaxTime /\ now' = now + 1))
      /\ invites' = invites /\ issued' = issued
  BY <1>1, ListsAndClock DEF inviteVars
<1>3. InviteTypes'
  <2>1. now \in Nat /\ MaxTime \in Nat /\ now <= MaxTime
    BY <1>1, MarketFacts DEF PlatformAssumption, InviteTypes
  <2>2. now' <= MaxTime
    BY <1>2, <2>1
  <2> QED BY <1>1, <1>2, <2>2 DEF InviteTypes
<1>4. ASSUME NEW m \in MarketIds PROVE Granted(m)'
  <2>1. Outstanding(m)' = Outstanding(m)
    BY <1>2 DEF Outstanding, Unspent, CodesOf
  <2> QED BY <1>2, <2>1 DEF PrivateInv, Granted
<1>5. ASSUME NEW m \in Created', ~market'[m].isPublic
      PROVE  Range(predictors'[m]) \subseteq allowlist'[m]
  <2>0. m \in MarketIds /\ predictors[m] \in Seq(Users)
    BY <1>1 DEF Created, LifecycleInv, LifecycleTypeOK
  <2>1. CASE m \in Created
    <3>1. ~market[m].isPublic /\ Range(predictors[m]) \subseteq allowlist[m]
      BY <1>1, <1>5, <2>1, SamePublicity DEF OnlyInvitedPredict
    <3>2. ASSUME NEW u \in Users, Admitted(u, m),
                 predictors'[m] = Append(predictors[m], u)
          PROVE  Range(predictors'[m]) \subseteq allowlist[m]
      <4>1. u \in allowlist[m]
        BY <3>1, <3>2 DEF Admitted
      <4>2. Range(predictors'[m]) = Range(predictors[m]) \cup {u}
        BY <2>0, <3>2, AppendRange
      <4> QED BY <3>1, <4>1, <4>2
    <3> QED BY <1>1, <1>2, <2>0, <3>1, <3>2, PredictorsAdded
  <2>2. CASE m \notin Created
    <3>1. predictors[m] = <<>>
      BY <1>1, <2>0, <2>2 DEF RecordsInv
    <3>2. predictors'[m] = <<>>
      BY <1>1, <2>0, <2>2, <3>1, PredictorsAdded
    <3>3. Range(<<>>) = {}
      BY DEF Range
    <3> QED BY <3>2, <3>3
  <2> QED BY <2>1, <2>2
<1>6. OnlyInvitedPredict'
  BY <1>5 DEF OnlyInvitedPredict
<1> QED BY <1>1, <1>3, <1>4, <1>6 DEF PrivateInv

(* What invites leave alone of the rest. *)
LEMMA RestUntouched ==
  ASSUME LifecycleInv, RecordsInv, UNCHANGED <<platformVars, marketVars, stakeVars, disputeVars,
                                               moneyVars, statVars, historyVars>>,
         allowlist' \in [MarketIds -> SUBSET Users]
  PROVE  LifecycleInv' /\ RecordsInv'
<1>1. LifecycleTypeOK'
  BY DEF LifecycleInv, LifecycleTypeOK, platformVars, PlatformTypeOK, marketVars, stakeVars,
         disputeVars, historyVars
<1>2. LifecycleInv'
  BY <1>1 DEF LifecycleInv, Bookkeeping, DisputeIndexConsistent, DisputedIsResolved, OneRecord,
              Created, Disputed, platformVars, marketVars, stakeVars, disputeVars, historyVars
<1>3. /\ PoolOf' = PoolOf /\ HeadsOf' = HeadsOf /\ Created' = Created
      /\ UNCHANGED <<now, market, predictors, pred, claimed>>
  BY DEF PoolOf, HeadsOf, Created, marketVars, stakeVars, platformVars
<1>4. RecordsInv'
  BY <1>3, Zenon DEF RecordsInv
<1> QED BY <1>2, <1>4

(* The times a call on a code sees. *)
LEMMA CodeTimes ==
  ASSUME LifecycleInv, InviteTypes
  PROVE  now \in Nat /\ now \in 0..MaxTime
<1>1. now \in Nat /\ MaxTime \in Nat /\ now <= MaxTime
  BY MarketFacts, PlatformAssumption DEF PlatformAssumption, InviteTypes
<1> QED BY <1>1

(* What a new code, a redeemed one and a revoked one hold. *)
LEMMA NewCode ==
  ASSUME NEW c \in Users, NEW limit \in Nat \ {0}, NEW t \in Nat,
         NEW i, i = [creator |-> c, maxUses |-> limit, uses |-> 0, expiresAt |-> t,
                     active |-> TRUE]
  PROVE  i \in Invite /\ i.uses <= i.maxUses /\ UsesLeft(i) <= limit
BY DEF Invite, UsesLeft

LEMMA RedeemedCode ==
  ASSUME NEW i \in Invite, i # None, i.uses < i.maxUses, NEW j, j = [i EXCEPT !.uses = @ + 1]
  PROVE  j \in Invite /\ j.uses <= j.maxUses /\ UsesLeft(j) <= UsesLeft(i) - 1
<1>1. i.uses \in Nat /\ i.maxUses \in Nat \ {0}
  BY DEF Invite
<1>2. j \in Invite
  BY DEF Invite
<1>3. j.uses = i.uses + 1 /\ j.maxUses = i.maxUses
  BY DEF Invite
<1> QED BY <1>1, <1>2, <1>3 DEF UsesLeft

LEMMA RevokedCode ==
  ASSUME NEW i \in Invite, i # None, i.uses <= i.maxUses, NEW j, j = [i EXCEPT !.active = FALSE]
  PROVE  j \in Invite /\ j.uses <= j.maxUses /\ UsesLeft(j) <= UsesLeft(i) /\ ~j.active
<1>1. i.uses \in Nat /\ i.maxUses \in Nat \ {0}
  BY DEF Invite
<1>2. j \in Invite
  BY DEF Invite
<1>3. j.uses = i.uses /\ j.maxUses = i.maxUses /\ j.active = FALSE
  BY DEF Invite
<1> QED BY <1>1, <1>2, <1>3 DEF UsesLeft

(* A code that is issued, redeemed or revoked is typed afterwards; the      *)
(* others are as they were.                                                 *)
LEMMA CodeWritten ==
  ASSUME InviteTypes, NEW code \in Codes, NEW i \in Invite, i.uses <= i.maxUses,
         invites' = [invites EXCEPT ![code] = i], now' = now, issued' \in [MarketIds -> Nat]
  PROVE  /\ InviteTypes'
         /\ invites'[code] = i
         /\ \A other \in Codes \ {code} : invites'[other] = invites[other]
<1>1. /\ invites' \in [Codes -> Invite \cup {None}]
      /\ invites'[code] = i
      /\ \A other \in Codes \ {code} : invites'[other] = invites[other]
  BY DEF InviteTypes
<1>2. \A c \in Codes : invites'[c] # None => invites'[c].uses <= invites'[c].maxUses
  BY <1>1 DEF InviteTypes
<1> QED BY <1>1, <1>2 DEF InviteTypes

(* What a call that writes one code does to the market of the code and to   *)
(* the others: enough for Granted.                                          *)
LEMMA GrantedKept ==
  ASSUME LifecycleInv, InviteTypes, NEW code \in Codes, NEW i \in Invite, i.uses <= i.maxUses,
         invites' = [invites EXCEPT ![code] = i], now' = now, issued' \in [MarketIds -> Nat],
         NEW m \in MarketIds, Granted(m),
         m # code[1] => allowlist'[m] = allowlist[m] /\ issued'[m] = issued[m],
         m = code[1] => /\ Cardinality(allowlist'[m]) \in Nat
                        /\ Cardinality(allowlist'[m]) + UsesLeft(i) + issued[m]
                             <= Cardinality(allowlist[m]) + UsesLeft(invites[code]) + issued'[m]
  PROVE  Granted(m)'
<1>1. /\ InviteTypes' /\ invites'[code] = i
      /\ \A other \in Codes \ {code} : invites'[other] = invites[other]
  BY CodeWritten
<1>2. Outstanding(m)' = IF m = code[1]
                        THEN Outstanding(m) - UsesLeft(invites[code]) + UsesLeft(i)
                        ELSE Outstanding(m)
  BY <1>1, OneCode
<1>3. /\ Outstanding(m) \in Nat /\ Cardinality(allowlist[m]) \in Nat /\ issued[m] \in Nat
      /\ UsesLeft(invites[code]) \in Nat
  BY UnspentTyped, ListTyped DEF Unspent, InviteTypes
<1>4. UsesLeft(i) \in Int /\ issued'[m] \in Nat
  BY DEF UsesLeft, Invite
<1>5. CASE m # code[1]
  BY <1>2, <1>5 DEF Granted
<1>6. CASE m = code[1]
  BY <1>2, <1>3, <1>4, <1>6 DEF Granted
<1> QED BY <1>5, <1>6

(* A new code of a market stands in for one of the same ledger. *)
LEMMA Generating ==
  ASSUME PrivateInv, NEW c \in Creators, NEW n \in Created, NEW limit \in UseLimits,
         NEW lifetime \in Lifetimes, GenerateInvite(c, n, limit, lifetime)
  PROVE  PrivateInv'
<1> DEFINE i == [creator |-> c, maxUses |-> limit, uses |-> 0, expiresAt |-> now + lifetime,
                 active |-> TRUE]
<1>0. LifecycleInv /\ RecordsInv /\ InviteTypes /\ OnlyInvitedPredict
      /\ \A m \in MarketIds : Granted(m)
  BY DEF PrivateInv
<1>1. /\ invites' = [invites EXCEPT ![Code(n)] = i]
      /\ issued' = [issued EXCEPT ![n] = @ + limit]
      /\ UNCHANGED vars
  BY DEF GenerateInvite
<1>2. /\ limit \in Nat \ {0} /\ lifetime \in Nat /\ n \in MarketIds
      /\ now \in Nat /\ now \in 0..MaxTime
  BY <1>0, InviteAssumption, CodeTimes, MarketFacts DEF InviteAssumption
<1>3. Code(n) \in Codes /\ Code(n)[1] = n
  BY <1>2 DEF Code, Codes
<1>4. i \in Invite /\ i.uses <= i.maxUses /\ UsesLeft(i) <= limit
  <2>1. c \in Users /\ now + lifetime \in Nat
    BY <1>2, MarketAssumption DEF MarketAssumption
  <2> QED BY <1>2, <2>1, NewCode
<1> HIDE DEF i
<1>5. /\ issued' \in [MarketIds -> Nat]
      /\ \A m \in MarketIds : issued'[m] = IF m = n THEN issued[m] + limit ELSE issued[m]
  BY <1>0, <1>1, <1>2 DEF InviteTypes
<1>6. /\ LifecycleInv' /\ RecordsInv' /\ OnlyInvitedPredict'
      /\ allowlist' = allowlist /\ now' = now
  <2>1. UNCHANGED <<platformVars, marketVars, allowlist, stakeVars, disputeVars, moneyVars,
                    statVars, historyVars>>
    BY <1>1 DEF vars
  <2>2. allowlist' \in [MarketIds -> SUBSET Users]
    BY <1>0, <2>1 DEF LifecycleInv, LifecycleTypeOK
  <2>3. OnlyInvitedPredict'
    BY <1>0, <2>1 DEF OnlyInvitedPredict, Created, marketVars, stakeVars
  <2> QED BY <1>0, <2>1, <2>2, <2>3, RestUntouched DEF platformVars
<1>7. InviteTypes'
  BY <1>0, <1>1, <1>3, <1>4, <1>5, <1>6, CodeWritten
<1>8. ASSUME NEW m \in MarketIds PROVE Granted(m)'
  <2>1. UsesLeft(invites[Code(n)]) \in Nat /\ UsesLeft(i) \in Int
    BY <1>0, <1>3, <1>4, UnspentTyped DEF Unspent, UsesLeft, Invite
  <2>2. Cardinality(allowlist[m]) \in Nat /\ issued[m] \in Nat /\ Granted(m)
    BY <1>0, ListTyped DEF InviteTypes
  <2>3. m = Code(n)[1] =>
          /\ Cardinality(allowlist'[m]) \in Nat
          /\ Cardinality(allowlist'[m]) + UsesLeft(i) + issued[m]
               <= Cardinality(allowlist[m]) + UsesLeft(invites[Code(n)]) + issued'[m]
    BY <1>2, <1>3, <1>4, <1>5, <1>6, <2>1, <2>2
  <2>4. m # Code(n)[1] => allowlist'[m] = allowlist[m] /\ issued'[m] = issued[m]
    BY <1>3, <1>5, <1>6
  <2> QED BY <1>0, <1>1, <1>3, <1>4, <1>5, <1>6, <2>2, <2>3, <2>4, GrantedKept
<1> QED BY <1>6, <1>7, <1>8 DEF PrivateInv

(* A redeemed code spends a use on at most one newcomer. *)
LEMMA Redeeming ==
  ASSUME PrivateInv, NEW u \in Users, NEW code \in Codes, RedeemInvite(u, code)
  PROVE  PrivateInv'
<1> DEFINE i == [invites[code] EXCEPT !.uses = @ + 1]
<1>0. LifecycleInv /\ RecordsInv /\ InviteTypes /\ OnlyInvitedPredict
      /\ \A m \in MarketIds : Granted(m)
  BY DEF PrivateInv
<1>1. /\ allowlist' = [allowlist EXCEPT ![code[1]] = @ \cup {u}]
      /\ invites' = [invites EXCEPT ![code] = i]
      /\ UNCHANGED <<platformVars, marketVars, stakeVars, disputeVars, moneyVars, statVars,
                     historyVars, issued>>
  BY DEF RedeemInvite
<1>2. /\ invites[code] \in Invite /\ invites[code] # None
      /\ invites[code].uses < invites[code].maxUses
  BY <1>0 DEF RedeemInvite, Redeemable, InviteTypes
<1>3. i \in Invite /\ i.uses <= i.maxUses /\ UsesLeft(i) <= UsesLeft(invites[code]) - 1
  BY <1>2, RedeemedCode
<1> HIDE DEF i
<1>4. code[1] \in MarketIds
  BY DEF Codes
<1>5. /\ allowlist' \in [MarketIds -> SUBSET Users]
      /\ \A m \in MarketIds : allowlist'[m] = IF m = code[1] THEN allowlist[m] \cup {u}
                                              ELSE allowlist[m]
  BY <1>0, <1>1, <1>4 DEF LifecycleInv, LifecycleTypeOK
<1>6. /\ LifecycleInv' /\ RecordsInv' /\ now' = now /\ issued' = issued
      /\ issued' \in [MarketIds -> Nat]
  BY <1>0, <1>1, <1>5, RestUntouched DEF platformVars, InviteTypes
<1>7. OnlyInvitedPredict'
  <2>1. Created' = Created /\ market' = market /\ predictors' = predictors
    BY <1>1 DEF Created, marketVars, stakeVars
  <2>2. Created \subseteq MarketIds
    BY <1>0, MarketFacts
  <2> QED BY <1>0, <1>5, <2>1, <2>2 DEF OnlyInvitedPredict
<1>8. InviteTypes'
  BY <1>0, <1>1, <1>3, <1>6, CodeWritten
<1>9. ASSUME NEW m \in MarketIds PROVE Granted(m)'
  <2>1. UsesLeft(invites[code]) \in Nat /\ UsesLeft(i) \in Int
    BY <1>0, <1>3, UnspentTyped DEF Unspent, UsesLeft, Invite
  <2>2. /\ IsFiniteSet(allowlist[m]) /\ Cardinality(allowlist[m]) \in Nat
        /\ issued[m] \in Nat /\ Granted(m)
    BY <1>0, ListTyped DEF InviteTypes
  <2>3. /\ Cardinality(allowlist[m] \cup {u}) \in Nat
        /\ Cardinality(allowlist[m] \cup {u}) <= Cardinality(allowlist[m]) + 1
    <3> PICK S : S = allowlist[m]
      OBVIOUS
    <3>1. /\ IsFiniteSet(S \cup {u})
          /\ Cardinality(S \cup {u}) = IF u \in S THEN Cardinality(S) ELSE Cardinality(S) + 1
      BY <2>2, FS_AddElement
    <3> QED BY <2>2, <3>1
  <2>4. m = code[1] =>
          /\ Cardinality(allowlist'[m]) \in Nat
          /\ Cardinality(allowlist'[m]) + UsesLeft(i) + issued[m]
               <= Cardinality(allowlist[m]) + UsesLeft(invites[code]) + issued'[m]
    <3>1. ASSUME m = code[1]
          PROVE  /\ allowlist'[m] = allowlist[m] \cup {u} /\ issued'[m] = issued[m]
                 /\ UsesLeft(i) + 1 <= UsesLeft(invites[code])
      BY <1>3, <1>5, <1>6, <2>1, <3>1
    <3>2. Cardinality(allowlist[m] \cup {u}) + UsesLeft(i) + issued[m]
            <= Cardinality(allowlist[m]) + UsesLeft(invites[code]) + issued[m]
          \/ ~ (UsesLeft(i) + 1 <= UsesLeft(invites[code]))
      BY ONLY <2>1, <2>2, <2>3
    <3> QED BY <2>3, <3>1, <3>2
  <2>5. m # code[1] => allowlist'[m] = allowlist[m] /\ issued'[m] = issued[m]
    BY <1>5, <1>6
  <2> QED BY <1>0, <1>1, <1>3, <1>6, <2>2, <2>4, <2>5, GrantedKept
<1> QED BY <1>6, <1>7, <1>8, <1>9 DEF PrivateInv

(* A revoked code keeps its unspent uses. *)
LEMMA Revoking ==
  ASSUME PrivateInv, NEW c \in Creators, NEW code \in Codes, RevokeInvite(c, code)
  PROVE  PrivateInv'
<1> DEFINE i == [invites[code] EXCEPT !.active = FALSE]
<1>0. LifecycleInv /\ RecordsInv /\ InviteTypes /\ OnlyInvitedPredict
      /\ \A m \in MarketIds : Granted(m)
  BY DEF PrivateInv
<1>1. invites' = [invites EXCEPT ![code] = i] /\ UNCHANGED <<vars, issued>>
  BY DEF RevokeInvite
<1>2. /\ invites[code] \in Invite /\ invites[code] # None
      /\ invites[code].uses <= invites[code].maxUses
  BY <1>0 DEF RevokeInvite, InviteTypes
<1>3. i \in Invite /\ i.uses <= i.maxUses /\ UsesLeft(i) <= UsesLeft(invites[code])
  BY <1>2, RevokedCode
<1> HIDE DEF i
<1>4. /\ LifecycleInv' /\ RecordsInv' /\ OnlyInvitedPredict'
      /\ allowlist' = allowlist /\ now' = now
  <2>1. UNCHANGED <<platformVars, marketVars, allowlist, stakeVars, disputeVars, moneyVars,
                    statVars, historyVars>>
    BY <1>1 DEF vars
  <2>2. allowlist' \in [MarketIds -> SUBSET Users]
    BY <1>0, <2>1 DEF LifecycleInv, LifecycleTypeOK
  <2>3. OnlyInvitedPredict'
    BY <1>0, <2>1 DEF OnlyInvitedPredict, Created, marketVars, stakeVars
  <2> QED BY <1>0, <2>1, <2>2, <2>3, RestUntouched DEF platformVars
<1>5. issued' = issued /\ issued' \in [MarketIds -> Nat]
  BY <1>0, <1>1 DEF InviteTypes
<1>6. InviteTypes'
  BY <1>0, <1>1, <1>3, <1>4, <1>5, CodeWritten
<1>7. ASSUME NEW m \in MarketIds PROVE Granted(m)'
  <2>1. UsesLeft(invites[code]) \in Nat /\ UsesLeft(i) \in Int
    BY <1>0, <1>3, UnspentTyped DEF Unspent, UsesLeft, Invite
  <2>2. Cardinality(allowlist[m]) \in Nat /\ issued[m] \in Nat /\ Granted(m)
    BY <1>0, ListTyped DEF InviteTypes
  <2>3. /\ Cardinality(allowlist'[m]) \in Nat
        /\ Cardinality(allowlist'[m]) + UsesLeft(i) + issued[m]
             <= Cardinality(allowlist[m]) + UsesLeft(invites[code]) + issued'[m]
    BY <1>3, <1>4, <1>5, <2>1, <2>2
  <2> QED BY <1>0, <1>1, <1>3, <1>4, <1>5, <2>2, <2>3, GrantedKept
<1> QED BY <1>4, <1>6, <1>7 DEF PrivateInv

LEMMA PrivateStep ==
  ASSUME PrivateInv, [PrivateNext]_privateVars
  PROVE  PrivateInv'
<1>1. CASE Next /\ UNCHANGED inviteVars
  BY <1>1, OtherCallsPrivate
<1>2. CASE UNCHANGED privateVars
  BY <1>2, OtherCallsPrivate DEF privateVars
<1> QED BY <1>1, <1>2, Generating, Redeeming, Revoking DEF PrivateNext

LEMMA PrivateStart ==
  ASSUME PrivateInit
  PROVE  PrivateInv
<1>0. Init /\ invites = [code \in Codes |-> None] /\ issued = [m \in MarketIds |-> 0]
  BY DEF PrivateInit
<1>1. LifecycleInv /\ RecordsInv
  BY <1>0, InitInv, RecordsInit, PlatformAssumption, MarketAssumption
<1>2. InviteTypes
  <2>1. now = 0
    BY <1>0 DEF Init, PlatformInit
  <2>2. now <= MaxTime
    BY <2>1, PlatformAssumption DEF PlatformAssumption
  <2> QED BY <1>0, <2>2 DEF InviteTypes
<1>3. OnlyInvitedPredict
  <2>1. Created = {}
    BY <1>0 DEF Init, Created
  <2> QED BY <2>1 DEF OnlyInvitedPredict
<1>4. ASSUME NEW m \in MarketIds PROVE Granted(m)
  <2>1. Outstanding(m) = 0
    <3> PICK f : f = Unspent
      OBVIOUS
    <3>1. \A code \in CodesOf(m) : f[code] = 0
      BY <1>0 DEF Unspent, UsesLeft, CodesOf
    <3>2. SumFunctionOnSet(f, CodesOf(m)) = 0
      BY <3>1, CodesFinite, SumOfZeros
    <3> QED BY <3>2 DEF Outstanding
  <2>2. Cardinality(allowlist[m]) = 0
    BY <1>0, FS_EmptySet DEF Init
  <2>3. issued[m] = 0
    BY <1>0
  <2> QED BY <2>1, <2>2, <2>3 DEF Granted
<1> QED BY <1>1, <1>2, <1>3, <1>4 DEF PrivateInv

(* The strengthened invariant of private markets holds in every reachable   *)
(* state.                                                                   *)
THEOREM PrivateInvariant == PrivateSpec => []PrivateInv
<1>1. PrivateInit => PrivateInv
  BY PrivateStart
<1>2. PrivateInv /\ [PrivateNext]_privateVars => PrivateInv'
  BY PrivateStep
<1> QED BY <1>1, <1>2, PTL DEF PrivateSpec

(* Everybody who stakes on a private market was let in by a code of its     *)
(* creator and stays on its allowlist.                                      *)
THEOREM OnlyInvitedAlways == PrivateSpec => []OnlyInvitedPredict
<1>1. PrivateInv => OnlyInvitedPredict
  BY DEF PrivateInv
<1> QED BY <1>1, PrivateInvariant, PTL

(* No mix of codes, expiries, revocations and reissues admits more people   *)
(* than the creator granted uses for.                                       *)
THEOREM AdmittedAlwaysWithinGrants == PrivateSpec => []AdmittedWithinGrants
<1>1. PrivateInv => AdmittedWithinGrants
  <2> SUFFICES ASSUME PrivateInv, NEW m \in MarketIds
               PROVE  Cardinality(allowlist[m]) <= issued[m]
    BY DEF AdmittedWithinGrants
  <2>1. /\ Outstanding(m) \in Nat /\ Cardinality(allowlist[m]) \in Nat /\ issued[m] \in Nat
        /\ Granted(m)
    BY UnspentTyped, ListTyped DEF PrivateInv, InviteTypes
  <2> QED BY <2>1 DEF Granted
<1> QED BY <1>1, PrivateInvariant, PTL

(* What no call brings back: a code of an earlier ledger that cannot be     *)
(* redeemed.                                                                *)
StayDead == \A code \in Codes : code[2] < now /\ ~Redeemable(code) => ~Redeemable(code)'

LEMMA DeadStep ==
  ASSUME PrivateInv, [PrivateNext]_privateVars
  PROVE  StayDead
<1>0. LifecycleInv /\ RecordsInv /\ InviteTypes /\ now \in Nat
  BY CodeTimes DEF PrivateInv
<1> SUFFICES ASSUME NEW code \in Codes, code[2] < now, ~Redeemable(code)
             PROVE  ~Redeemable(code)'
  BY DEF StayDead
<1>1. ASSUME invites'[code] = invites[code], now' = now \/ now' = now + 1
      PROVE  ~Redeemable(code)'
  <2>1. invites[code] # None => invites[code].expiresAt \in Nat
    BY <1>0 DEF InviteTypes, Invite
  <2> QED BY <1>0, <1>1, <2>1 DEF Redeemable
<1>2. CASE Next /\ UNCHANGED inviteVars
  BY <1>0, <1>1, <1>2, ListsAndClock DEF inviteVars
<1>3. ASSUME NEW c \in Creators, NEW m \in Created, NEW limit \in UseLimits,
             NEW lifetime \in Lifetimes, GenerateInvite(c, m, limit, lifetime)
      PROVE  ~Redeemable(code)'
  <2>1. Code(m) # code
    BY <1>0 DEF Code
  <2>2. invites'[code] = invites[code]
    BY <1>0, <1>3, <2>1 DEF GenerateInvite, InviteTypes
  <2>3. now' = now
    BY <1>3 DEF GenerateInvite, vars, platformVars
  <2> QED BY <1>1, <2>2, <2>3
<1>4. ASSUME NEW u \in Users, NEW other \in Codes, RedeemInvite(u, other)
      PROVE  ~Redeemable(code)'
  <2>1. other # code
    BY <1>4 DEF RedeemInvite
  <2>2. invites'[code] = invites[code]
    BY <1>0, <1>4, <2>1 DEF RedeemInvite, InviteTypes
  <2>3. now' = now
    BY <1>4 DEF RedeemInvite, platformVars
  <2> QED BY <1>1, <2>2, <2>3
<1>5. ASSUME NEW c \in Creators, NEW other \in Codes, RevokeInvite(c, other)
      PROVE  ~Redeemable(code)'
  <2>1. CASE other # code
    <3>1. invites'[code] = invites[code]
      BY <1>0, <1>5, <2>1 DEF RevokeInvite, InviteTypes
    <3>2. now' = now
      BY <1>5 DEF RevokeInvite, vars, platformVars
    <3> QED BY <1>1, <3>1, <3>2
  <2>2. CASE other = code
    <3>1. invites[code] \in Invite /\ invites[code] # None
          /\ invites[code].uses <= invites[code].maxUses
      BY <1>0, <1>5, <2>2 DEF RevokeInvite, InviteTypes
    <3>2. invites'[code] = [invites[code] EXCEPT !.active = FALSE]
      BY <1>0, <1>5, <2>2 DEF RevokeInvite, InviteTypes
    <3>3. ~invites'[code].active
      BY <3>1, <3>2, RevokedCode
    <3> QED BY <3>3 DEF Redeemable
  <2> QED BY <2>1, <2>2
<1>6. CASE UNCHANGED privateVars
  BY <1>1, <1>6 DEF privateVars, inviteVars, vars, platformVars
<1> QED BY <1>2, <1>3, <1>4, <1>5, <1>6 DEF PrivateNext

(* Once its ledger is over, a code that is spent, expired or revoked, or    *)
(* was never issued, admits nobody any more.                                *)
THEOREM DeadCodesAlwaysDead == PrivateSpec => DeadCodesStayDead
<1>1. PrivateInv /\ [PrivateNext]_privateVars => [StayDead]_privateVars
  BY DeadStep
<1>2. [][StayDead]_privateVars => DeadCodesStayDead
  BY PTL DEF StayDead, DeadCodesStayDead
<1> QED BY <1>1, <1>2, PrivateInvariant, PTL DEF PrivateSpec

(* The balances and the statistics do not hear of invites. *)
LEMMA NumbersUntouched ==
  ASSUME MoneyTypes, CreatorTypes, StatsInv,
         UNCHANGED <<marketVars, stakeVars, moneyVars, statVars, historyVars>>
  PROVE  (MoneyTypes /\ CreatorTypes /\ StatsInv)'
<1>1. MoneyTypes' /\ CreatorTypes'
  BY DEF MoneyTypes, CreatorTypes, moneyVars, statVars, historyVars
<1>2. /\ PoolOf' = PoolOf /\ HeadsOf' = HeadsOf /\ StakedBy' = StakedBy /\ MadeBy' = MadeBy
      /\ profile' = profile /\ pred' = pred
  BY DEF PoolOf, HeadsOf, StakedBy, MadeBy, marketVars, stakeVars, statVars
<1>3. StatsInv'
  BY <1>2 DEF StatsInv
<1> QED BY <1>1, <1>3

(* Every variable has its type in every reachable state, and no code is     *)
(* ever used more often than its limit.                                     *)
THEOREM PrivateTypesCorrect == PrivateSpec => []InvitesTypeOK
<1> DEFINE Numbers == MoneyTypes /\ CreatorTypes /\ StatsInv
<1>1. PrivateInit => Numbers
  BY NumbersInit DEF PrivateInit
<1>2. PrivateInv /\ Numbers /\ [PrivateNext]_privateVars => Numbers'
  <2> SUFFICES ASSUME PrivateInv, Numbers, [PrivateNext]_privateVars PROVE Numbers'
    OBVIOUS
  <2>1. CASE [Next]_vars
    BY <2>1, MoneyStep, CreatorStep, StatsStep DEF PrivateInv
  <2>2. CASE UNCHANGED <<marketVars, stakeVars, moneyVars, statVars, historyVars>>
    BY <2>2, NumbersUntouched
  <2> QED BY <2>1, <2>2 DEF PrivateNext, privateVars, GenerateInvite, RedeemInvite, RevokeInvite
<1>3. PrivateInv /\ Numbers => InvitesTypeOK
  BY DEF PrivateInv, LifecycleInv, InviteTypes, MoneyTypes, CreatorTypes, StatsInv, TypeOK,
         InvitesTypeOK
<1> HIDE DEF Numbers
<1> QED BY <1>1, <1>2, <1>3, PrivateInvariant, PTL DEF PrivateSpec
=============================================================================
