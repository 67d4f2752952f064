--------------------------- MODULE CreatorEvents ---------------------------
(***************************************************************************)
(* The users contract: events with a prize pool, that participants join    *)
(* with an invite code, matches to predict inside an event, the results    *)
(* the AI agent submits, and the payout of the pool by leaderboard rank.   *)
(*                                                                         *)
(* One token balance, bank[Contract], holds the pools of all the events.   *)
(* Each action is one successful invocation; a call that fails is rolled   *)
(* back and is a stuttering step.                                          *)
(***************************************************************************)
EXTENDS Integers, SequencesExt

CONSTANTS
  Users,         \* wallets that create and join events
  Address,       \* the order of addresses, last tie-breaker of a ranking
  Agent,         \* the ai_agent given to initialize
  Treasury,      \* the treasury given to initialize
  Contract,      \* the contract's own address, holder of the pools
  None,          \* Option::None
  MaxTime,       \* bound: the last ledger timestamp explored
  Fees,          \* bound: creation fees the admin sets
  NewAgents,     \* bound: addresses the agent role is given to
  NewTreasuries, \* bound: addresses made the treasury
  Payees,        \* bound: accounts withdraw_fees pays
  Withdrawals,   \* bound: amounts given to withdraw_fees
  PauseValues,   \* bound: TRUE for pause, FALSE for unpause
  Offers,        \* bound: parameters given to create_event
  Creators,      \* bound: users that create events
  MaxEvents,     \* bound: events ever created
  MatchTimes,    \* bound: times given to create_match
  Multipliers,   \* bound: multipliers given to create_match
  MaxMatches,    \* bound: matches ever created
  Scores,        \* bound: score lines predicted and submitted
  InitialFunds   \* tokens every user starts with

Accounts ==
  Users \cup NewAgents \cup NewTreasuries \cup {Agent, Treasury, Contract}

MaxRewardRanks == 5
MaxMultiplier == 3

Score == [home : Nat, away : Nat]

Offer ==
  [end : Nat, cap : Nat, pool : Int, split : Seq(Nat), entryFee : Int]

ASSUME EventsAssumption ==
  /\ IsFiniteSet(Users)
  /\ Address \in [Users -> Nat]
  /\ \A u, v \in Users : Address[u] = Address[v] => u = v
  /\ Contract \notin Users \cup NewAgents \cup NewTreasuries \cup {Agent, Treasury}
  /\ Creators \subseteq Users
  /\ Payees \subseteq Accounts
  /\ Offers \subseteq Offer
  /\ Fees \subseteq Nat \ {0}
  /\ Fees # {}
  /\ MatchTimes \subseteq Nat
  /\ Multipliers \subseteq Nat
  /\ Scores \subseteq Score
  /\ None \notin Score \cup Nat
  /\ {MaxTime, MaxEvents, MaxMatches, InitialFunds} \subseteq Nat
  /\ Withdrawals \subseteq Nat
  /\ PauseValues \subseteq BOOLEAN

VARIABLES
  now,          \* env.ledger().timestamp()
  conf,         \* the admin's settings: agent, treasury, creation fee, pause
  bank,         \* balances of the XLM token
  events,       \* DataKey::Event(id), for the ids up to EventCounter
  matches,      \* DataKey::Match(id), for the ids up to MatchCounter
  predictions   \* DataKey::Prediction(id), without the ids

eventVars == <<now, conf, bank, events, matches, predictions>>

(* is_active is the negation of is_cancelled: only cancel writes them.  The *)
(* participants and the payouts have storage entries of their own.          *)
Event ==
  [creator : Creators, end : Nat, cap : Nat \ {0}, split : Seq(1..100),
   entryFee : Nat, pool : Nat, participants : SUBSET Users,
   cancelled : BOOLEAN, finalized : BOOLEAN,
   paid : [Users -> Nat \cup {None}]]

Match ==
  [event : 1..MaxEvents, time : Nat, multiplier : 1..MaxMultiplier,
   result : Scores \cup {None}]

Prediction ==
  [user : Users, match : 1..MaxMatches, score : Scores, at : Nat,
   points : Nat \cup {None}]

EventsTypeOK ==
  /\ now \in 0..MaxTime
  /\ conf \in [agent : Accounts \ {Contract}, treasury : Accounts \ {Contract},
               fee : Nat \ {0}, paused : BOOLEAN]
  /\ bank \in [Accounts -> Nat]
  /\ events \in Seq(Event)
  /\ matches \in Seq(Match)
  /\ predictions \subseteq Prediction
  /\ \A e \in DOMAIN events :
       Cardinality(events[e].participants) <= events[e].cap
  /\ \A m \in DOMAIN matches : matches[m].event \in DOMAIN events
  /\ \A p \in predictions : p.match \in DOMAIN matches

(* The state initialize leaves: it runs once, before any other call. *)
EventsInit ==
  /\ now = 0
  /\ \E fee \in Fees :
       conf = [agent |-> Agent, treasury |-> Treasury, fee |-> fee,
               paused |-> FALSE]
  /\ bank = [a \in Accounts |-> IF a \in Users THEN InitialFunds ELSE 0]
  /\ events = <<>>
  /\ matches = <<>>
  /\ predictions = {}

Running == ~conf.paused

(* The token's transfer. *)
Moved(balances, from, to, amount) ==
  [balances EXCEPT ![from] = @ - amount, ![to] = @ + amount]

-----------------------------------------------------------------------------
(* Settings and the treasury, for the admin alone. *)

Tick ==
  /\ now < MaxTime
  /\ now' = now + 1
  /\ UNCHANGED <<conf, bank, events, matches, predictions>>

Configure(settings) ==
  /\ conf' = settings
  /\ UNCHANGED <<now, bank, events, matches, predictions>>

UpdateCreationFee(fee) == Configure([conf EXCEPT !.fee = fee])

SetAiAgent(a) == Configure([conf EXCEPT !.agent = a])

SetTreasury(a) == Configure([conf EXCEPT !.treasury = a])

(* pause refuses when paused, unpause when not. *)
SetPaused(p) ==
  /\ conf.paused # p
  /\ Configure([conf EXCEPT !.paused = p])

(* A transfer out of the treasury, under the allowance it gave. *)
WithdrawFees(to, amount) ==
  /\ Running
  /\ to # Contract
  /\ 0 < amount /\ amount <= bank[conf.treasury]
  /\ bank' = Moved(bank, conf.treasury, to, amount)
  /\ UNCHANGED <<now, conf, events, matches, predictions>>

-----------------------------------------------------------------------------
(* Events and matches. *)

PercentTotal(split) == SumFunction(split)

(* validate_prize_pool: without a pool there is nothing to split. *)
ValidPrize(pool, split) ==
  IF pool = 0
  THEN split = <<>>
  ELSE /\ pool > 0
       /\ Len(split) \in 1..MaxRewardRanks
       /\ \A i \in DOMAIN split : split[i] \in 1..100
       /\ PercentTotal(split) = 100

CanFund(c, pool) == bank[c] >= conf.fee + pool

(* start_time, from now on and before the end, is not looked at again. *)
CreateEvent(c, o) ==
  /\ Running
  /\ Len(events) < MaxEvents
  /\ o.cap > 0
  /\ now < o.end
  /\ ValidPrize(o.pool, o.split)
  /\ o.entryFee >= 0
  /\ CanFund(c, o.pool)
  /\ bank' = Moved(Moved(bank, c, conf.treasury, conf.fee), c, Contract, o.pool)
  /\ events' = Append(events,
       [creator |-> c, end |-> o.end, cap |-> o.cap, split |-> o.split,
        entryFee |-> o.entryFee, pool |-> o.pool, participants |-> {},
        cancelled |-> FALSE, finalized |-> FALSE,
        paid |-> [u \in Users |-> None]])
  /\ UNCHANGED <<now, conf, matches, predictions>>

(* The pool stays where it is, and a pause does not stop a cancellation. *)
CancelEvent(c, e) ==
  /\ events[e].creator = c
  /\ ~events[e].finalized
  /\ ~events[e].cancelled
  /\ events' = [events EXCEPT ![e].cancelled = TRUE]
  /\ UNCHANGED <<now, conf, bank, matches, predictions>>

(* Fault: a match may be set for after the end of its event. *)
Schedulable_AnyTime(e, time) == now < time

Schedulable(e, time) == now < time /\ time < events[e].end

CreateMatch(c, e, time, multiplier) ==
  /\ Running
  /\ ~events[e].cancelled
  /\ events[e].creator = c
  /\ Schedulable(e, time)
  /\ multiplier \in 1..MaxMultiplier
  /\ Len(matches) < MaxMatches
  /\ matches' = Append(matches,
       [event |-> e, time |-> time, multiplier |-> multiplier, result |-> None])
  /\ UNCHANGED <<now, conf, bank, events, predictions>>

-----------------------------------------------------------------------------
(* Participants and predictions. *)

MayJoin(u, e) ==
  /\ u \notin events[e].participants
  /\ Cardinality(events[e].participants) < events[e].cap

(* An event that has ended, even one paid out, still takes participants. *)
JoinEvent(u, e) ==
  /\ Running
  /\ ~events[e].cancelled
  /\ MayJoin(u, e)
  /\ bank[u] >= events[e].entryFee
  /\ bank' = Moved(bank, u, Contract, events[e].entryFee)
  /\ events' = [events EXCEPT ![e].pool = @ + events[e].entryFee,
                              ![e].participants = @ \cup {u}]
  /\ UNCHANGED <<now, conf, matches, predictions>>

(* Fault: a match goes on taking predictions once it has begun. *)
BeforeKickoff_Always(m) == TRUE

BeforeKickoff(m) == now < matches[m].time

HasPredicted(u, m) == \E p \in predictions : p.user = u /\ p.match = m

SubmitPrediction(u, m, score) ==
  /\ Running
  /\ ~events[matches[m].event].cancelled
  /\ u \in events[matches[m].event].participants
  /\ BeforeKickoff(m)
  /\ ~HasPredicted(u, m)
  /\ predictions' = predictions \cup
       {[user |-> u, match |-> m, score |-> score, at |-> now, points |-> None]}
  /\ UNCHANGED <<now, conf, bank, events, matches>>

(* MatchResult::from_scores: who won. *)
Outcome(score) ==
  CASE score.home > score.away -> "TEAM_A"
    [] score.home < score.away -> "TEAM_B"
    [] OTHER                   -> "DRAW"

(* Prediction::grade. *)
Points(predicted, actual, multiplier) ==
  multiplier * CASE predicted = actual                   -> 4
                 [] Outcome(predicted) = Outcome(actual) -> 1
                 [] OTHER                                -> 0

(* The match of a cancelled event is decided and graded like any other. *)
SubmitMatchResult(a, m, score) ==
  /\ Running
  /\ a = conf.agent
  /\ matches[m].result = None
  /\ now >= matches[m].time
  /\ matches' = [matches EXCEPT ![m].result = score]
  /\ predictions' =
       {IF p.match = m
        THEN [p EXCEPT !.points = Points(p.score, score, matches[m].multiplier)]
        ELSE p : p \in predictions}
  /\ UNCHANGED <<now, conf, bank, events>>

-----------------------------------------------------------------------------
(* Ranking and payout. *)

PredictionsIn(e) == {p \in predictions : matches[p.match].event = e}

Of(u, e) == {p \in PredictionsIn(e) : p.user = u}

TotalPoints(u, e) ==
  SumFunction([p \in Of(u, e) |-> IF p.points = None THEN 0 ELSE p.points])

(* The leaderboard takes four points for an exact score, so that one of a   *)
(* match with a multiplier does not count.                                  *)
ExactScores(u, e) == Cardinality({p \in Of(u, e) : p.points = 4})

LastPredictionTime(u, e) == Max({p.at : p \in Of(u, e)} \cup {0})

(* LeaderboardEntry::outranks. *)
Outranks(u, v, e) ==
  \/ TotalPoints(u, e) > TotalPoints(v, e)
  \/ /\ TotalPoints(u, e) = TotalPoints(v, e)
     /\ \/ ExactScores(u, e) > ExactScores(v, e)
        \/ /\ ExactScores(u, e) = ExactScores(v, e)
           /\ \/ LastPredictionTime(u, e) < LastPredictionTime(v, e)
              \/ /\ LastPredictionTime(u, e) = LastPredictionTime(v, e)
                 /\ Address[u] < Address[v]

(* The 1-based place get_event_leaderboard sorts u to. *)
Rank(u, e) ==
  1 + Cardinality({v \in events[e].participants \ {u} : Outranks(v, u, e)})

Winners(e) ==
  {u \in events[e].participants : Rank(u, e) <= Len(events[e].split)}

Prize(u, e) == (events[e].pool * events[e].split[Rank(u, e)]) \div 100

(* Fault: one match without a result does not hold the payout up. *)
Complete_OneDecided(e) ==
  \A m, n \in DOMAIN matches :
    matches[m].event = e /\ matches[n].event = e /\ m # n
      => matches[m].result # None \/ matches[n].result # None

Complete(e) ==
  \A m \in DOMAIN matches : matches[m].event = e => matches[m].result # None

(* Fault: an event may be paid out again. *)
Finalizable_Again(e) ==
  ~events[e].cancelled /\ now >= events[e].end /\ Complete(e)

Finalizable(e) ==
  /\ ~events[e].cancelled
  /\ ~events[e].finalized
  /\ now >= events[e].end
  /\ Complete(e)

(* The winners get their part, the creator what is left of the pool.        *)
FinalizeEvent(e) ==
  LET winners == Winners(e)
      refund  == events[e].pool - SumFunction([u \in winners |-> Prize(u, e)])
  IN  /\ Running
      /\ Finalizable(e)
      /\ bank[Contract] >= events[e].pool
      /\ bank' = [a \in Accounts |->
           bank[a] + (IF a \in winners THEN Prize(a, e) ELSE 0)
                   + (IF a = events[e].creator THEN refund ELSE 0)
                   - (IF a = Contract THEN events[e].pool ELSE 0)]
      /\ events' = [events EXCEPT
               ![e].finalized = TRUE,
               ![e].paid = [u \in Users |-> IF u \in winners THEN Prize(u, e)
                                            ELSE None]]
      /\ UNCHANGED <<now, conf, matches, predictions>>

-----------------------------------------------------------------------------

AdminNext ==
  \/ \E fee \in Fees : UpdateCreationFee(fee)
  \/ \E a \in NewAgents : SetAiAgent(a)
  \/ \E a \in NewTreasuries : SetTreasury(a)
  \/ \E p \in PauseValues : SetPaused(p)
  \/ \E a \in Payees, amount \in Withdrawals : WithdrawFees(a, amount)

EventsNext ==
  \/ Tick
  \/ AdminNext
  \/ \E c \in Creators, o \in Offers : CreateEvent(c, o)
  \/ \E c \in Creators, e \in DOMAIN events : CancelEvent(c, e)
  \/ \E c \in Creators, e \in DOMAIN events, time \in MatchTimes,
        multiplier \in Multipliers : CreateMatch(c, e, time, multiplier)
  \/ \E u \in Users, e \in DOMAIN events : JoinEvent(u, e)
  \/ \E u \in Users, m \in DOMAIN matches, score \in Scores :
       SubmitPrediction(u, m, score)
  \/ \E a \in Accounts, m \in DOMAIN matches, score \in Scores :
       SubmitMatchResult(a, m, score)
  \/ \E e \in DOMAIN events : FinalizeEvent(e)

EventsSpec == EventsInit /\ [][EventsNext]_eventVars

-----------------------------------------------------------------------------

(* What the events that are not paid out hold in the contract. *)
OpenPools ==
  SumFunction([e \in {d \in DOMAIN events : ~events[d].finalized} |-> events[e].pool])

(* The contract can pay the pool of every event it has not paid out yet,    *)
(* whatever it paid to the winners of others from the same balance.         *)
PoolsEscrowed == bank[Contract] >= OpenPools

(* In an event that was not called off, every prediction of a decided match *)
(* is graded, by the result, and no other one is: none slips in between the *)
(* kick-off and the result.  (What is "preserved but not scored" in a       *)
(* cancelled event, USER_GUIDE.md:268, the code goes on grading.)           *)
GradesComplete ==
  \A p \in predictions :
    LET m == matches[p.match]
    IN  ~events[m.event].cancelled
          => p.points = IF m.result = None THEN None
                        ELSE Points(p.score, m.result, m.multiplier)

(* The prizes went to the participants with the most points, and the table  *)
(* still says so: neither a later match, a late result nor a participant    *)
(* who joins after the payout turns it over.                                *)
TopScorersPaid ==
  \A e \in DOMAIN events : events[e].finalized =>
    \A u, v \in events[e].participants :
      events[e].paid[u] # None /\ events[e].paid[v] = None
        => TotalPoints(v, e) <= TotalPoints(u, e)

(* Once an event is paid out its predictions and their points stand. *)
StandingsSettled ==
  [][\A e \in DOMAIN events :
       events[e].finalized => PredictionsIn(e)' = PredictionsIn(e)]_eventVars
=============================================================================
