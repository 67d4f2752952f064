------------------------ MODULE CreatorEvents_proofs ------------------------
(***************************************************************************)
(* Why every grade is the one its result gives, and why the table of an    *)
(* event that was paid out stands, for any number of users, events,        *)
(* matches and scores.  Matches begin before their event ends and results  *)
(* come only once they have begun; so neither a prediction nor a match nor *)
(* a result can come after the payout.  Then money: what each event still  *)
(* owes adds up to no more than the contract holds.                        *)
(***************************************************************************)
EXTENDS CreatorEvents, Sums

SettingsOK ==
  conf \in [agent : Accounts \ {Contract}, treasury : Accounts \ {Contract},
            fee : Nat \ {0}, paused : BOOLEAN]

EventsOK ==
  /\ events \in Seq(Event)
  /\ Len(events) <= MaxEvents
  /\ \A e \in DOMAIN events :
       Cardinality(events[e].participants) <= events[e].cap

MatchesOK ==
  /\ matches \in Seq(Match)
  /\ Len(matches) <= MaxMatches
  /\ \A m \in DOMAIN matches : matches[m].event \in DOMAIN events

PredictionsOK ==
  /\ predictions \subseteq Prediction
  /\ \A p \in predictions : p.match \in DOMAIN matches

(* Everything in EventsTypeOK but the balances, which come below. *)
Typed == now \in Nat /\ SettingsOK /\ EventsOK /\ MatchesOK /\ PredictionsOK

(* A match begins before its event ends, and is decided only once begun. *)
Timetable ==
  \A m \in DOMAIN matches :
    /\ matches[m].time < events[matches[m].event].end
    /\ matches[m].result # None => matches[m].time <= now

(* An event is paid out only once it is over and all its matches decided. *)
FinalizedOver ==
  \A e \in DOMAIN events :
    events[e].finalized => events[e].end <= now /\ Complete(e)

(* GradesComplete without its condition: the code grades the predictions of *)
(* cancelled events like any others.                                        *)
Graded ==
  \A p \in predictions :
    p.points = LET m == matches[p.match]
               IN  IF m.result = None THEN None
                   ELSE Points(p.score, m.result, m.multiplier)

EventsInv == Typed /\ Timetable /\ FinalizedOver /\ Graded

-----------------------------------------------------------------------------
LEMMA InvTypes ==
  ASSUME EventsInv
  PROVE  /\ now \in Nat
         /\ events \in Seq(Event) /\ Len(events) \in Nat
         /\ DOMAIN events = 1..Len(events)
         /\ \A e \in DOMAIN events : events[e] \in Event
         /\ matches \in Seq(Match) /\ Len(matches) \in Nat
         /\ DOMAIN matches = 1..Len(matches)
         /\ \A m \in DOMAIN matches : /\ matches[m] \in Match
                                       /\ matches[m].event \in DOMAIN events
         /\ \A p \in predictions : p \in Prediction /\ p.match \in DOMAIN matches
         /\ MaxEvents \in Nat /\ MaxMatches \in Nat
BY EventsAssumption
DEF EventsInv, Typed, EventsOK, MatchesOK, PredictionsOK, EventsAssumption

(* Steps that leave events, matches and predictions alone. *)
LEMMA SettingsStep ==
  ASSUME EventsInv, SettingsOK', now' \in Nat, now' >= now,
         UNCHANGED <<events, matches, predictions>>
  PROVE  EventsInv'
<1>1. Typed'
  BY DEF EventsInv, Typed, EventsOK, MatchesOK, PredictionsOK
<1>2. Timetable'
  <2>1. \A m \in DOMAIN matches : matches[m].time \in Nat
    BY InvTypes DEF Match
  <2> QED BY <2>1, InvTypes DEF EventsInv, Timetable
<1>3. FinalizedOver'
  <2>1. \A e \in DOMAIN events : events[e].end \in Nat
    BY InvTypes DEF Event
  <2> QED BY <2>1, InvTypes DEF EventsInv, FinalizedOver, Complete
<1>4. Graded'
  BY DEF EventsInv, Graded
<1> QED BY <1>1, <1>2, <1>3, <1>4 DEF EventsInv

(* An event changes, but for its end, and is paid out only when it is over. *)
LEMMA EventStep ==
  ASSUME EventsInv, NEW e \in DOMAIN events, NEW x \in Event,
         x.end = events[e].end,
         Cardinality(x.participants) <= x.cap,
         x.finalized => events[e].finalized \/ (events[e].end <= now /\ Complete(e)),
         events' = [events EXCEPT ![e] = x],
         UNCHANGED <<now, conf, matches, predictions>>
  PROVE  EventsInv'
<1>1. /\ events' \in Seq(Event) /\ Len(events') = Len(events)
      /\ DOMAIN events' = DOMAIN events
      /\ events'[e] = x
      /\ \A d \in DOMAIN events \ {e} : events'[d] = events[d]
      /\ \A d \in DOMAIN events : events'[d].end = events[d].end
  BY InvTypes
<1>2. Typed'
  BY <1>1 DEF EventsInv, Typed, SettingsOK, EventsOK, MatchesOK, PredictionsOK
<1>3. Timetable'
  BY <1>1, InvTypes DEF EventsInv, Timetable
<1>4. FinalizedOver'
  BY <1>1 DEF EventsInv, FinalizedOver, Complete
<1>5. Graded'
  BY DEF EventsInv, Graded
<1> QED BY <1>2, <1>3, <1>4, <1>5 DEF EventsInv

LEMMA SeqInto ==
  ASSUME NEW S, NEW T, NEW s \in Seq(S), \A i \in DOMAIN s : s[i] \in T
  PROVE  s \in Seq(T)
<1>1. Len(s) \in Nat /\ DOMAIN s = 1..Len(s) /\ s = [i \in 1..Len(s) |-> s[i]]
  OBVIOUS
<1>2. s \in [1..Len(s) -> T]
  BY <1>1
<1>3. \A n \in Nat : \A f \in [1..n -> T] : f \in Seq(T)
  OBVIOUS
<1> QED BY <1>1, <1>2, <1>3

LEMMA SeqElement ==
  ASSUME NEW S, NEW s \in Seq(S), NEW k \in 1..Len(s)
  PROVE  s[k] \in S
OBVIOUS

LEMMA AppendProperties ==
  ASSUME NEW S, NEW s \in Seq(S), NEW x \in S
  PROVE  /\ Append(s, x) \in Seq(S)
         /\ Len(s) \in Nat /\ Len(Append(s, x)) = Len(s) + 1
         /\ DOMAIN Append(s, x) = DOMAIN s \cup {Len(s) + 1}
         /\ \A i \in DOMAIN s : Append(s, x)[i] = s[i]
         /\ Append(s, x)[Len(s) + 1] = x
         /\ Len(s) + 1 \notin DOMAIN s
OBVIOUS

LEMMA CreateEventStep ==
  ASSUME EventsInv, NEW c \in Creators, NEW o \in Offers, CreateEvent(c, o)
  PROVE  EventsInv'
<1> PICK x : x = [creator |-> c, end |-> o.end, cap |-> o.cap, split |-> o.split,
                  entryFee |-> o.entryFee, pool |-> o.pool, participants |-> {},
                  cancelled |-> FALSE, finalized |-> FALSE,
                  paid |-> [u \in Users |-> None]]
  OBVIOUS
<1>1. /\ o.end \in Nat /\ o.cap \in Nat \ {0} /\ o.entryFee \in Nat /\ o.pool \in Nat
      /\ o.split \in Seq(Nat)
  BY EventsAssumption DEF CreateEvent, EventsAssumption, Offer, ValidPrize
<1>2. o.split \in Seq(1..100)
  <2>1. CASE o.split = <<>>
    BY <2>1
  <2>2. CASE o.split # <<>>
    <3>1. \A i \in DOMAIN o.split : o.split[i] \in 1..100
      BY <2>2 DEF CreateEvent, ValidPrize
    <3> QED BY <1>1, <3>1, SeqInto
  <2> QED BY <2>1, <2>2
<1>3. x \in Event /\ x.participants = {} /\ ~x.finalized /\ x.cap \in Nat
  <2>1. [u \in Users |-> None] \in [Users -> Nat \cup {None}]
    OBVIOUS
  <2> QED BY <1>1, <1>2, <2>1 DEF Event
<1>4. events' = Append(events, x) /\ UNCHANGED <<now, conf, matches, predictions>>
      /\ Len(events) < MaxEvents
  BY DEF CreateEvent
<1>5. /\ events' \in Seq(Event) /\ Len(events') = Len(events) + 1
      /\ DOMAIN events' = DOMAIN events \cup {Len(events) + 1}
      /\ \A e \in DOMAIN events : events'[e] = events[e]
      /\ events'[Len(events) + 1] = x
  BY <1>3, <1>4, InvTypes, AppendProperties
<1>6. Typed'
  <2>1. Cardinality({}) = 0
    BY FS_EmptySet
  <2>2. EventsOK'
    BY <1>3, <1>4, <1>5, <2>1, InvTypes DEF EventsInv, Typed, EventsOK
  <2> QED BY <1>4, <1>5, <2>2 DEF EventsInv, Typed, SettingsOK, MatchesOK, PredictionsOK
<1>7. Timetable'
  BY <1>4, <1>5, InvTypes DEF EventsInv, Timetable
<1>8. FinalizedOver'
  BY <1>3, <1>4, <1>5 DEF EventsInv, FinalizedOver, Complete
<1>9. Graded'
  BY <1>4 DEF EventsInv, Graded
<1> QED BY <1>6, <1>7, <1>8, <1>9 DEF EventsInv

LEMMA CancelEventStep ==
  ASSUME EventsInv, NEW c \in Creators, NEW e \in DOMAIN events, CancelEvent(c, e)
  PROVE  EventsInv'
<1> PICK x : x = [events[e] EXCEPT !.cancelled = TRUE]
  OBVIOUS
<1>1. /\ x \in Event /\ x.end = events[e].end /\ x.finalized = events[e].finalized
      /\ x.participants = events[e].participants /\ x.cap = events[e].cap
  <2>1. events[e] \in Event
    BY InvTypes
  <2> QED BY <2>1 DEF Event
<1>2. events' = [events EXCEPT ![e] = x]
  BY DEF CancelEvent
<1>3. Cardinality(x.participants) <= x.cap
  BY <1>1 DEF EventsInv, Typed, EventsOK
<1> QED BY <1>1, <1>2, <1>3, EventStep DEF CancelEvent

LEMMA JoinEventStep ==
  ASSUME EventsInv, NEW u \in Users, NEW e \in DOMAIN events, JoinEvent(u, e)
  PROVE  EventsInv'
<1> PICK x, n, P : /\ n = events[e].pool + events[e].entryFee
                   /\ P = events[e].participants \cup {u}
                   /\ x = [events[e] EXCEPT !.pool = n, !.participants = P]
  OBVIOUS
<1>1. events[e] \in Event
  BY InvTypes
<1>2. n \in Nat /\ P \subseteq Users
  BY <1>1 DEF Event
<1>3. /\ x \in Event /\ x.end = events[e].end /\ x.finalized = events[e].finalized
      /\ x.participants = P /\ x.cap = events[e].cap
  BY <1>1, <1>2 DEF Event
<1>4. events' = [events EXCEPT ![e] = x]
  <2>1. events' = [events EXCEPT ![e].pool = n, ![e].participants = P]
    BY DEF JoinEvent
  <2> QED BY <2>1, InvTypes
<1>5. Cardinality(P) <= events[e].cap
  <2> PICK Q : Q = events[e].participants
    OBVIOUS
  <2>1. Q \in SUBSET Users /\ P = Q \cup {u} /\ u \notin Q
        /\ Cardinality(Q) < events[e].cap /\ events[e].cap \in Nat
    BY <1>1 DEF Event, JoinEvent, MayJoin
  <2>2. IsFiniteSet(Q)
    BY <2>1, EventsAssumption, FS_Subset DEF EventsAssumption
  <2>3. Cardinality(P) = Cardinality(Q) + 1 /\ Cardinality(Q) \in Nat
    BY <2>1, <2>2, FS_AddElement, FS_CardinalityType
  <2> QED BY <2>1, <2>3
<1> QED BY <1>3, <1>4, <1>5, EventStep DEF JoinEvent

LEMMA PrizeType ==
  ASSUME NEW pool \in Nat, NEW share \in 1..100
  PROVE  (pool * share) \div 100 \in Nat
<1>1. \A n \in Nat : n \div 100 \in Nat
  OBVIOUS
<1>2. pool * share \in Nat
  OBVIOUS
<1> QED BY <1>1, <1>2

LEMMA FinalizeEventStep ==
  ASSUME EventsInv, NEW e \in DOMAIN events, FinalizeEvent(e)
  PROVE  EventsInv'
<1> PICK W, Paid, x :
      /\ W = Winners(e)
      /\ Paid = [u \in Users |-> IF u \in Winners(e) THEN Prize(u, e) ELSE None]
      /\ x = [events[e] EXCEPT !.finalized = TRUE, !.paid = Paid]
  OBVIOUS
<1>1. events[e] \in Event
  BY InvTypes
<1>2. Paid \in [Users -> Nat \cup {None}]
  <2>1. SUFFICES ASSUME NEW u \in Winners(e) PROVE Prize(u, e) \in Nat
    OBVIOUS
  <2> PICK k, n : k = Rank(u, e) /\ n = Len(events[e].split)
    OBVIOUS
  <2>2. u \in events[e].participants /\ k <= n
    BY <2>1 DEF Winners
  <2>3. /\ events[e].split \in Seq(1..100) /\ events[e].pool \in Nat
        /\ n = Len(events[e].split) /\ n \in Nat
    BY <1>1 DEF Event
  <2>4. k \in 1..n
    <3> PICK B : B = {v \in events[e].participants \ {u} : Outranks(v, u, e)}
      OBVIOUS
    <3>1. B \in SUBSET Users
      BY <1>1 DEF Event
    <3>2. Cardinality(B) \in Nat
      BY <3>1, EventsAssumption, FS_Subset, FS_CardinalityType DEF EventsAssumption
    <3>3. k = 1 + Cardinality(B)
      BY DEF Rank
    <3> QED BY <2>2, <2>3, <3>2, <3>3
  <2>5. events[e].split[k] \in 1..100
    <3> PICK s : s = events[e].split
      OBVIOUS
    <3>1. s \in Seq(1..100) /\ k \in 1..Len(s)
      BY <2>3, <2>4
    <3>2. s[k] \in 1..100
      BY <3>1, SeqElement
    <3> QED BY <3>2
  <2>6. (events[e].pool * events[e].split[k]) \div 100 \in Nat
    BY <2>3, <2>5, PrizeType
  <2> QED BY <2>6 DEF Prize
<1>3. /\ x \in Event /\ x.end = events[e].end
      /\ x.participants = events[e].participants /\ x.cap = events[e].cap
  BY <1>1, <1>2 DEF Event
<1>4. events' = [events EXCEPT ![e] = x]
  <2>1. events' = [events EXCEPT ![e].finalized = TRUE, ![e].paid = Paid]
    BY DEF FinalizeEvent
  <2> QED BY <2>1, InvTypes
<1>5. Cardinality(x.participants) <= x.cap
  BY <1>3 DEF EventsInv, Typed, EventsOK
<1>6. events[e].end <= now /\ Complete(e)
  BY <1>1, InvTypes DEF FinalizeEvent, Finalizable, Event
<1> QED BY <1>3, <1>4, <1>5, <1>6, EventStep DEF FinalizeEvent


LEMMA CreateMatchStep ==
  ASSUME EventsInv, NEW c \in Creators, NEW e \in DOMAIN events,
         NEW time \in MatchTimes, NEW multiplier \in Multipliers,
         CreateMatch(c, e, time, multiplier)
  PROVE  EventsInv'
<1> PICK x : x = [event |-> e, time |-> time, multiplier |-> multiplier,
                  result |-> None]
  OBVIOUS
<1>1. x \in Match
  <2>1. e \in 1..MaxEvents /\ time \in Nat
    BY EventsAssumption, InvTypes DEF EventsInv, Typed, EventsOK, EventsAssumption
  <2> QED BY <2>1 DEF CreateMatch, Match
<1>2. /\ matches' = Append(matches, x) /\ UNCHANGED <<now, conf, events, predictions>>
      /\ Len(matches) < MaxMatches /\ ~events[e].finalized
      /\ time < events[e].end
  <2>1. ~(events[e].end <= now)
    <3>1. events[e].end \in Nat /\ time \in Nat /\ now \in Nat
      BY InvTypes, EventsAssumption DEF Event, EventsAssumption
    <3> QED BY <3>1 DEF CreateMatch, Schedulable
  <2> QED BY <2>1 DEF CreateMatch, Schedulable, EventsInv, FinalizedOver
<1>3. /\ matches' \in Seq(Match) /\ Len(matches') = Len(matches) + 1
      /\ DOMAIN matches' = DOMAIN matches \cup {Len(matches) + 1}
      /\ \A m \in DOMAIN matches : matches'[m] = matches[m]
      /\ matches'[Len(matches) + 1] = x
  BY <1>1, <1>2, InvTypes, AppendProperties
<1>4. Typed'
  <2>1. MatchesOK'
    BY <1>2, <1>3, InvTypes DEF EventsInv, Typed, MatchesOK
  <2> QED BY <1>2, <1>3, <2>1 DEF EventsInv, Typed, SettingsOK, EventsOK, PredictionsOK
<1>5. Timetable'
  BY <1>2, <1>3 DEF EventsInv, Timetable
<1>6. FinalizedOver'
  BY <1>2, <1>3 DEF EventsInv, FinalizedOver, Complete
<1>7. Graded'
  BY <1>2, <1>3, InvTypes DEF EventsInv, Graded
<1> QED BY <1>4, <1>5, <1>6, <1>7 DEF EventsInv

LEMMA SubmitPredictionStep ==
  ASSUME EventsInv, NEW u \in Users, NEW m \in DOMAIN matches, NEW score \in Scores,
         SubmitPrediction(u, m, score)
  PROVE  EventsInv'
<1> PICK x : x = [user |-> u, match |-> m, score |-> score, at |-> now, points |-> None]
  OBVIOUS
<1>1. /\ predictions' = predictions \cup {x}
      /\ UNCHANGED <<now, conf, events, matches>>
      /\ now < matches[m].time
  BY DEF SubmitPrediction, BeforeKickoff
<1>2. x \in Prediction
  <2>1. m \in 1..MaxMatches
    BY InvTypes DEF EventsInv, Typed, MatchesOK
  <2> QED BY <2>1, InvTypes DEF Prediction
<1>3. Typed'
  BY <1>1, <1>2 DEF EventsInv, Typed, SettingsOK, EventsOK, MatchesOK, PredictionsOK
<1>4. Timetable' /\ FinalizedOver'
  BY <1>1 DEF EventsInv, Timetable, FinalizedOver, Complete
<1>5. matches[m].result = None
  <2>1. matches[m].time \in Nat /\ now \in Nat
    BY InvTypes DEF Match
  <2> QED BY <1>1, <2>1 DEF EventsInv, Timetable
<1>6. Graded'
  BY <1>1, <1>5 DEF EventsInv, Graded
<1> QED BY <1>3, <1>4, <1>6 DEF EventsInv

LEMMA PointsType ==
  ASSUME NEW predicted, NEW actual, NEW multiplier \in 1..MaxMultiplier
  PROVE  Points(predicted, actual, multiplier) \in Nat
<1>1. \A k \in {0, 1, 4} : multiplier * k \in Nat
  BY DEF MaxMultiplier
<1>2. CASE predicted = actual
  BY <1>1, <1>2 DEF Points
<1>3. CASE predicted # actual /\ Outcome(predicted) = Outcome(actual)
  BY <1>1, <1>3 DEF Points
<1>4. CASE predicted # actual /\ Outcome(predicted) # Outcome(actual)
  BY <1>1, <1>4 DEF Points
<1> QED BY <1>2, <1>3, <1>4

(* A result is graded once and for all, and keeps whose and which a         *)
(* prediction is.                                                           *)
LEMMA ResultEffect ==
  ASSUME EventsInv, NEW a, NEW m \in DOMAIN matches, NEW score \in Scores,
         SubmitMatchResult(a, m, score)
  PROVE  /\ UNCHANGED <<now, conf, events>>
         /\ matches' \in Seq(Match) /\ Len(matches') = Len(matches)
         /\ DOMAIN matches' = DOMAIN matches
         /\ \A n \in DOMAIN matches \ {m} : matches'[n] = matches[n]
         /\ matches'[m].event = matches[m].event /\ matches'[m].time = matches[m].time
         /\ matches'[m].multiplier = matches[m].multiplier
         /\ matches'[m].result = score /\ matches[m].result = None /\ score # None
         /\ matches[m].time <= now
         /\ \A q \in predictions' :
              \/ q \in predictions /\ q.match # m
              \/ /\ q \in Prediction /\ q.match = m
                 /\ q.points = Points(q.score, score, matches[m].multiplier)
         /\ \A p \in predictions : p.match # m => p \in predictions'
<1> PICK x : x = [matches[m] EXCEPT !.result = score]
  OBVIOUS
<1>1. matches[m] \in Match
  BY InvTypes
<1>2. /\ x \in Match /\ x.event = matches[m].event /\ x.time = matches[m].time
      /\ x.multiplier = matches[m].multiplier /\ x.result = score
  BY <1>1 DEF Match
<1>3. matches' = [matches EXCEPT ![m] = x] /\ UNCHANGED <<now, conf, events>>
      /\ matches[m].result = None
  BY DEF SubmitMatchResult
<1>4. /\ matches' \in Seq(Match) /\ Len(matches') = Len(matches)
      /\ DOMAIN matches' = DOMAIN matches
      /\ \A n \in DOMAIN matches \ {m} : matches'[n] = matches[n]
      /\ matches'[m] = x
  BY <1>2, <1>3, InvTypes
<1>5. score # None
  BY EventsAssumption DEF EventsAssumption
<1>6. matches[m].time <= now
  BY <1>1, InvTypes DEF SubmitMatchResult, Match
<1> PICK pts : pts = [p \in predictions |->
                        Points(p.score, score, matches[m].multiplier)]
  OBVIOUS
<1>7. \A p \in predictions : pts[p] \in Nat
  BY <1>1, PointsType DEF Match
<1>8. predictions' = {IF p.match = m THEN [p EXCEPT !.points = pts[p]] ELSE p :
                        p \in predictions}
  BY DEF SubmitMatchResult
<1>9. ASSUME NEW q \in predictions'
      PROVE  \/ q \in predictions /\ q.match # m
             \/ /\ q \in Prediction /\ q.match = m
                /\ q.points = Points(q.score, score, matches[m].multiplier)
  <2> PICK p \in predictions :
        q = IF p.match = m THEN [p EXCEPT !.points = pts[p]] ELSE p
    BY <1>8
  <2>1. CASE p.match = m
    <3>1. p \in Prediction /\ pts[p] \in Nat
      BY <1>7, InvTypes
    <3>2. q \in Prediction /\ q.match = m /\ q.points = pts[p] /\ q.score = p.score
      BY <2>1, <3>1 DEF Prediction
    <3> QED BY <3>2
  <2>2. CASE p.match # m
    BY <2>2
  <2> QED BY <2>1, <2>2
<1>10. \A p \in predictions : p.match # m => p \in predictions'
  BY <1>8
<1> QED BY <1>2, <1>3, <1>4, <1>5, <1>6, <1>9, <1>10

LEMMA SubmitMatchResultStep ==
  ASSUME EventsInv, NEW a, NEW m \in DOMAIN matches, NEW score \in Scores,
         SubmitMatchResult(a, m, score)
  PROVE  EventsInv'
<1>1. /\ UNCHANGED <<now, conf, events>>
      /\ matches' \in Seq(Match) /\ Len(matches') = Len(matches)
      /\ DOMAIN matches' = DOMAIN matches
      /\ \A n \in DOMAIN matches \ {m} : matches'[n] = matches[n]
      /\ matches'[m].event = matches[m].event /\ matches'[m].time = matches[m].time
      /\ matches'[m].multiplier = matches[m].multiplier
      /\ matches'[m].result = score /\ matches[m].result = None /\ score # None
      /\ matches[m].time <= now
  BY ResultEffect
<1>2. \A q \in predictions' :
        \/ q \in predictions /\ q.match # m
        \/ /\ q \in Prediction /\ q.match = m
           /\ q.points = Points(q.score, score, matches[m].multiplier)
  BY ResultEffect
<1>3. Typed'
  <2>1. MatchesOK'
    BY <1>1 DEF EventsInv, Typed, MatchesOK
  <2>2. PredictionsOK'
    BY <1>1, <1>2, InvTypes DEF PredictionsOK
  <2> QED BY <1>1, <2>1, <2>2 DEF EventsInv, Typed, SettingsOK, EventsOK
<1>4. Timetable'
  BY <1>1 DEF EventsInv, Timetable
<1>5. FinalizedOver'
  BY <1>1 DEF EventsInv, FinalizedOver, Complete
<1>6. Graded'
  <2> SUFFICES ASSUME NEW q \in predictions'
               PROVE  q.points = IF matches'[q.match].result = None THEN None
                                 ELSE Points(q.score, matches'[q.match].result,
                                             matches'[q.match].multiplier)
    BY DEF Graded
  <2>1. CASE q \in predictions /\ q.match # m
    <3>1. matches'[q.match] = matches[q.match]
      BY <1>1, <2>1, InvTypes
    <3> QED BY <2>1, <3>1 DEF EventsInv, Graded
  <2>2. CASE /\ q.match = m
             /\ q.points = Points(q.score, score, matches[m].multiplier)
    BY <1>1, <2>2
  <2> QED BY <1>2, <2>1, <2>2
<1> QED BY <1>3, <1>4, <1>5, <1>6 DEF EventsInv

LEMMA AdminStep ==
  ASSUME EventsInv, Tick \/ AdminNext
  PROVE  EventsInv'
<1>1. SettingsOK'
  BY EventsAssumption
  DEF EventsInv, Typed, SettingsOK, Tick, AdminNext, UpdateCreationFee, SetAiAgent,
      SetTreasury, SetPaused, WithdrawFees, Configure, Accounts, EventsAssumption
<1>2. UNCHANGED <<events, matches, predictions>> /\ now' \in Nat /\ now' >= now
  BY InvTypes
  DEF Tick, AdminNext, UpdateCreationFee, SetAiAgent, SetTreasury, SetPaused,
      WithdrawFees, Configure
<1> QED BY <1>1, <1>2, SettingsStep

-----------------------------------------------------------------------------
(* The timetable keeps matches and results inside the life of their event,  *)
(* and grades follow results.                                               *)
THEOREM EventsInvariant == EventsSpec => []EventsInv
<1>1. EventsInit => EventsInv
  <2> SUFFICES ASSUME EventsInit PROVE EventsInv
    OBVIOUS
  <2>1. SettingsOK
    BY EventsAssumption DEF EventsInit, SettingsOK, Accounts, EventsAssumption
  <2>2. /\ events = <<>> /\ matches = <<>> /\ predictions = {} /\ now = 0
        /\ MaxEvents \in Nat /\ MaxMatches \in Nat
    BY EventsAssumption DEF EventsInit, EventsAssumption
  <2>3. Typed
    BY <2>1, <2>2 DEF Typed, EventsOK, MatchesOK, PredictionsOK
  <2> QED BY <2>2, <2>3 DEF EventsInv, Timetable, FinalizedOver, Graded
<1>2. EventsInv /\ [EventsNext]_eventVars => EventsInv'
  <2> SUFFICES ASSUME EventsInv, [EventsNext]_eventVars PROVE EventsInv'
    OBVIOUS
  <2>1. CASE EventsNext
    BY <2>1, AdminStep, CreateEventStep, CancelEventStep, CreateMatchStep, JoinEventStep,
       SubmitPredictionStep, SubmitMatchResultStep, FinalizeEventStep
    DEF EventsNext
  <2>2. CASE UNCHANGED eventVars
    <3>1. SettingsOK' /\ now' = now /\ now \in Nat
      BY <2>2 DEF eventVars, EventsInv, Typed, SettingsOK
    <3> QED BY <2>2, <3>1, SettingsStep DEF eventVars
  <2> QED BY <2>1, <2>2
<1> QED BY <1>1, <1>2, PTL DEF EventsSpec

(* The types, but for the balances. *)
THEOREM EventsTypeCorrect == EventsSpec => []Typed
<1>1. EventsInv => Typed
  BY DEF EventsInv
<1> QED BY <1>1, EventsInvariant, PTL

(* Every prediction of a decided match is graded by its result, no other is, *)
(* in every event that was not cancelled.                                    *)
THEOREM GradesCompleteAlways == EventsSpec => []GradesComplete
<1>1. EventsInv => GradesComplete
  BY DEF EventsInv, Graded, GradesComplete
<1> QED BY <1>1, EventsInvariant, PTL

(* The predictions of an event that was paid out stand: its matches have    *)
(* all begun and are all decided, and no match is added to it.              *)
LEMMA StandingsKept ==
  ASSUME EventsInv, EventsNext, NEW e \in DOMAIN events, events[e].finalized
  PROVE  PredictionsIn(e)' = PredictionsIn(e)
<1>1. events[e].end <= now /\ Complete(e) /\ events[e].end \in Nat /\ now \in Nat
  <2>1. events[e] \in Event /\ now \in Nat
    BY InvTypes
  <2> QED BY <2>1 DEF EventsInv, FinalizedOver, Event
<1>2. CASE UNCHANGED <<matches, predictions>>
  BY <1>2 DEF PredictionsIn
<1>3. ASSUME NEW c \in Creators, NEW d \in DOMAIN events, NEW time \in MatchTimes,
             NEW multiplier \in Multipliers, CreateMatch(c, d, time, multiplier)
      PROVE  PredictionsIn(e)' = PredictionsIn(e)
  <2>1. predictions' = predictions /\ \A m \in DOMAIN matches : matches'[m] = matches[m]
    BY <1>3, InvTypes DEF CreateMatch
  <2>2. \A p \in predictions : matches'[p.match] = matches[p.match]
    BY <2>1, InvTypes
  <2> QED BY <2>1, <2>2 DEF PredictionsIn
<1>4. ASSUME NEW u \in Users, NEW m \in DOMAIN matches, NEW score \in Scores,
             SubmitPrediction(u, m, score)
      PROVE  PredictionsIn(e)' = PredictionsIn(e)
  <2> PICK x : x = [user |-> u, match |-> m, score |-> score, at |-> now,
                    points |-> None]
    OBVIOUS
  <2>1. /\ predictions' = predictions \cup {x} /\ matches' = matches /\ x.match = m
        /\ now < matches[m].time
    BY <1>4 DEF SubmitPrediction, BeforeKickoff
  <2>2. matches[m].event # e
    <3>1. matches[m].time < events[matches[m].event].end /\ matches[m].time \in Nat
      BY InvTypes DEF EventsInv, Timetable, Match
    <3> QED BY <1>1, <2>1, <3>1
  <2> QED BY <2>1, <2>2 DEF PredictionsIn
<1>5. ASSUME NEW a \in Accounts, NEW m \in DOMAIN matches, NEW score \in Scores,
             SubmitMatchResult(a, m, score)
      PROVE  PredictionsIn(e)' = PredictionsIn(e)
  <2>1. matches[m].event # e
    BY <1>1, <1>5 DEF SubmitMatchResult, Complete
  <2>2. \A n \in DOMAIN matches : matches'[n].event = matches[n].event
    BY <1>5, ResultEffect
  <2>3. \A q \in predictions' : (q \in predictions /\ q.match # m) \/ q.match = m
    BY <1>5, ResultEffect
  <2>4. \A p \in predictions : p.match # m => p \in predictions'
    BY <1>5, ResultEffect
  <2>5. PredictionsIn(e)' = {q \in predictions' : matches'[q.match].event = e}
    BY DEF PredictionsIn
  <2>6. \A q \in predictions' : matches'[q.match].event = e =>
          q \in predictions /\ matches[q.match].event = e
    BY <2>1, <2>2, <2>3, InvTypes
  <2>7. \A p \in predictions : matches[p.match].event = e =>
          p \in predictions' /\ matches'[p.match].event = e
    BY <2>1, <2>2, <2>4, InvTypes
  <2> QED BY <2>5, <2>6, <2>7 DEF PredictionsIn
<1>6. \/ UNCHANGED <<matches, predictions>>
      \/ \E c \in Creators, d \in DOMAIN events, time \in MatchTimes,
            multiplier \in Multipliers : CreateMatch(c, d, time, multiplier)
      \/ \E u \in Users, m \in DOMAIN matches, score \in Scores :
           SubmitPrediction(u, m, score)
      \/ \E a \in Accounts, m \in DOMAIN matches, score \in Scores :
           SubmitMatchResult(a, m, score)
  BY DEF EventsNext, Tick, AdminNext, UpdateCreationFee, SetAiAgent, SetTreasury,
         SetPaused, WithdrawFees, Configure, CreateEvent, CancelEvent, JoinEvent,
         FinalizeEvent
<1> QED BY <1>2, <1>3, <1>4, <1>5, <1>6

(* Once an event is paid out, its predictions and their points stand. *)
THEOREM StandingsSettledAlways == EventsSpec => StandingsSettled
<1>1. EventsInv /\ [EventsNext]_eventVars =>
        [\A e \in DOMAIN events :
           events[e].finalized => PredictionsIn(e)' = PredictionsIn(e)]_eventVars
  BY StandingsKept
<1> QED BY <1>1, EventsInvariant, PTL DEF EventsSpec, StandingsSettled

-----------------------------------------------------------------------------
(* Every account holds a natural number of tokens. *)
Balances == bank \in [Accounts -> Nat]

(* No event promises more than its whole pool. *)
SplitsWhole == \A e \in DOMAIN events : PercentTotal(events[e].split) <= 100

(* Whoever predicted a match takes part in its event. *)
PredictorsJoined ==
  \A p \in predictions : p.user \in events[matches[p.match].event].participants

(* Whoever was paid by an event takes part in it. *)
PaidJoined ==
  \A e \in DOMAIN events, u \in Users :
    events[e].paid[u] # None => u \in events[e].participants

(* The invariant of the leaderboard: what TopScorersPaid needs to be kept   *)
(* by every step.                                                           *)
TableInv ==
  /\ IsFiniteSet(predictions)
  /\ SplitsWhole
  /\ PredictorsJoined
  /\ PaidJoined
  /\ TopScorersPaid

MoneyInv == Balances /\ PoolsEscrowed

(* The maximum of a finite nonempty set of numbers is in it and bounds it. *)
LEMMA MaxIsMember ==
  ASSUME NEW S \in SUBSET Nat, IsFiniteSet(S), S # {}
  PROVE  Max(S) \in S /\ \A x \in S : x <= Max(S)
<1> DEFINE G == {T \in SUBSET S : T = {} \/ \E x \in T : \A y \in T : x >= y}
<1>1. {} \in G
  OBVIOUS
<1>2. ASSUME NEW T \in SUBSET S, NEW x \in T, T \ {x} \in G PROVE T \in G
  <2>1. CASE T = {x}
    BY <2>1
  <2>2. CASE T # {x}
    <3>1. PICK y \in T \ {x} : \A z \in T \ {x} : y >= z
      BY <1>2, <2>2
    <3>2. x \in Nat /\ y \in Nat /\ \A z \in T : z \in Nat
      OBVIOUS
    <3>3. CASE y >= x
      <4>1. \A z \in T : y >= z
        BY <3>1, <3>3
      <4> QED BY <4>1
    <3>4. CASE x > y
      <4>1. \A z \in T : x >= z
        BY <3>1, <3>2, <3>4
      <4> QED BY <4>1
    <3> QED BY <3>2, <3>3, <3>4
  <2> QED BY <2>1, <2>2
<1>3. \A T \in SUBSET S : T \in G
  <2> HIDE DEF G
  <2> QED BY <1>1, <1>2, OneByOne
<1>4. \E x \in S : \A y \in S : x >= y
  BY <1>3
<1> QED BY <1>4 DEF Max

-----------------------------------------------------------------------------
(* Scores, prediction counts and correct ones are numbers. *)
LEMMA ScoreTypes ==
  ASSUME EventsInv, IsFiniteSet(predictions), NEW e, NEW u
  PROVE  /\ IsFiniteSet(Of(u, e))
         /\ TotalPoints(u, e) \in Nat
         /\ ExactScores(u, e) \in Nat
         /\ LastPredictionTime(u, e) \in Nat
<1>1. Of(u, e) \subseteq predictions
  BY DEF Of, PredictionsIn
<1>2. IsFiniteSet(Of(u, e))
  BY <1>1, FS_Subset
<1>3. TotalPoints(u, e) \in Nat
  <2> DEFINE f == [p \in Of(u, e) |-> IF p.points = None THEN 0 ELSE p.points]
  <2>1. \A p \in Of(u, e) : f[p] \in Nat
    BY <1>1, InvTypes DEF Prediction
  <2>2. DOMAIN f = Of(u, e)
    OBVIOUS
  <2> HIDE DEF f
  <2>3. SumFunctionOnSet(f, Of(u, e)) \in Nat
    BY <1>2, <2>1, SumNat
  <2> QED BY <2>2, <2>3 DEF TotalPoints, SumFunction, f
<1>4. ExactScores(u, e) \in Nat
  <2>1. IsFiniteSet({p \in Of(u, e) : p.points = 4})
    BY <1>2, FS_Subset
  <2> QED BY <2>1, FS_CardinalityType DEF ExactScores
<1>5. LastPredictionTime(u, e) \in Nat
  <2> DEFINE T == {p.at : p \in Of(u, e)}
  <2>1. IsFiniteSet(T)
    <3> DEFINE g == [p \in Of(u, e) |-> p.at]
    <3>1. g \in [Of(u, e) -> T] /\ \A t \in T : \E p \in Of(u, e) : g[p] = t
      OBVIOUS
    <3>2. g \in Surjection(Of(u, e), T)
      BY <3>1 DEF Surjection
    <3> QED BY <1>2, <3>2, FS_Surjection
  <2>2. IsFiniteSet(T \cup {0})
    BY <2>1, FS_AddElement
  <2>3. T \cup {0} \in SUBSET Nat
    BY <1>1, InvTypes DEF Prediction
  <2> HIDE DEF T
  <2>4. Max(T \cup {0}) \in Nat
    BY <2>2, <2>3, MaxIsMember
  <2> QED BY <2>4 DEF LastPredictionTime, T
<1> QED BY <1>2, <1>3, <1>4, <1>5

(* Outranks is a strict total order on the participants of an event. *)
LEMMA OutranksIsOrder ==
  ASSUME EventsInv, IsFiniteSet(predictions), NEW e
  PROVE  \A u, v \in Users :
           /\ u # v => Outranks(u, v, e) \/ Outranks(v, u, e)
           /\ ~(Outranks(u, v, e) /\ Outranks(v, u, e))
           /\ \A w \in Users : Outranks(u, v, e) /\ Outranks(v, w, e) => Outranks(u, w, e)
<1>1. \A u \in Users : /\ TotalPoints(u, e) \in Nat /\ ExactScores(u, e) \in Nat
                       /\ LastPredictionTime(u, e) \in Nat /\ Address[u] \in Nat
  BY ScoreTypes, EventsAssumption DEF EventsAssumption
<1>2. \A u, v \in Users : Address[u] = Address[v] => u = v
  BY EventsAssumption DEF EventsAssumption
<1> QED BY <1>1, <1>2 DEF Outranks

(* Whoever outranks another has a smaller rank. *)
LEMMA RankFollowsOrder ==
  ASSUME EventsInv, IsFiniteSet(predictions), NEW e \in DOMAIN events
  PROVE  \A u, v \in events[e].participants :
           /\ Rank(u, e) \in Nat \ {0}
           /\ Outranks(u, v, e) => Rank(u, e) < Rank(v, e)
<1> DEFINE P == events[e].participants
           above(u) == {v \in P \ {u} : Outranks(v, u, e)}
<1>1. P \subseteq Users /\ IsFiniteSet(P)
  <2>1. P \subseteq Users
    BY InvTypes DEF Event
  <2> QED BY <2>1, EventsAssumption, FS_Subset DEF EventsAssumption
<1>2. \A u \in P : IsFiniteSet(above(u)) /\ Cardinality(above(u)) \in Nat
                   /\ Rank(u, e) = 1 + Cardinality(above(u))
  BY <1>1, FS_Subset, FS_CardinalityType DEF Rank
<1>3. ASSUME NEW u \in P, NEW v \in P, Outranks(u, v, e)
      PROVE  Cardinality(above(u)) < Cardinality(above(v))
  <2>1. /\ ~Outranks(v, u, e)
        /\ \A w \in P : Outranks(w, u, e) => Outranks(w, v, e)
        /\ ~Outranks(u, u, e) /\ ~Outranks(v, v, e)
    BY <1>1, <1>3, OutranksIsOrder
  <2>2. above(u) \subseteq above(v) /\ u \in above(v) /\ u \notin above(u)
    BY <1>3, <2>1
  <2>3. IsFiniteSet(above(v)) /\ Cardinality(above(v)) \in Nat /\ Cardinality(above(u)) \in Nat
    BY <1>2
  <2> HIDE DEF above
  <2> QED BY <2>2, <2>3, FS_Subset
<1> HIDE DEF above
<1> QED BY <1>2, <1>3

(* Two participants never share a rank, so no prize is paid twice. *)
LEMMA RanksDiffer ==
  ASSUME EventsInv, IsFiniteSet(predictions), NEW e \in DOMAIN events
  PROVE  \A u, v \in events[e].participants : Rank(u, e) = Rank(v, e) => u = v
<1>1. events[e].participants \subseteq Users
  BY InvTypes DEF Event
<1> QED BY <1>1, OutranksIsOrder, RankFollowsOrder

(* What the winners get does not exceed the pool. *)
LEMMA PrizesWithinPool ==
  ASSUME EventsInv, TableInv, NEW e \in DOMAIN events
  PROVE  /\ IsFiniteSet(Winners(e)) /\ Winners(e) \subseteq Users
         /\ \A u \in Winners(e) : Prize(u, e) \in Nat
         /\ events[e].pool - SumFunction([u \in Winners(e) |-> Prize(u, e)]) \in Nat
<1> PICK W, split, pool, prize, n :
      /\ W = Winners(e) /\ split = events[e].split /\ pool = events[e].pool
      /\ n = Len(events[e].split)
      /\ prize = [u \in Winners(e) |-> Prize(u, e)]
  OBVIOUS
<1>0. events[e] \in Event
  BY InvTypes
<1>1. /\ events[e].participants \subseteq Users /\ split \in Seq(1..100) /\ pool \in Nat
      /\ n \in Nat /\ n = Len(split) /\ DOMAIN split = 1..n /\ IsFiniteSet(1..n)
  <2>1. events[e].participants \subseteq Users /\ split \in Seq(1..100) /\ pool \in Nat
    BY <1>0 DEF Event
  <2>2. n \in Nat /\ n = Len(split) /\ DOMAIN split = 1..n
    BY <2>1
  <2>3. IsFiniteSet(1..n)
    BY <2>2, FS_Interval
  <2> QED BY <2>1, <2>2, <2>3
<1>2. W \subseteq Users /\ IsFiniteSet(W)
  BY <1>1, EventsAssumption, FS_Subset DEF Winners, EventsAssumption
<1> DEFINE place == [u \in W |-> Rank(u, e)]
<1>3. \A u \in W : u \in events[e].participants /\ Rank(u, e) \in 1..n
  <2>1. IsFiniteSet(predictions)
    BY DEF TableInv
  <2> QED BY <1>1, <2>1, RankFollowsOrder DEF Winners
<1>4. place \in [W -> 1..n] /\ \A u, v \in W : place[u] = place[v] => u = v
  BY <1>3, RanksDiffer DEF TableInv
<1> HIDE DEF place
<1>5. \A i \in 1..n : split[i] \in 1..100 /\ split[i] \in Nat
  <2> TAKE i \in 1..n
  <2>1. i \in 1..Len(split)
    BY <1>1
  <2>2. split[i] \in 1..100
    BY <1>1, <2>1, SeqElement
  <2>3. \A k \in 1..100 : k \in Nat
    OBVIOUS
  <2> QED BY ONLY <2>2, <2>3
<1> DEFINE share == [u \in W |-> split[place[u]]]
           scaled == [u \in W |-> pool * share[u]]
           hundred == [u \in W |-> 100 * prize[u]]
<1>6. \A u \in W : share[u] \in Nat /\ share[u] = split[place[u]] /\ share[u] \in 1..100
  BY <1>4, <1>5
<1>7. ASSUME NEW u \in W
      PROVE  prize[u] \in Nat /\ prize[u] = Prize(u, e) /\ 100 * prize[u] <= pool * share[u]
  <2>1. prize[u] = (pool * share[u]) \div 100 /\ prize[u] = Prize(u, e)
    BY DEF Prize, place
  <2>2. \A k \in Nat : k \div 100 \in Nat /\ 100 * (k \div 100) <= k
    OBVIOUS
  <2>3. pool * share[u] \in Nat
    BY <1>1, <1>6
  <2> QED BY <2>1, <2>2, <2>3
<1>8. SumFunctionOnSet(share, W) <= SumFunctionOnSet(split, 1..n)
  <2>1. (\A u \in W : share[u] = split[place[u]]) /\ (\A i \in 1..n : split[i] \in Nat)
    BY <1>5, <1>6
  <2>2. IsFiniteSet(1..n) /\ IsFiniteSet(W)
    BY <1>1, <1>2
  <2> HIDE DEF share
  <2> QED BY ONLY <2>1, <2>2, <1>4, SumPlaced
<1>9. SumFunctionOnSet(split, 1..n) <= 100
  BY <1>1 DEF TableInv, SplitsWhole, PercentTotal, SumFunction
<1>10. SumFunctionOnSet(scaled, W) = pool * SumFunctionOnSet(share, W)
  <2>1. \A u \in W : share[u] \in Int /\ scaled[u] = pool * share[u]
    BY <1>6
  <2> HIDE DEF share, scaled
  <2> QED BY <1>1, <1>2, <2>1, SumScale
<1>11. SumFunctionOnSet(hundred, W) = 100 * SumFunctionOnSet(prize, W)
  <2>1. \A u \in W : prize[u] \in Int /\ hundred[u] = 100 * prize[u]
    BY <1>7
  <2>2. 100 \in Int
    OBVIOUS
  <2> HIDE DEF hundred
  <2> QED BY ONLY <1>2, <2>1, <2>2, SumScale
<1>12. SumFunctionOnSet(hundred, W) <= SumFunctionOnSet(scaled, W)
  <2>1. \A u \in W : hundred[u] \in Int /\ scaled[u] \in Int /\ hundred[u] <= scaled[u]
    BY <1>1, <1>6, <1>7
  <2> HIDE DEF hundred, scaled
  <2> QED BY <1>2, <2>1, SumMonotone
<1>13. SumFunctionOnSet(prize, W) \in Nat /\ SumFunctionOnSet(share, W) \in Nat
       /\ SumFunctionOnSet(split, 1..n) \in Nat
  <2> HIDE DEF share
  <2> QED BY <1>2, <1>5, <1>6, <1>7, <1>1, SumNat
<1>14. SumFunctionOnSet(prize, W) <= pool
  <2> PICK a, b, c : /\ a = SumFunctionOnSet(prize, W) /\ b = SumFunctionOnSet(share, W)
                     /\ c = SumFunctionOnSet(split, 1..n)
    OBVIOUS
  <2>1. a \in Nat /\ b \in Nat /\ c \in Nat /\ b <= c /\ c <= 100 /\ 100 * a <= pool * b
    BY <1>8, <1>9, <1>10, <1>11, <1>12, <1>13
  <2>2. pool * b <= pool * 100
    BY <1>1, <2>1
  <2>3. a <= pool
    BY <1>1, <2>1, <2>2
  <2> QED BY <2>3
<1>15. SumFunction([u \in Winners(e) |-> Prize(u, e)]) = SumFunctionOnSet(prize, W)
  BY DEF SumFunction
<1> QED BY <1>1, <1>2, <1>7, <1>13, <1>14, <1>15

-----------------------------------------------------------------------------
(* The table of an event that was paid out. *)
LEMMA PointsStand ==
  ASSUME EventsInv, EventsNext, NEW e \in DOMAIN events, events[e].finalized, NEW u
  PROVE  TotalPoints(u, e)' = TotalPoints(u, e)
<1>1. PredictionsIn(e)' = PredictionsIn(e)
  BY StandingsKept
<1> QED BY <1>1 DEF TotalPoints, Of

(* Who has not joined the event has no points in it. *)
LEMMA NoPointsBeforeJoining ==
  ASSUME EventsInv, TableInv, NEW e \in DOMAIN events, NEW u,
         u \notin events[e].participants
  PROVE  TotalPoints(u, e) = 0
<1>1. Of(u, e) = {}
  BY DEF Of, PredictionsIn, TableInv, PredictorsJoined
<1>2. \A f : DOMAIN f = {} => SumFunction(f) = 0
  BY SumEmpty DEF SumFunction
<1> QED BY <1>1, <1>2 DEF TotalPoints

(* An event whose table and payments stand keeps its top scorers paid. *)
LEMMA TopScorersKept ==
  ASSUME EventsInv, TableInv, EventsNext, NEW e \in DOMAIN events, events[e].finalized,
         events'[e].paid = events[e].paid,
         events[e].participants \subseteq events'[e].participants,
         events'[e].participants \subseteq Users
  PROVE  \A u, v \in events'[e].participants :
           events'[e].paid[u] # None /\ events'[e].paid[v] = None
             => TotalPoints(v, e)' <= TotalPoints(u, e)'
<1> SUFFICES ASSUME NEW u \in events'[e].participants, NEW v \in events'[e].participants,
                    events[e].paid[u] # None, events[e].paid[v] = None
             PROVE  TotalPoints(v, e) <= TotalPoints(u, e)
  BY PointsStand
<1>1. u \in events[e].participants
  BY DEF TableInv, PaidJoined
<1>2. CASE v \in events[e].participants
  BY <1>1, <1>2 DEF TableInv, TopScorersPaid
<1>3. CASE v \notin events[e].participants
  <2>1. TotalPoints(v, e) = 0
    BY <1>3, NoPointsBeforeJoining
  <2>2. TotalPoints(u, e) \in Nat
    BY ScoreTypes DEF TableInv
  <2> QED BY <2>1, <2>2
<1> QED BY <1>2, <1>3

(* Events keep their split and payments, participants stay, those paid out  *)
(* stay so: all but the payout and a new event.                             *)
LEMMA TableStep ==
  ASSUME EventsInv, TableInv, EventsNext,
         EventsInv', IsFiniteSet(predictions'), PredictorsJoined',
         DOMAIN events' = DOMAIN events,
         \A e \in DOMAIN events :
           /\ events'[e].split = events[e].split /\ events'[e].paid = events[e].paid
           /\ events'[e].finalized = events[e].finalized
           /\ events[e].participants \subseteq events'[e].participants
  PROVE  TableInv'
<1>1. SplitsWhole'
  BY DEF TableInv, SplitsWhole
<1>2. PaidJoined'
  BY DEF TableInv, PaidJoined
<1>3. TopScorersPaid'
  <2> SUFFICES ASSUME NEW e \in DOMAIN events, events[e].finalized
               PROVE  \A u, v \in events'[e].participants :
                        events'[e].paid[u] # None /\ events'[e].paid[v] = None
                          => TotalPoints(v, e)' <= TotalPoints(u, e)'
    BY DEF TopScorersPaid
  <2>1. events'[e].participants \subseteq Users
    <3>1. events'[e] \in Event
      BY DEF EventsInv, Typed, EventsOK
    <3> QED BY <3>1 DEF Event
  <2> QED BY <2>1, TopScorersKept
<1> QED BY <1>1, <1>2, <1>3 DEF TableInv

(* EventsInv is kept by every step; cited where TableInv' needs it. *)
LEMMA EventsInvKept == ASSUME EventsInv, EventsNext PROVE EventsInv'
BY AdminStep, CreateEventStep, CancelEventStep, CreateMatchStep, JoinEventStep,
   SubmitPredictionStep, SubmitMatchResultStep, FinalizeEventStep
DEF EventsNext

(* Administration and the clock leave the table alone. *)
LEMMA TableOnAdmin ==
  ASSUME EventsInv, TableInv, EventsNext, UNCHANGED <<events, matches, predictions>>
  PROVE  TableInv'
<1>1. PredictorsJoined' /\ IsFiniteSet(predictions')
  BY DEF TableInv, PredictorsJoined
<1>2. EventsInv'
  BY EventsInvKept
<1> QED BY <1>1, <1>2, TableStep

(* One event's entry changes, and keeps its split and payments. *)
LEMMA TableOnEvent ==
  ASSUME EventsInv, TableInv, EventsNext, NEW e \in DOMAIN events, NEW x,
         events' = [events EXCEPT ![e] = x], UNCHANGED <<matches, predictions>>,
         x.split = events[e].split, x.paid = events[e].paid,
         x.finalized = events[e].finalized,
         events[e].participants \subseteq x.participants
  PROVE  TableInv'
<1>1. DOMAIN events' = DOMAIN events /\ events'[e] = x
      /\ \A d \in DOMAIN events \ {e} : events'[d] = events[d]
  BY InvTypes
<1>2. \A p \in predictions : matches[p.match].event \in DOMAIN events
  BY InvTypes
<1>3. PredictorsJoined' /\ IsFiniteSet(predictions')
  BY <1>1, <1>2 DEF TableInv, PredictorsJoined
<1>4. EventsInv'
  BY EventsInvKept
<1> QED BY <1>1, <1>3, <1>4, TableStep

(* Cancelling changes neither split nor payments. *)
LEMMA TableOnCancelEvent ==
  ASSUME EventsInv, TableInv, EventsNext, NEW c \in Creators, NEW e \in DOMAIN events,
         CancelEvent(c, e)
  PROVE  TableInv'
<1> PICK x : x = [events[e] EXCEPT !.cancelled = TRUE]
  OBVIOUS
<1>1. events[e] \in Event
  BY InvTypes
<1>2. /\ x.split = events[e].split /\ x.paid = events[e].paid
      /\ x.finalized = events[e].finalized /\ x.participants = events[e].participants
  BY <1>1 DEF Event
<1>3. events' = [events EXCEPT ![e] = x] /\ UNCHANGED <<matches, predictions>>
  BY DEF CancelEvent
<1> QED BY <1>2, <1>3, TableOnEvent

(* A new participant has no points yet, and none is paid. *)
LEMMA TableOnJoinEvent ==
  ASSUME EventsInv, TableInv, EventsNext, NEW u \in Users, NEW e \in DOMAIN events,
         JoinEvent(u, e)
  PROVE  TableInv'
<1> PICK x, n, P : /\ n = events[e].pool + events[e].entryFee
                   /\ P = events[e].participants \cup {u}
                   /\ x = [events[e] EXCEPT !.pool = n, !.participants = P]
  OBVIOUS
<1>1. events[e] \in Event
  BY InvTypes
<1>2. /\ x.split = events[e].split /\ x.paid = events[e].paid
      /\ x.finalized = events[e].finalized /\ x.participants = P
  BY <1>1 DEF Event
<1>3. events' = [events EXCEPT ![e] = x] /\ UNCHANGED <<matches, predictions>>
  <2>1. events' = [events EXCEPT ![e].pool = n, ![e].participants = P]
    BY DEF JoinEvent
  <2> QED BY <2>1, InvTypes DEF JoinEvent
<1> QED BY <1>2, <1>3, TableOnEvent

(* A new event promises at most its pool and has paid nobody. *)
LEMMA TableOnCreateEvent ==
  ASSUME EventsInv, TableInv, EventsNext, NEW c \in Creators, NEW o \in Offers,
         CreateEvent(c, o)
  PROVE  TableInv'
<1> PICK x : x = [creator |-> c, end |-> o.end, cap |-> o.cap, split |-> o.split,
                  entryFee |-> o.entryFee, pool |-> o.pool, participants |-> {},
                  cancelled |-> FALSE, finalized |-> FALSE,
                  paid |-> [u \in Users |-> None]]
  OBVIOUS
<1>1. events' = Append(events, x) /\ UNCHANGED <<matches, predictions>>
  BY DEF CreateEvent
<1>2. /\ DOMAIN events' = DOMAIN events \cup {Len(events) + 1}
      /\ \A e \in DOMAIN events : events'[e] = events[e]
      /\ events'[Len(events) + 1] = x
  BY <1>1, InvTypes
<1>3. x.participants = {} /\ ~x.finalized /\ x.split = o.split
      /\ \A u \in Users : x.paid[u] = None
  OBVIOUS
<1>4. PercentTotal(o.split) <= 100
  <2>1. CASE o.split = <<>>
    <3>1. SumFunction(<<>>) = 0
      BY SumEmpty DEF SumFunction
    <3> QED BY <2>1, <3>1 DEF PercentTotal
  <2>2. CASE o.split # <<>>
    BY <2>2 DEF CreateEvent, ValidPrize
  <2> QED BY <2>1, <2>2
<1>5. IsFiniteSet(predictions') /\ SplitsWhole' /\ PaidJoined'
  BY <1>1, <1>2, <1>3, <1>4 DEF TableInv, SplitsWhole, PaidJoined
<1>6. PredictorsJoined'
  BY <1>1, <1>2, InvTypes DEF TableInv, PredictorsJoined
<1>7. TopScorersPaid'
  <2> SUFFICES ASSUME NEW e \in DOMAIN events, events[e].finalized
               PROVE  \A u, v \in events'[e].participants :
                        events'[e].paid[u] # None /\ events'[e].paid[v] = None
                          => TotalPoints(v, e)' <= TotalPoints(u, e)'
    BY <1>2, <1>3 DEF TopScorersPaid
  <2>1. events[e].participants \subseteq Users
    BY InvTypes DEF Event
  <2> QED BY <1>2, <2>1, TopScorersKept
<1> QED BY <1>5, <1>6, <1>7 DEF TableInv

(* A new match has no predictions and its event is not paid out. *)
LEMMA TableOnCreateMatch ==
  ASSUME EventsInv, TableInv, EventsNext, NEW c, NEW e, NEW time, NEW multiplier,
         CreateMatch(c, e, time, multiplier)
  PROVE  TableInv'
<1>1. UNCHANGED <<events, predictions>> /\ \A m \in DOMAIN matches : matches'[m] = matches[m]
  BY InvTypes DEF CreateMatch
<1>2. PredictorsJoined' /\ IsFiniteSet(predictions')
  BY <1>1, InvTypes DEF TableInv, PredictorsJoined
<1>3. EventsInv'
  BY EventsInvKept
<1> QED BY <1>1, <1>2, <1>3, TableStep

(* A prediction comes only from a participant, before the match begins. *)
LEMMA TableOnSubmitPrediction ==
  ASSUME EventsInv, TableInv, EventsNext, NEW u \in Users, NEW m \in DOMAIN matches,
         NEW score \in Scores, SubmitPrediction(u, m, score)
  PROVE  TableInv'
<1> PICK x : x = [user |-> u, match |-> m, score |-> score, at |-> now, points |-> None]
  OBVIOUS
<1>1. /\ UNCHANGED <<events, matches>> /\ predictions' = predictions \cup {x}
      /\ u \in events[matches[m].event].participants
  BY DEF SubmitPrediction
<1>2. IsFiniteSet(predictions')
  BY <1>1, FS_AddElement DEF TableInv
<1>3. PredictorsJoined'
  BY <1>1 DEF TableInv, PredictorsJoined
<1>4. EventsInv'
  BY EventsInvKept
<1> QED BY <1>1, <1>2, <1>3, <1>4, TableStep

(* A result is never given in an event that was paid out. *)
LEMMA TableOnSubmitMatchResult ==
  ASSUME EventsInv, TableInv, EventsNext, NEW a, NEW m \in DOMAIN matches,
         NEW score \in Scores, SubmitMatchResult(a, m, score)
  PROVE  TableInv'
<1> DEFINE graded == [p \in predictions |->
                        IF p.match = m
                        THEN [p EXCEPT !.points = Points(p.score, score, matches[m].multiplier)]
                        ELSE p]
<1>1. predictions' = {graded[p] : p \in predictions}
  BY DEF SubmitMatchResult
<1>2. \A p \in predictions : graded[p].match = p.match /\ graded[p].user = p.user
  BY InvTypes DEF Prediction
<1>3. UNCHANGED events /\ \A n \in DOMAIN matches : matches'[n].event = matches[n].event
  BY ResultEffect
<1>4. IsFiniteSet(predictions')
  <2>1. graded \in Surjection(predictions, predictions')
    BY <1>1 DEF Surjection
  <2> HIDE DEF graded
  <2> QED BY <2>1, FS_Surjection DEF TableInv
<1> HIDE DEF graded
<1>5. PredictorsJoined'
  <2> SUFFICES ASSUME NEW q \in predictions'
               PROVE  q.user \in events'[matches'[q.match].event].participants
    BY DEF PredictorsJoined
  <2>1. PICK p \in predictions : q = graded[p]
    BY <1>1
  <2>2. p.match \in DOMAIN matches /\ q.match = p.match /\ q.user = p.user
    BY <1>2, <2>1, InvTypes
  <2> QED BY <1>3, <2>2 DEF TableInv, PredictorsJoined
<1>6. EventsInv'
  BY EventsInvKept
<1> QED BY <1>3, <1>4, <1>5, <1>6, TableStep

(* The payout pays the ranks of the split, in their order. *)
LEMMA TableOnFinalizeEvent ==
  ASSUME EventsInv, TableInv, EventsNext, NEW e \in DOMAIN events, FinalizeEvent(e)
  PROVE  TableInv'
<1> PICK Paid, x :
      /\ Paid = [u \in Users |-> IF u \in Winners(e) THEN Prize(u, e) ELSE None]
      /\ x = [events[e] EXCEPT !.finalized = TRUE, !.paid = Paid]
  OBVIOUS
<1>1. events[e] \in Event
  BY InvTypes
<1>2. /\ x.split = events[e].split /\ x.paid = Paid
      /\ x.finalized /\ x.participants = events[e].participants
  BY <1>1 DEF Event
<1>3. events' = [events EXCEPT ![e] = x] /\ UNCHANGED <<matches, predictions>>
  <2>1. events' = [events EXCEPT ![e].finalized = TRUE, ![e].paid = Paid]
    BY DEF FinalizeEvent
  <2> QED BY <2>1, InvTypes DEF FinalizeEvent
<1>4. DOMAIN events' = DOMAIN events /\ events'[e] = x
      /\ \A d \in DOMAIN events \ {e} : events'[d] = events[d]
  BY <1>3, InvTypes
<1>5. Winners(e) \subseteq events[e].participants
      /\ \A u \in Winners(e) : Paid[u] = Prize(u, e) /\ Prize(u, e) # None
  <2>1. Winners(e) \subseteq events[e].participants
    BY DEF Winners
  <2>2. Winners(e) \subseteq Users /\ \A u \in Winners(e) : Prize(u, e) \in Nat
    BY PrizesWithinPool
  <2> QED BY <2>1, <2>2, EventsAssumption DEF EventsAssumption
<1>6. IsFiniteSet(predictions') /\ SplitsWhole' /\ PaidJoined'
  BY <1>2, <1>3, <1>4, <1>5 DEF TableInv, SplitsWhole, PaidJoined
<1>7. PredictorsJoined'
  <2>1. \A p \in predictions : matches[p.match].event \in DOMAIN events
    BY InvTypes
  <2> QED BY <1>2, <1>3, <1>4, <2>1 DEF TableInv, PredictorsJoined
<1>8. TopScorersPaid'
  <2> SUFFICES ASSUME NEW d \in DOMAIN events, events'[d].finalized
               PROVE  \A u, v \in events'[d].participants :
                        events'[d].paid[u] # None /\ events'[d].paid[v] = None
                          => TotalPoints(v, d)' <= TotalPoints(u, d)'
    BY <1>4 DEF TopScorersPaid
  <2>0. events[d].participants \subseteq Users
    BY InvTypes DEF Event
  <2>1. CASE d # e
    BY <1>4, <2>0, <2>1, TopScorersKept
  <2>2. CASE d = e
    <3> SUFFICES ASSUME NEW u \in events'[e].participants, NEW v \in events'[e].participants,
                        events'[e].paid[u] # None, events'[e].paid[v] = None
                 PROVE  TotalPoints(v, e)' <= TotalPoints(u, e)'
      BY <2>2
    <3>0. /\ TotalPoints(v, e)' = TotalPoints(v, e) /\ TotalPoints(u, e)' = TotalPoints(u, e)
          /\ u \in events[e].participants /\ v \in events[e].participants
          /\ Paid[u] # None /\ Paid[v] = None
      BY <1>2, <1>3, <1>4 DEF TotalPoints, Of, PredictionsIn
    <3>1. u \in Winners(e) /\ v \notin Winners(e)
      BY <1>5, <2>0, <2>2, <3>0
    <3>2. IsFiniteSet(predictions)
      BY DEF TableInv
    <3>3. Rank(u, e) <= Len(events[e].split) /\ ~(Rank(v, e) <= Len(events[e].split))
      BY <3>0, <3>1 DEF Winners
    <3>4. Rank(u, e) \in Nat /\ Rank(v, e) \in Nat
          /\ (Outranks(v, u, e) => Rank(v, e) < Rank(u, e))
      BY <3>0, <3>2, RankFollowsOrder
    <3>5. Len(events[e].split) \in Nat
      <4>1. events[e].split \in Seq(1..100)
        BY <1>1 DEF Event
      <4> QED BY <4>1
    <3>6. ~Outranks(v, u, e)
      BY <3>3, <3>4, <3>5
    <3>7. TotalPoints(u, e) \in Nat /\ TotalPoints(v, e) \in Nat
      BY <3>2, ScoreTypes
    <3> QED BY <3>0, <3>6, <3>7 DEF Outranks
  <2> QED BY <2>1, <2>2
<1> QED BY <1>6, <1>7, <1>8 DEF TableInv

(* The invariant of the leaderboard holds in every state. *)
THEOREM TableInvariant == EventsSpec => []TableInv
<1>1. EventsInit => TableInv
  <2> SUFFICES ASSUME EventsInit PROVE TableInv
    OBVIOUS
  <2>1. events = <<>> /\ predictions = {}
    BY DEF EventsInit
  <2> QED BY <2>1, FS_EmptySet
          DEF TableInv, SplitsWhole, PredictorsJoined, PaidJoined, TopScorersPaid
<1>2. EventsInv /\ TableInv /\ [EventsNext]_eventVars => TableInv'
  <2> SUFFICES ASSUME EventsInv, TableInv, [EventsNext]_eventVars PROVE TableInv'
    OBVIOUS
  <2>1. CASE Tick \/ AdminNext
    <3>1. UNCHANGED <<events, matches, predictions>> /\ EventsNext
      BY <2>1
      DEF Tick, AdminNext, UpdateCreationFee, SetAiAgent, SetTreasury, SetPaused,
          WithdrawFees, Configure, EventsNext
    <3> QED BY <3>1, TableOnAdmin
  <2>2. CASE EventsNext /\ ~(Tick \/ AdminNext)
    BY <2>2, TableOnCreateEvent, TableOnCancelEvent, TableOnCreateMatch, TableOnJoinEvent,
       TableOnSubmitPrediction, TableOnSubmitMatchResult, TableOnFinalizeEvent
    DEF EventsNext
  <2>3. CASE UNCHANGED eventVars
    BY <2>3
    DEF eventVars, TableInv, SplitsWhole, PredictorsJoined, PaidJoined, TopScorersPaid,
        TotalPoints, Of, PredictionsIn
  <2> QED BY <2>1, <2>2, <2>3
<1> QED BY <1>1, <1>2, EventsInvariant, PTL DEF EventsSpec

(* In an event that was paid out, nobody who was paid has fewer points than *)
(* somebody who was not, for any number of users, matches and prizes:       *)
(* finalize_event pays the top of the table (contracts/users/src/lib.rs).   *)
THEOREM TopScorersAlwaysPaid == EventsSpec => []TopScorersPaid
<1>1. TableInv => TopScorersPaid
  BY DEF TableInv
<1> QED BY <1>1, TableInvariant, PTL

-----------------------------------------------------------------------------
OpenPool ==
  [e \in DOMAIN events |-> IF events[e].finalized THEN 0 ELSE events[e].pool]

(* OpenPools is the sum of those debts over all the events. *)
LEMMA OpenPoolsAdded ==
  ASSUME EventsInv
  PROVE  /\ OpenPools = SumFunctionOnSet(OpenPool, DOMAIN events)
         /\ IsFiniteSet(DOMAIN events)
         /\ \A e \in DOMAIN events : OpenPool[e] \in Nat
         /\ OpenPools \in Nat
<1> DEFINE D == {d \in DOMAIN events : ~events[d].finalized}
           f == [e \in D |-> events[e].pool]
<1>1. IsFiniteSet(DOMAIN events)
  <2> PICK n : n = Len(events)
    OBVIOUS
  <2>1. n \in Nat /\ DOMAIN events = 1..n
    BY InvTypes
  <2> QED BY <2>1, FS_Interval
<1>2. \A e \in DOMAIN events : OpenPool[e] \in Nat /\ OpenPool[e] \in Int
  BY InvTypes DEF OpenPool, Event
<1>3. D \in SUBSET DOMAIN events /\ IsFiniteSet(D)
  BY <1>1, FS_Subset
<1>4. ASSUME NEW e \in D PROVE f[e] \in Int /\ OpenPool[e] = f[e]
  <2>1. events[e] \in Event
    BY InvTypes
  <2>2. events[e].pool \in Nat
    BY <2>1 DEF Event
  <2> QED BY <2>2 DEF OpenPool
<1>5. \A e \in DOMAIN events \ D : OpenPool[e] = 0
  BY DEF OpenPool
<1>6. OpenPools = SumFunctionOnSet(f, D)
  BY DEF OpenPools, SumFunction
<1> HIDE DEF D, f
<1>7. SumFunctionOnSet(f, D) = SumFunctionOnSet(OpenPool, D)
  BY <1>3, <1>4, SumAgree
<1>8. SumFunctionOnSet(OpenPool, DOMAIN events) = SumFunctionOnSet(OpenPool, D)
  BY <1>1, <1>2, <1>3, <1>5, SumElsewhereZero
<1>9. SumFunctionOnSet(OpenPool, DOMAIN events) \in Nat
  BY <1>1, <1>2, SumNat
<1> QED BY <1>1, <1>2, <1>6, <1>7, <1>8, <1>9

(* The same as a fact of every state, and so of the one after a step. *)
LEMMA OpenPoolsAddedAlways ==
  EventsInv => /\ OpenPools = SumFunctionOnSet(OpenPool, DOMAIN events)
               /\ \A e \in DOMAIN events : OpenPool[e] \in Nat
               /\ OpenPools \in Nat
BY OpenPoolsAdded

(* The same in the state after a step. *)
LEMMA OpenPoolsAddedNext ==
  ASSUME EventsInv'
  PROVE  /\ OpenPools' = SumFunctionOnSet(OpenPool', (DOMAIN events)')
         /\ \A e \in (DOMAIN events)' : OpenPool'[e] \in Nat
         /\ OpenPools' \in Nat
<1>1. (EventsInv => /\ OpenPools = SumFunctionOnSet(OpenPool, DOMAIN events)
                    /\ \A e \in DOMAIN events : OpenPool[e] \in Nat
                    /\ OpenPools \in Nat)'
  BY OpenPoolsAddedAlways, PTL
<1> QED BY <1>1

(* One event's entry changes: so does its part of what is owed. *)
LEMMA OpenPoolsOnEvent ==
  ASSUME EventsInv, EventsInv', NEW e \in DOMAIN events, NEW x,
         events' = [events EXCEPT ![e] = x]
  PROVE  OpenPools' = OpenPools - OpenPool[e] + (IF x.finalized THEN 0 ELSE x.pool)
<1>1. /\ DOMAIN events' = DOMAIN events /\ events'[e] = x
      /\ \A d \in DOMAIN events \ {e} : events'[d] = events[d]
  BY InvTypes
<1>2. /\ OpenPools = SumFunctionOnSet(OpenPool, DOMAIN events)
      /\ IsFiniteSet(DOMAIN events)
      /\ \A d \in DOMAIN events : OpenPool[d] \in Nat
  BY OpenPoolsAdded
<1>3. /\ OpenPools' = SumFunctionOnSet(OpenPool', DOMAIN events)
      /\ \A d \in DOMAIN events : OpenPool'[d] \in Nat
  BY <1>1, OpenPoolsAddedNext
<1>4. /\ \A d \in DOMAIN events : d # e => OpenPool'[d] = OpenPool[d]
      /\ OpenPool'[e] = IF x.finalized THEN 0 ELSE x.pool
  BY <1>1 DEF OpenPool
<1>5. SumFunctionOnSet(OpenPool', DOMAIN events)
        = SumFunctionOnSet(OpenPool, DOMAIN events) - OpenPool[e] + OpenPool'[e]
  <2> PICK f, g, D : f = OpenPool /\ g = OpenPool' /\ D = DOMAIN events
    OBVIOUS
  <2>1. \A d \in D : f[d] \in Int /\ g[d] \in Int /\ (d # e => g[d] = f[d])
    BY <1>2, <1>3, <1>4
  <2>2. SumFunctionOnSet(g, D) = SumFunctionOnSet(f, D) - f[e] + g[e]
    BY <1>2, <2>1, SumChange
  <2> QED BY <2>2
<1> QED BY <1>2, <1>3, <1>4, <1>5

(* A new event adds its pool to what is owed. *)
LEMMA OpenPoolsOnCreate ==
  ASSUME EventsInv, EventsInv', NEW x, events' = Append(events, x), ~x.finalized
  PROVE  OpenPools' = OpenPools + x.pool
<1> PICK n, D : n = Len(events) + 1 /\ D = DOMAIN events
  OBVIOUS
<1>1. /\ DOMAIN events' = D \cup {n} /\ n \notin D /\ events'[n] = x
      /\ \A d \in D : events'[d] = events[d]
  BY InvTypes
<1>2. /\ OpenPools = SumFunctionOnSet(OpenPool, D) /\ IsFiniteSet(D)
      /\ \A d \in D : OpenPool[d] \in Nat
  BY OpenPoolsAdded
<1>3. OpenPools' = SumFunctionOnSet(OpenPool', D \cup {n})
      /\ \A d \in D \cup {n} : OpenPool'[d] \in Nat
  BY <1>1, OpenPoolsAddedNext
<1>4. (\A d \in D : OpenPool'[d] = OpenPool[d]) /\ OpenPool'[n] = x.pool
  BY <1>1 DEF OpenPool
<1>5. SumFunctionOnSet(OpenPool', D \cup {n}) = SumFunctionOnSet(OpenPool, D) + x.pool
  <2> PICK f, g : f = OpenPool /\ g = OpenPool'
    OBVIOUS
  <2>1. (\A d \in D \cup {n} : g[d] \in Int) /\ \A d \in D : f[d] \in Int /\ g[d] = f[d]
    BY <1>2, <1>3, <1>4
  <2>2. SumFunctionOnSet(g, D \cup {n}) = SumFunctionOnSet(g, D) + g[n]
    BY <1>1, <1>2, <2>1, SumAdd
  <2>3. SumFunctionOnSet(f, D) = SumFunctionOnSet(g, D)
    BY <1>2, <2>1, SumAgree
  <2> QED BY <1>4, <2>2, <2>3
<1> QED BY <1>2, <1>3, <1>5

(* A transfer that is covered. *)
LEMMA MovedTokens ==
  ASSUME NEW b \in [Accounts -> Nat], NEW from \in Accounts, NEW to \in Accounts,
         NEW n \in Nat, n <= b[from], from # Contract
  PROVE  /\ Moved(b, from, to, n) \in [Accounts -> Nat]
         /\ Moved(b, from, to, n)[Contract] = b[Contract] + IF to = Contract THEN n ELSE 0
         /\ Moved(b, from, to, n)[from] >= b[from] - n
<1>1. Contract \in Accounts
  BY DEF Accounts
<1> QED BY <1>1 DEF Moved

(* The accounts that occur in transfers, and that none of the payees is the *)
(* contract.                                                                *)
LEMMA Addresses ==
  ASSUME EventsInv
  PROVE  /\ Contract \in Accounts /\ Contract \notin Users
         /\ Users \subseteq Accounts /\ Creators \subseteq Users
         /\ conf.treasury \in Accounts /\ conf.treasury # Contract /\ conf.fee \in Nat
BY EventsAssumption DEF EventsAssumption, Accounts, EventsInv, Typed, SettingsOK

(* Administration moves the treasury's tokens only. *)
LEMMA MoneyOnAdmin ==
  ASSUME EventsInv, MoneyInv, Tick \/ AdminNext
  PROVE  MoneyInv'
<1>1. UNCHANGED events
  BY DEF Tick, AdminNext, UpdateCreationFee, SetAiAgent, SetTreasury, SetPaused,
         WithdrawFees, Configure
<1>2. bank' \in [Accounts -> Nat] /\ bank'[Contract] = bank[Contract]
  <2>1. CASE bank' = bank
    BY <2>1 DEF MoneyInv, Balances
  <2>2. CASE \E to \in Payees, amount \in Withdrawals : WithdrawFees(to, amount)
    <3> PICK to \in Payees, amount \in Withdrawals : WithdrawFees(to, amount)
      BY <2>2
    <3>1. to \in Accounts /\ amount \in Nat
      BY EventsAssumption DEF EventsAssumption
    <3>2. /\ to # Contract /\ amount <= bank[conf.treasury]
          /\ bank' = Moved(bank, conf.treasury, to, amount)
      BY DEF WithdrawFees
    <3> QED BY <3>1, <3>2, Addresses, MovedTokens DEF MoneyInv, Balances
  <2> QED BY <2>1, <2>2
          DEF Tick, AdminNext, UpdateCreationFee, SetAiAgent, SetTreasury, SetPaused, Configure
<1>3. OpenPools' = OpenPools
  BY <1>1 DEF OpenPools
<1> QED BY <1>2, <1>3 DEF MoneyInv, Balances, PoolsEscrowed

(* The creator pays fee and pool before the event owes anything. *)
LEMMA MoneyOnCreateEvent ==
  ASSUME EventsInv, EventsInv', MoneyInv, NEW c \in Creators, NEW o \in Offers,
         CreateEvent(c, o)
  PROVE  MoneyInv'
<1> PICK x : x = [creator |-> c, end |-> o.end, cap |-> o.cap, split |-> o.split,
                  entryFee |-> o.entryFee, pool |-> o.pool, participants |-> {},
                  cancelled |-> FALSE, finalized |-> FALSE,
                  paid |-> [u \in Users |-> None]]
  OBVIOUS
<1>1. events' = Append(events, x) /\ ~x.finalized /\ x.pool = o.pool
  BY DEF CreateEvent
<1>2. o.pool \in Nat
  BY EventsAssumption DEF CreateEvent, EventsAssumption, Offer, ValidPrize
<1>3. OpenPools' = OpenPools + o.pool
  BY <1>1, OpenPoolsOnCreate
<1> PICK b : b = Moved(bank, c, conf.treasury, conf.fee)
  OBVIOUS
<1>4. c \in Accounts /\ c # Contract /\ conf.fee + o.pool <= bank[c] /\ bank[c] \in Nat
  BY Addresses DEF CreateEvent, CanFund, MoneyInv, Balances
<1>5. /\ b \in [Accounts -> Nat] /\ b[Contract] = bank[Contract]
      /\ b[c] >= bank[c] - conf.fee /\ b[c] \in Nat
  BY <1>2, <1>4, Addresses, MovedTokens DEF MoneyInv, Balances
<1>6. bank' = Moved(b, c, Contract, o.pool)
  BY DEF CreateEvent
<1>7. o.pool <= b[c]
  BY <1>2, <1>4, <1>5, Addresses
<1>8. bank' \in [Accounts -> Nat] /\ bank'[Contract] = b[Contract] + o.pool
  BY <1>2, <1>4, <1>5, <1>6, <1>7, Addresses, MovedTokens
<1>9. bank[Contract] \in Nat /\ OpenPools \in Nat
  BY Addresses, OpenPoolsAdded DEF MoneyInv, Balances
<1> QED BY <1>2, <1>3, <1>5, <1>8, <1>9 DEF MoneyInv, Balances, PoolsEscrowed

(* A cancelled event owes what it owed. *)
LEMMA MoneyOnCancelEvent ==
  ASSUME EventsInv, EventsInv', MoneyInv, NEW c \in Creators, NEW e \in DOMAIN events,
         CancelEvent(c, e)
  PROVE  MoneyInv'
<1> PICK x : x = [events[e] EXCEPT !.cancelled = TRUE]
  OBVIOUS
<1>1. x.finalized = events[e].finalized /\ x.pool = events[e].pool /\ events[e] \in Event
  BY InvTypes DEF Event
<1>2. events' = [events EXCEPT ![e] = x] /\ UNCHANGED bank
  BY DEF CancelEvent
<1>3. OpenPools' = OpenPools
  <2>1. OpenPools' = OpenPools - OpenPool[e] + (IF x.finalized THEN 0 ELSE x.pool)
    BY <1>2, OpenPoolsOnEvent
  <2>2. OpenPool[e] = (IF x.finalized THEN 0 ELSE x.pool)
    BY <1>1 DEF OpenPool
  <2>3. OpenPools \in Nat /\ OpenPool[e] \in Nat
    BY OpenPoolsAdded
  <2> QED BY <2>1, <2>2, <2>3
<1> QED BY <1>2, <1>3 DEF MoneyInv, Balances, PoolsEscrowed

(* The entry fee reaches the contract with the debt it adds to. *)
LEMMA MoneyOnJoinEvent ==
  ASSUME EventsInv, EventsInv', MoneyInv, NEW u \in Users, NEW e \in DOMAIN events,
         JoinEvent(u, e)
  PROVE  MoneyInv'
<1> PICK x, n, fee, P : /\ fee = events[e].entryFee
                   /\ n = events[e].pool + events[e].entryFee
                   /\ P = events[e].participants \cup {u}
                   /\ x = [events[e] EXCEPT !.pool = n, !.participants = P]
  OBVIOUS
<1>0. events[e] \in Event
  BY InvTypes
<1>1. /\ x.finalized = events[e].finalized /\ x.pool = events[e].pool + fee
      /\ events[e].pool \in Nat /\ fee \in Nat
  BY <1>0 DEF Event
<1>2. events' = [events EXCEPT ![e] = x]
  <2>1. events' = [events EXCEPT ![e].pool = n, ![e].participants = P]
    BY DEF JoinEvent
  <2> QED BY <2>1, InvTypes
<1>3. OpenPools' <= OpenPools + fee /\ OpenPools' \in Nat /\ OpenPools \in Nat
  <2>1. OpenPools' = OpenPools - OpenPool[e] + (IF x.finalized THEN 0 ELSE x.pool)
    BY <1>2, OpenPoolsOnEvent
  <2>2. OpenPool[e] = IF events[e].finalized THEN 0 ELSE events[e].pool
    BY DEF OpenPool
  <2>3. OpenPools \in Nat /\ OpenPools' \in Nat
    BY OpenPoolsAdded, OpenPoolsAddedNext
  <2> QED BY <1>1, <2>1, <2>2, <2>3
<1>4. bank' \in [Accounts -> Nat] /\ bank'[Contract] = bank[Contract] + fee
  <2>1. bank' = Moved(bank, u, Contract, fee) /\ fee <= bank[u]
    BY <1>1, Addresses DEF JoinEvent, MoneyInv, Balances
  <2> QED BY <1>1, <2>1, Addresses, MovedTokens DEF MoneyInv, Balances
<1>5. bank[Contract] \in Nat
  BY Addresses DEF MoneyInv, Balances
<1> QED BY <1>1, <1>3, <1>4, <1>5 DEF MoneyInv, Balances, PoolsEscrowed

(* Prizes and refund are together exactly the pool, and the contract has    *)
(* it.                                                                      *)
LEMMA MoneyOnFinalizeEvent ==
  ASSUME EventsInv, EventsInv', TableInv, MoneyInv, NEW e \in DOMAIN events,
         FinalizeEvent(e)
  PROVE  MoneyInv'
<1> PICK Paid, x, pool, refund :
      /\ Paid = [u \in Users |-> IF u \in Winners(e) THEN Prize(u, e) ELSE None]
      /\ x = [events[e] EXCEPT !.finalized = TRUE, !.paid = Paid]
      /\ pool = events[e].pool
      /\ refund = events[e].pool - SumFunction([u \in Winners(e) |-> Prize(u, e)])
  OBVIOUS
<1>0. events[e] \in Event
  BY InvTypes
<1>1. x.finalized /\ ~events[e].finalized /\ pool \in Nat /\ events[e].creator \in Creators
  BY <1>0 DEF Event, FinalizeEvent, Finalizable
<1>2. events' = [events EXCEPT ![e] = x]
  <2>1. events' = [events EXCEPT ![e].finalized = TRUE, ![e].paid = Paid]
    BY DEF FinalizeEvent
  <2> QED BY <2>1, InvTypes
<1>3. OpenPools' = OpenPools - pool /\ OpenPools \in Nat
  <2>1. OpenPools' = OpenPools - OpenPool[e] + (IF x.finalized THEN 0 ELSE x.pool)
    BY <1>2, OpenPoolsOnEvent
  <2>2. OpenPool[e] = pool
    BY <1>1 DEF OpenPool
  <2>3. OpenPools \in Nat
    BY OpenPoolsAdded
  <2> QED BY <1>1, <2>1, <2>2, <2>3
<1>4. /\ Winners(e) \subseteq Users /\ refund \in Nat
      /\ \A u \in Winners(e) : Prize(u, e) \in Nat
  BY PrizesWithinPool
<1>5. /\ bank[Contract] >= pool
      /\ bank' = [a \in Accounts |->
           bank[a] + (IF a \in Winners(e) THEN Prize(a, e) ELSE 0)
                   + (IF a = events[e].creator THEN refund ELSE 0)
                   - (IF a = Contract THEN pool ELSE 0)]
  BY DEF FinalizeEvent
<1>6. bank[Contract] \in Nat /\ \A a \in Accounts : bank[a] \in Nat
  BY Addresses DEF MoneyInv, Balances
<1>7. bank'[Contract] = bank[Contract] - pool
  BY <1>1, <1>4, <1>5, <1>6, Addresses
<1>8. ASSUME NEW a \in Accounts PROVE bank'[a] \in Nat
  BY <1>1, <1>4, <1>5, <1>6, <1>7
<1>9. bank' \in [Accounts -> Nat]
  BY <1>5, <1>8
<1> QED BY <1>1, <1>3, <1>6, <1>7, <1>9 DEF MoneyInv, Balances, PoolsEscrowed

(* A step that touches neither balances nor events keeps the invariant. *)
LEMMA MoneyElsewhere ==
  ASSUME MoneyInv, UNCHANGED <<bank, events>>
  PROVE  MoneyInv'
BY DEF MoneyInv, Balances, PoolsEscrowed, OpenPools

(* No balance is negative and the contract holds every open pool. *)
THEOREM MoneyInvariant == EventsSpec => []MoneyInv
<1>1. EventsInit => MoneyInv
  <2> SUFFICES ASSUME EventsInit PROVE MoneyInv
    OBVIOUS
  <2>1. bank \in [Accounts -> Nat] /\ bank[Contract] = 0
    BY EventsAssumption DEF EventsInit, EventsAssumption, Accounts
  <2>2. OpenPools = 0
    <3>1. \A f : DOMAIN f = {} => SumFunction(f) = 0
      BY SumEmpty DEF SumFunction
    <3>2. {d \in DOMAIN events : ~events[d].finalized} = {}
      BY DEF EventsInit
    <3> QED BY <3>1, <3>2 DEF OpenPools
  <2> QED BY <2>1, <2>2 DEF MoneyInv, Balances, PoolsEscrowed
<1>2. EventsInv /\ TableInv /\ MoneyInv /\ [EventsNext]_eventVars => MoneyInv'
  <2> SUFFICES ASSUME EventsInv, TableInv, MoneyInv, [EventsNext]_eventVars PROVE MoneyInv'
    OBVIOUS
  <2>1. CASE EventsNext
    <3>1. EventsInv'
      BY <2>1, EventsInvKept
    <3>2. CASE UNCHANGED <<bank, events>>
      BY <3>2, MoneyElsewhere
    <3>3. \/ Tick \/ AdminNext
          \/ \E c \in Creators, o \in Offers : CreateEvent(c, o)
          \/ \E c \in Creators, e \in DOMAIN events : CancelEvent(c, e)
          \/ \E u \in Users, e \in DOMAIN events : JoinEvent(u, e)
          \/ \E e \in DOMAIN events : FinalizeEvent(e)
          \/ UNCHANGED <<bank, events>>
      BY <2>1 DEF EventsNext, CreateMatch, SubmitPrediction, SubmitMatchResult
    <3> QED BY <3>1, <3>2, <3>3, MoneyOnAdmin, MoneyOnCreateEvent, MoneyOnCancelEvent,
               MoneyOnJoinEvent, MoneyOnFinalizeEvent
  <2>2. CASE UNCHANGED eventVars
    BY <2>2, MoneyElsewhere DEF eventVars
  <2> QED BY <2>1, <2>2
<1> QED BY <1>1, <1>2, EventsInvariant, TableInvariant, PTL DEF EventsSpec

(* The contract's balance always covers the pools of all the events not     *)
(* paid out, for any number of events: the ledger never has to refuse a     *)
(* payout.                                                                  *)
THEOREM PoolsAlwaysEscrowed == EventsSpec => []PoolsEscrowed
<1>1. MoneyInv => PoolsEscrowed
  BY DEF MoneyInv
<1> QED BY <1>1, MoneyInvariant, PTL

(* The clock stays within its bound; only Tick moves it. *)
LEMMA ClockBounded == EventsSpec => [](now \in 0..MaxTime)
<1>1. EventsInit => now \in 0..MaxTime
  BY EventsAssumption DEF EventsInit, EventsAssumption
<1>2. now \in 0..MaxTime /\ [EventsNext]_eventVars => (now \in 0..MaxTime)'
  <2> SUFFICES ASSUME now \in 0..MaxTime, [EventsNext]_eventVars PROVE now' \in 0..MaxTime
    OBVIOUS
  <2>1. now' = now \/ Tick
    BY DEF EventsNext, eventVars, AdminNext, UpdateCreationFee, SetAiAgent, SetTreasury,
           SetPaused, WithdrawFees, Configure, CreateEvent, CancelEvent, JoinEvent,
           CreateMatch, SubmitPrediction, SubmitMatchResult, FinalizeEvent
  <2>2. MaxTime \in Nat
    BY EventsAssumption DEF EventsAssumption
  <2> QED BY <2>1, <2>2 DEF Tick
<1> QED BY <1>1, <1>2, PTL DEF EventsSpec

(* Every variable of the users contract keeps its type, the balances with   *)
(* them: no fee, prize pool, entry fee, payout or withdrawal drives an      *)
(* account below zero.                                                      *)
THEOREM EventsTyped == EventsSpec => []EventsTypeOK
<1>1. EventsInv /\ MoneyInv /\ now \in 0..MaxTime => EventsTypeOK
  BY DEF EventsInv, Typed, SettingsOK, EventsOK, MatchesOK, PredictionsOK, MoneyInv,
         Balances, EventsTypeOK
<1> QED BY <1>1, EventsInvariant, MoneyInvariant, ClockBounded, PTL
=============================================================================
