-------------------------- MODULE Webhooks_proofs --------------------------
(***************************************************************************)
(* Why the outcomes on file are honest, for any number of endpoints, rows, *)
(* overlapping ticks and restarts.  Ticks save rows they read long before, *)
(* so what the invariant says of the rows on file it must say of every     *)
(* copy in a tick's hands as well; and since the count of posts only       *)
(* grows, a copy that was honest when it was read stays honest.            *)
(***************************************************************************)
EXTENDS Webhooks, FiniteSetTheorems, TLAPS

(* What a row may say, given what the receiver saw. *)
Honest(row, seen) ==
  /\ row.status = "failed" => seen.made >= MaxAttempts
  /\ row.status = "success" => seen.accepted
  /\ row.status = "pending" => row.attempts < MaxAttempts
  /\ row.attempts <= seen.made

RowsHonest == \A l \in DOMAIN logs : logs[l] # Gone => Honest(logs[l], posts[l])

(* The foreign key of webhook_delivery_logs. *)
RowsOwned == \A l \in DOMAIN logs : logs[l] # Gone => Exists(logs[l].endpoint)

(* A copy is of a row that was there, and of the same endpoint. *)
CopyHonest(c) ==
  /\ c.log \in DOMAIN logs
  /\ Honest(c.row, posts[c.log])
  /\ logs[c.log] # Gone => logs[c.log].endpoint = c.row.endpoint

QueueHonest(tick) == \A i \in DOMAIN tick.queue : CopyHonest(tick.queue[i])

(* Rows are posted while pending, and only the first of a queue is past it. *)
QueuePending(tick) ==
  /\ \A i \in DOMAIN tick.queue :
       i > 1 \/ tick.stage = "post" => tick.queue[i].row.status = "pending"
  /\ tick.stage # "post" => tick.queue # <<>>

CopiesHonest == \A t \in Ticks : QueueHonest(ticks[t])

QueuesPending == \A t \in Ticks : QueuePending(ticks[t])

WebhooksInv ==
  /\ WebhooksTypeOK
  /\ RowsHonest
  /\ RowsOwned
  /\ CopiesHonest
  /\ QueuesPending

-----------------------------------------------------------------------------
(* Marks are never rows. *)
LEMMA MarksDiffer ==
  /\ Gone \notin Log
  /\ {Gone, Unused} \cap Endpoint = {}
  BY WebhooksAssumption DEF WebhooksAssumption, Log, Endpoint

LEMMA ExistsTyped ==
  ASSUME WebhooksTypeOK, NEW e \in Endpoints
  PROVE  Exists(e) <=> endpoints[e] \in Endpoint
  BY MarksDiffer DEF WebhooksTypeOK, Exists

(* More posts never make a row dishonest. *)
LEMMA HonestMonotone ==
  ASSUME NEW row \in Log, NEW seen \in Posts, NEW later \in Posts,
         Honest(row, seen), later.made >= seen.made, seen.accepted => later.accepted
  PROVE  Honest(row, later)
<1>1. /\ row.attempts \in Nat /\ seen.made \in Nat /\ later.made \in Nat
      /\ MaxAttempts \in Nat
  BY WebhooksAssumption DEF WebhooksAssumption, Log, Posts
<1> QED BY <1>1 DEF Honest

(* One attempt on an honest pending row: the count of posts, kept up to     *)
(* MaxAttempts, goes with the row's own.                                    *)
LEMMA OutcomeHonest ==
  ASSUME NEW row \in Log, NEW seen \in Posts, NEW accepted \in BOOLEAN,
         Honest(row, seen), row.status = "pending"
  PROVE  LET later == [made |-> IF seen.made < MaxAttempts THEN seen.made + 1
                                                           ELSE seen.made,
                       accepted |-> seen.accepted \/ accepted]
         IN  /\ later \in Posts
             /\ later.made >= seen.made
             /\ seen.accepted => later.accepted
             /\ Outcome(row, accepted) \in Log
             /\ Outcome(row, accepted).endpoint = row.endpoint
             /\ Honest(Outcome(row, accepted), later)
<1> DEFINE later == [made |-> IF seen.made < MaxAttempts THEN seen.made + 1
                                                         ELSE seen.made,
                     accepted |-> seen.accepted \/ accepted]
           new == Outcome(row, accepted)
<1>1. /\ row.attempts \in Nat /\ seen.made \in Nat /\ MaxAttempts \in Nat \ {0}
      /\ row.attempts < MaxAttempts /\ row.attempts <= seen.made
      /\ seen.accepted \in BOOLEAN
  BY WebhooksAssumption DEF WebhooksAssumption, Log, Posts, Honest
<1>2. /\ later \in Posts
      /\ later.made >= seen.made
      /\ later.made >= row.attempts + 1
      /\ later.accepted = (seen.accepted \/ accepted)
  BY <1>1 DEF Posts
<1>3. /\ new.attempts = row.attempts + 1
      /\ new.endpoint = row.endpoint
      /\ new.status = IF accepted THEN "success"
                      ELSE IF row.attempts + 1 >= MaxAttempts THEN "failed" ELSE "pending"
      /\ new \in Log
  <2>1. CASE accepted
    <3> DEFINE graded == [row EXCEPT !.status = "success"]
    <3>1. new = [graded EXCEPT !.attempts = row.attempts + 1]
      BY <2>1 DEF Outcome, ScheduleRetry
    <3>2. graded \in Log /\ graded.endpoint = row.endpoint /\ graded.status = "success"
      BY <1>1, <2>1 DEF Log, Honest
    <3> HIDE DEF graded, new
    <3>3. row.attempts + 1 \in 0..MaxAttempts
      BY <1>1
    <3> QED BY <1>1, <2>1, <3>1, <3>2, <3>3 DEF Log
  <2>2. CASE ~accepted /\ row.attempts + 1 >= MaxAttempts
    <3> DEFINE graded == [row EXCEPT !.status = "failed", !.ready = TRUE]
    <3>1. new = [graded EXCEPT !.attempts = row.attempts + 1]
      BY <2>2 DEF Outcome, ScheduleRetry
    <3>2. graded \in Log /\ graded.endpoint = row.endpoint /\ graded.status = "failed"
      BY <1>1, <2>2 DEF Log, Honest
    <3> HIDE DEF graded, new
    <3>3. row.attempts + 1 \in 0..MaxAttempts
      BY <1>1
    <3> QED BY <1>1, <2>2, <3>1, <3>2, <3>3 DEF Log
  <2>3. CASE ~accepted /\ ~(row.attempts + 1 >= MaxAttempts)
    <3> DEFINE graded == [row EXCEPT !.ready = FALSE]
    <3>1. new = [graded EXCEPT !.attempts = row.attempts + 1]
      BY <2>3 DEF Outcome, ScheduleRetry
    <3>2. graded \in Log /\ graded.endpoint = row.endpoint /\ graded.status = "pending"
      BY <1>1, <2>3 DEF Log, Honest
    <3> HIDE DEF graded, new
    <3>3. row.attempts + 1 \in 0..MaxAttempts
      BY <1>1
    <3> QED BY <1>1, <2>3, <3>1, <3>2, <3>3 DEF Log
  <2> QED BY <2>1, <2>2, <2>3
<1> HIDE DEF later, new
<1>4. Honest(new, later)
  BY <1>1, <1>2, <1>3 DEF Honest, Posts
<1> QED BY <1>2, <1>3, <1>4 DEF later, new

-----------------------------------------------------------------------------
LEMMA WebhooksInitInv == WebhooksInit => WebhooksInv
<1> SUFFICES ASSUME WebhooksInit PROVE WebhooksInv
  OBVIOUS
<1>1. WebhooksTypeOK
  <2>1. NoTick \in Tick
    BY DEF NoTick, Tick
  <2>2. MaxLogs \in Nat /\ MaxCrashes \in Nat
    BY WebhooksAssumption DEF WebhooksAssumption
  <2>3. <<>> \in Seq(Log \cup {Gone}) /\ <<>> \in Seq(Posts) /\ Len(<<>>) = 0
    OBVIOUS
  <2> QED BY <2>1, <2>2, <2>3 DEF WebhooksInit, WebhooksTypeOK
<1>2. \A t \in Ticks : ticks[t].queue = <<>> /\ ticks[t].stage = "post"
  BY DEF WebhooksInit, NoTick
<1> QED BY <1>1, <1>2 DEF WebhooksInit, WebhooksInv, RowsHonest, RowsOwned,
                          CopiesHonest, QueueHonest, QueuesPending, QueuePending

(* A step that leaves rows, posts and ticks alone and removes no endpoint.  *)
LEMMA EndpointsOnly ==
  ASSUME WebhooksInv, WebhooksTypeOK', UNCHANGED <<logs, posts, ticks>>,
         \A e \in Endpoints : Exists(e) => Exists(e)'
  PROVE  WebhooksInv'
<1>1. \A l \in DOMAIN logs : logs[l] # Gone => logs[l].endpoint \in Endpoints
  BY DEF WebhooksInv, WebhooksTypeOK, Log
<1> QED BY <1>1 DEF WebhooksInv, RowsHonest, RowsOwned, CopiesHonest, QueueHonest,
                    CopyHonest, QueuesPending, QueuePending

LEMMA RequestsInv ==
  ASSUME WebhooksInv,
         \/ \E e \in Endpoints :
              (\E types \in Subscriptions : CreateEndpoint(e, types)) \/ ReadForUpdate(e)
         \/ \E row \in Edits : UpdateEndpoint(row)
         \/ \E m \in Emitters, type \in EventTypes : Emit(m, type)
         \/ UNCHANGED webhookVars
  PROVE  WebhooksInv'
<1>1. WebhooksTypeOK
  BY DEF WebhooksInv
<1>2. ASSUME NEW e \in Endpoints, NEW types \in Subscriptions, CreateEndpoint(e, types)
      PROVE  WebhooksInv'
  <2>1. [active |-> TRUE, types |-> types] \in Endpoint
    BY WebhooksAssumption DEF WebhooksAssumption, Endpoint
  <2>2. WebhooksTypeOK'
    BY <1>1, <1>2, <2>1 DEF CreateEndpoint, WebhooksTypeOK
  <2>3. \A f \in Endpoints : Exists(f) => Exists(f)'
    BY <1>1, <1>2, <2>1, MarksDiffer DEF CreateEndpoint, WebhooksTypeOK, Exists
  <2> QED BY <1>2, <2>2, <2>3, EndpointsOnly DEF CreateEndpoint
<1>3. ASSUME NEW e \in Endpoints, ReadForUpdate(e)
      PROVE  WebhooksInv'
  <2>1. WebhooksTypeOK'
    BY <1>1, <1>3 DEF ReadForUpdate, WebhooksTypeOK
  <2> QED BY <1>3, <2>1, EndpointsOnly DEF ReadForUpdate, Exists
<1>4. ASSUME NEW row \in Edits, UpdateEndpoint(row)
      PROVE  WebhooksInv'
  <2>1. row \in Endpoint
    BY WebhooksAssumption DEF WebhooksAssumption, Endpoint
  <2>2. WebhooksTypeOK'
    BY <1>1, <1>4, <2>1 DEF UpdateEndpoint, WebhooksTypeOK
  <2>3. \A f \in Endpoints : Exists(f) => Exists(f)'
    BY <1>1, <1>4, <2>1, MarksDiffer DEF UpdateEndpoint, WebhooksTypeOK, Exists
  <2> QED BY <1>4, <2>2, <2>3, EndpointsOnly DEF UpdateEndpoint
<1>5. ASSUME NEW m \in Emitters, NEW type \in EventTypes, Emit(m, type)
      PROVE  WebhooksInv'
  <2>1. Targets(type) \subseteq Endpoints
    BY DEF Targets
  <2>2. WebhooksTypeOK'
    BY <1>1, <1>5, <2>1 DEF Emit, WebhooksTypeOK
  <2> QED BY <1>5, <2>2, EndpointsOnly DEF Emit, Exists
<1>6. CASE UNCHANGED webhookVars
  <2>1. WebhooksTypeOK'
    BY <1>1, <1>6 DEF webhookVars, WebhooksTypeOK
  <2> QED BY <1>6, <2>1, EndpointsOnly DEF webhookVars, Exists
<1> QED BY <1>2, <1>3, <1>4, <1>5, <1>6

-----------------------------------------------------------------------------
(* A row on file, and a copy of one. *)
LEMMA RowTyped ==
  ASSUME WebhooksInv, NEW l \in DOMAIN logs
  PROVE  /\ l \in 1..MaxLogs
         /\ l \in DOMAIN posts /\ posts[l] \in Posts
         /\ logs[l] \in Log \cup {Gone}
         /\ logs[l] # Gone =>
              /\ logs[l] \in Log
              /\ logs[l].endpoint \in Endpoints
              /\ endpoints[logs[l].endpoint] \in Endpoint
              /\ Honest(logs[l], posts[l])
<1>1. WebhooksTypeOK /\ MaxLogs \in Nat
  BY WebhooksAssumption DEF WebhooksAssumption, WebhooksInv
<1>2. /\ logs \in Seq(Log \cup {Gone}) /\ Len(logs) <= MaxLogs
      /\ posts \in Seq(Posts) /\ Len(posts) = Len(logs)
  BY <1>1 DEF WebhooksTypeOK
<1>3. /\ l \in 1..MaxLogs /\ logs[l] \in Log \cup {Gone}
      /\ l \in DOMAIN posts /\ posts[l] \in Posts
  BY <1>1, <1>2
<1>4. ASSUME logs[l] # Gone
      PROVE  /\ logs[l] \in Log
             /\ logs[l].endpoint \in Endpoints
             /\ endpoints[logs[l].endpoint] \in Endpoint
             /\ Honest(logs[l], posts[l])
  <2>1. logs[l] \in Log /\ logs[l].endpoint \in Endpoints
    BY <1>3, <1>4 DEF Log
  <2> QED BY <1>1, <1>4, <2>1, ExistsTyped DEF WebhooksInv, RowsHonest, RowsOwned
<1> QED BY <1>3, <1>4

LEMMA TickTyped ==
  ASSUME WebhooksInv, NEW t \in Ticks
  PROVE  /\ ticks[t] \in Tick
         /\ ticks[t].queue \in Seq(Copy)
         /\ QueueHonest(ticks[t])
         /\ QueuePending(ticks[t])
  BY DEF WebhooksInv, WebhooksTypeOK, Tick, CopiesHonest, QueuesPending

LEMMA QueueShape ==
  ASSUME NEW queue \in Seq(Copy), queue # <<>>
  PROVE  /\ 1 \in DOMAIN queue
         /\ Head(queue) = queue[1] /\ Head(queue) \in Copy
         /\ Tail(queue) \in Seq(Copy)
         /\ \A i \in DOMAIN Tail(queue) :
              i + 1 \in DOMAIN queue /\ i + 1 > 1 /\ Tail(queue)[i] = queue[i + 1]
  OBVIOUS

(* What a tick goes on with when it is done with its first row.             *)
LEMMA RestOfQueue ==
  ASSUME WebhooksInv, NEW t \in Ticks, ticks[t].queue # <<>>
  PROVE  LET rest == [queue |-> Tail(ticks[t].queue), stage |-> "post"]
         IN  rest \in Tick /\ QueueHonest(rest) /\ QueuePending(rest)
<1> DEFINE queue == ticks[t].queue
           rest == [queue |-> Tail(queue), stage |-> "post"]
<1>1. /\ queue \in Seq(Copy) /\ QueueHonest(ticks[t]) /\ QueuePending(ticks[t])
  BY TickTyped
<1>2. /\ Tail(queue) \in Seq(Copy)
      /\ \A i \in DOMAIN Tail(queue) :
           i + 1 \in DOMAIN queue /\ i + 1 > 1 /\ Tail(queue)[i] = queue[i + 1]
  BY <1>1, QueueShape
<1>3. \A i \in DOMAIN queue : CopyHonest(queue[i]) /\ (i > 1 => queue[i].row.status = "pending")
  BY <1>1 DEF QueueHonest, QueuePending
<1> QED BY <1>2, <1>3 DEF Tick, QueueHonest, QueuePending

LEMMA NoTickHonest == NoTick \in Tick /\ QueueHonest(NoTick) /\ QueuePending(NoTick)
  BY DEF NoTick, Tick, QueueHonest, QueuePending

(* A step that only sets one tick. *)
LEMMA TickOnly ==
  ASSUME WebhooksInv, NEW t \in Ticks, NEW new \in Tick,
         ticks' = [ticks EXCEPT ![t] = new],
         UNCHANGED <<endpoints, logs, posts, emits, edit, crashes>>,
         QueueHonest(new), QueuePending(new)
  PROVE  WebhooksInv'
<1>1. WebhooksTypeOK'
  BY DEF WebhooksInv, WebhooksTypeOK
<1>2. \A s \in Ticks : ticks'[s] = IF s = t THEN new ELSE ticks[s]
  BY DEF WebhooksInv, WebhooksTypeOK
<1>3. RowsHonest' /\ RowsOwned'
  BY DEF WebhooksInv, RowsHonest, RowsOwned, Exists
<1>4. CopiesHonest'
  BY <1>2 DEF WebhooksInv, CopiesHonest, QueueHonest, CopyHonest
<1>5. QueuesPending'
  BY <1>2 DEF WebhooksInv, QueuesPending
<1> QED BY <1>1, <1>3, <1>4, <1>5 DEF WebhooksInv

-----------------------------------------------------------------------------
LEMMA DeleteEndpointInv ==
  ASSUME WebhooksInv, NEW e \in Endpoints, DeleteEndpoint(e)
  PROVE  WebhooksInv'
<1>1. WebhooksTypeOK
  BY DEF WebhooksInv
<1>2. /\ DOMAIN logs' = DOMAIN logs /\ Len(logs') = Len(logs)
      /\ logs' \in Seq(Log \cup {Gone})
      /\ \A l \in DOMAIN logs :
           /\ logs'[l] # Gone =>
                logs'[l] = logs[l] /\ logs[l] # Gone /\ logs[l].endpoint # e
           /\ logs'[l] = logs[l] \/ logs'[l] = Gone
  <2>1. logs \in Seq(Log \cup {Gone})
    BY <1>1 DEF WebhooksTypeOK
  <2> QED BY <2>1 DEF DeleteEndpoint
<1>3. \A f \in Endpoints : endpoints'[f] = IF f = e THEN Gone ELSE endpoints[f]
  BY <1>1 DEF DeleteEndpoint, WebhooksTypeOK
<1>4. WebhooksTypeOK'
  BY <1>1, <1>2 DEF DeleteEndpoint, WebhooksTypeOK
<1>5. RowsHonest'
  BY <1>2 DEF DeleteEndpoint, WebhooksInv, RowsHonest
<1>6. RowsOwned'
  BY <1>2, <1>3, RowTyped DEF WebhooksInv, RowsOwned, Exists
<1>7. CopiesHonest'
  BY <1>2 DEF DeleteEndpoint, WebhooksInv, CopiesHonest, QueueHonest, CopyHonest
<1>8. QueuesPending'
  BY DEF DeleteEndpoint, WebhooksInv, QueuesPending
<1> QED BY <1>4, <1>5, <1>6, <1>7, <1>8 DEF WebhooksInv

(* The new row is pending, with no attempt behind it. *)
LEMMA CreateDeliveryLogInv ==
  ASSUME WebhooksInv, NEW m \in Emitters, CreateDeliveryLog(m)
  PROVE  WebhooksInv'
<1>1. WebhooksTypeOK /\ MaxAttempts \in Nat \ {0} /\ MaxLogs \in Nat
  BY WebhooksAssumption DEF WebhooksAssumption, WebhooksInv
<1>2. PICK e \in emits[m] :
        /\ Len(logs) < MaxLogs
        /\ IF Exists(e)
           THEN /\ emits' = [emits EXCEPT ![m] = @ \ {e}]
                /\ logs' = Append(logs, [endpoint |-> e, status |-> "pending",
                                         attempts |-> 0, ready |-> TRUE])
                /\ posts' = Append(posts, [made |-> 0, accepted |-> FALSE])
           ELSE /\ emits' = [emits EXCEPT ![m] = {}]
                /\ UNCHANGED <<logs, posts>>
        /\ UNCHANGED <<endpoints, edit, ticks, crashes>>
  BY DEF CreateDeliveryLog
<1>3. e \in Endpoints /\ emits' \in [Emitters -> SUBSET Endpoints]
  BY <1>1, <1>2 DEF WebhooksTypeOK
<1>4. CASE ~Exists(e)
  <2>1. WebhooksTypeOK'
    BY <1>1, <1>2, <1>3, <1>4 DEF WebhooksTypeOK
  <2> QED BY <1>2, <1>4, <2>1, EndpointsOnly DEF Exists
<1>5. CASE Exists(e)
  <2> DEFINE new == [endpoint |-> e, status |-> "pending", attempts |-> 0, ready |-> TRUE]
             seen == [made |-> 0, accepted |-> FALSE]
  <2>1. new \in Log /\ new.endpoint = e /\ seen \in Posts /\ Honest(new, seen)
    BY <1>1, <1>3 DEF Log, Posts, Honest
  <2>2. logs' = Append(logs, new) /\ posts' = Append(posts, seen)
    BY <1>2, <1>5
  <2> HIDE DEF new, seen
  <2>3. /\ logs \in Seq(Log \cup {Gone}) /\ posts \in Seq(Posts)
        /\ Len(posts) = Len(logs) /\ Len(logs) \in Nat
    BY <1>1 DEF WebhooksTypeOK
  <2>4. /\ logs' \in Seq(Log \cup {Gone}) /\ posts' \in Seq(Posts)
        /\ Len(logs') = Len(logs) + 1 /\ Len(posts') = Len(logs')
        /\ DOMAIN logs' = DOMAIN logs \cup {Len(logs) + 1}
        /\ logs'[Len(logs) + 1] = new /\ posts'[Len(logs) + 1] = seen
        /\ \A l \in DOMAIN logs : logs'[l] = logs[l] /\ posts'[l] = posts[l]
    BY <2>1, <2>2, <2>3
  <2>5. WebhooksTypeOK'
    BY <1>1, <1>2, <1>3, <2>4 DEF WebhooksTypeOK
  <2>6. RowsHonest'
    BY <2>1, <2>4 DEF WebhooksInv, RowsHonest
  <2>7. RowsOwned'
    BY <1>2, <1>5, <2>1, <2>4 DEF WebhooksInv, RowsOwned, Exists
  <2>8. CopiesHonest' /\ QueuesPending'
    <3>1. ASSUME NEW c, CopyHonest(c) PROVE CopyHonest(c)'
      BY <2>4, <3>1 DEF CopyHonest
    <3> QED BY <1>2, <3>1 DEF WebhooksInv, CopiesHonest, QueueHonest, QueuesPending
  <2> QED BY <2>5, <2>6, <2>7, <2>8 DEF WebhooksInv
<1> QED BY <1>4, <1>5

(* Copies of pending rows are as honest as the rows. *)
LEMMA FetchInv ==
  ASSUME WebhooksInv, NEW t \in Ticks, Fetch(t)
  PROVE  WebhooksInv'
<1>1. PICK batch \in SUBSET Pending :
        \E ready \in SetToSeqs({l \in batch : logs[l].ready}) :
          ticks' = [ticks EXCEPT ![t].queue = [i \in DOMAIN ready |-> CopyOf(ready[i])]]
  BY DEF Fetch
<1> DEFINE due == {l \in batch : logs[l].ready}
<1>2. PICK ready \in SetToSeqs(due) :
        ticks' = [ticks EXCEPT ![t].queue = [i \in DOMAIN ready |-> CopyOf(ready[i])]]
  BY <1>1
<1>3. due \subseteq Pending /\ Pending \subseteq DOMAIN logs
  BY DEF Pending
<1>4. Cardinality(due) \in Nat
  <2>1. logs \in Seq(Log \cup {Gone})
    BY DEF WebhooksInv, WebhooksTypeOK
  <2>2. IsFiniteSet(1..Len(logs)) /\ DOMAIN logs = 1..Len(logs)
    BY <2>1, FS_Interval
  <2> QED BY <1>3, <2>2, FS_Subset, FS_CardinalityType
<1>5. ready \in [1..Cardinality(due) -> due]
  BY <1>2 DEF SetToSeqs
<1> HIDE DEF due
<1> DEFINE new == [queue |-> [i \in DOMAIN ready |-> CopyOf(ready[i])], stage |-> "post"]
<1>6. ASSUME NEW l \in Pending
      PROVE  CopyOf(l) \in Copy /\ CopyHonest(CopyOf(l)) /\ CopyOf(l).row.status = "pending"
  <2>1. l \in DOMAIN logs /\ logs[l] # Gone /\ logs[l].status = "pending"
    BY DEF Pending
  <2> QED BY <2>1, RowTyped DEF CopyOf, Copy, CopyHonest
<1>7. new.queue \in Seq(Copy)
  BY <1>3, <1>4, <1>5, <1>6
<1>8. /\ new \in Tick /\ QueueHonest(new) /\ QueuePending(new)
  BY <1>3, <1>5, <1>6, <1>7 DEF Tick, QueueHonest, QueuePending
<1>9. ticks' = [ticks EXCEPT ![t] = new]
  <2>1. ticks \in [Ticks -> Tick] /\ ticks[t].stage = "post" /\ ticks[t] \in Tick
    BY DEF Fetch, NoTick, WebhooksInv, WebhooksTypeOK
  <2>2. [ticks[t] EXCEPT !.queue = new.queue] = new
    BY <2>1 DEF Tick
  <2> QED BY <1>2, <2>1, <2>2
<1> HIDE DEF new
<1> QED BY <1>8, <1>9, TickOnly DEF Fetch

LEMMA AttemptDeliveryInv ==
  ASSUME WebhooksInv, NEW t \in Ticks, NEW accepted \in BOOLEAN,
         AttemptDelivery(t, accepted)
  PROVE  WebhooksInv'
<1> DEFINE queue == ticks[t].queue
           copy == Head(queue)
           seen == posts[copy.log]
           later == [made |-> IF seen.made < MaxAttempts THEN seen.made + 1 ELSE seen.made,
                     accepted |-> seen.accepted \/ accepted]
           row == Outcome(copy.row, accepted)
           new == [copy EXCEPT !.row = row]
           tick == [queue |-> <<new>> \o Tail(queue), stage |-> "saveLog"]
<1>1. /\ ticks[t] \in Tick /\ queue \in Seq(Copy) /\ queue # <<>>
      /\ QueueHonest(ticks[t]) /\ QueuePending(ticks[t]) /\ ticks[t].stage = "post"
  <2>1. ticks[t] \in Tick /\ ticks[t] # NoTick /\ ticks[t].stage = "post"
    BY TickTyped DEF AttemptDelivery
  <2>2. queue # <<>>
    BY <2>1 DEF Tick, NoTick
  <2> QED BY <2>1, <2>2, TickTyped
<1>2. /\ 1 \in DOMAIN queue /\ copy = queue[1] /\ copy \in Copy
      /\ Tail(queue) \in Seq(Copy)
      /\ \A i \in DOMAIN Tail(queue) :
           i + 1 \in DOMAIN queue /\ i + 1 > 1 /\ Tail(queue)[i] = queue[i + 1]
  BY <1>1, QueueShape
<1>3. CopyHonest(copy) /\ copy.row.status = "pending"
  BY <1>1, <1>2 DEF QueueHonest, QueuePending
<1>4. /\ posts' = [posts EXCEPT ![copy.log] = later]
      /\ ticks' = [ticks EXCEPT ![t] = tick]
      /\ UNCHANGED <<endpoints, logs, emits, edit, crashes>>
  BY DEF AttemptDelivery
<1>5. /\ copy.log \in DOMAIN posts /\ seen \in Posts /\ copy.row \in Log
      /\ Honest(copy.row, seen)
  BY <1>2, <1>3, RowTyped DEF Copy, CopyHonest
<1>6. /\ later \in Posts /\ later.made >= seen.made /\ (seen.accepted => later.accepted)
      /\ row \in Log /\ row.endpoint = copy.row.endpoint /\ Honest(row, later)
  BY <1>3, <1>5, OutcomeHonest
<1> HIDE DEF later, row
<1>7. /\ new \in Copy /\ new.log = copy.log /\ new.row = row
  BY <1>2, <1>6 DEF Copy
<1> HIDE DEF new, copy
<1>8. /\ tick \in Tick /\ tick.stage = "saveLog" /\ tick.queue # <<>>
      /\ tick.queue[1] = new
      /\ \A i \in DOMAIN tick.queue \ {1} :
           i \in DOMAIN queue /\ i > 1 /\ tick.queue[i] = queue[i]
  BY <1>1, <1>2, <1>7 DEF Tick
<1> HIDE DEF tick
<1>9. posts \in Seq(Posts) /\ Len(posts) = Len(logs) /\ logs \in Seq(Log \cup {Gone})
  BY DEF WebhooksInv, WebhooksTypeOK
<1>10. /\ posts' \in Seq(Posts) /\ Len(posts') = Len(posts)
       /\ posts'[copy.log] = later
       /\ \A l \in DOMAIN posts : l # copy.log => posts'[l] = posts[l]
  BY <1>4, <1>5, <1>6, <1>9
<1>11. ASSUME NEW l \in DOMAIN logs, NEW r \in Log, Honest(r, posts[l])
       PROVE  Honest(r, posts'[l])
  BY <1>6, <1>5, <1>9, <1>10, <1>11, RowTyped, HonestMonotone
<1>12. WebhooksTypeOK'
  BY <1>4, <1>8, <1>10 DEF WebhooksInv, WebhooksTypeOK
<1>13. RowsHonest' /\ RowsOwned'
  BY <1>4, <1>11, RowTyped DEF WebhooksInv, RowsHonest, RowsOwned, Exists
<1>14. ASSUME NEW c \in Copy, CopyHonest(c) PROVE CopyHonest(c)'
  BY <1>4, <1>11, <1>14 DEF CopyHonest, Copy
<1>15. \A s \in Ticks : ticks'[s] = IF s = t THEN tick ELSE ticks[s]
  BY <1>4 DEF WebhooksInv, WebhooksTypeOK
<1>16. PICK changed, first : changed = tick /\ first = new
  OBVIOUS
<1>17. CopyHonest(first)'
  BY <1>3, <1>4, <1>6, <1>7, <1>10, <1>16 DEF CopyHonest
<1>18. QueueHonest(changed)'
  BY <1>1, <1>8, <1>14, <1>16, <1>17 DEF QueueHonest
<1>19. ASSUME NEW s \in Ticks, s # t PROVE QueueHonest(ticks[s])'
  BY <1>14, <1>15, <1>19, TickTyped DEF QueueHonest
<1>20. CopiesHonest'
  BY <1>15, <1>16, <1>18, <1>19 DEF CopiesHonest
<1>21. QueuesPending'
  BY <1>1, <1>8, <1>15 DEF WebhooksInv, QueuesPending, QueuePending
<1> QED BY <1>12, <1>13, <1>20, <1>21 DEF WebhooksInv

(* Saving a stale copy keeps the rows honest, because the copy is.          *)
LEMMA SaveLogInv ==
  ASSUME WebhooksInv, NEW t \in Ticks, SaveLog(t)
  PROVE  WebhooksInv'
<1> DEFINE copy == Head(ticks[t].queue)
<1>1. /\ ticks[t] \in Tick /\ ticks[t].queue \in Seq(Copy) /\ ticks[t].queue # <<>>
      /\ QueueHonest(ticks[t]) /\ QueuePending(ticks[t]) /\ ticks[t].stage = "saveLog"
  BY TickTyped DEF SaveLog, QueuePending
<1>2. copy \in Copy /\ CopyHonest(copy)
  BY <1>1, QueueShape DEF QueueHonest
<1>3. CASE logs[copy.log] = Gone
  BY <1>3, NoTickHonest, TickOnly DEF SaveLog
<1>4. CASE logs[copy.log] # Gone
  <2> DEFINE new == [ticks[t] EXCEPT !.stage = "saveEndpoint"]
  <2>1. /\ logs' = [logs EXCEPT ![copy.log] = copy.row]
        /\ ticks' = [ticks EXCEPT ![t] = new]
        /\ UNCHANGED <<endpoints, posts, emits, edit, crashes>>
    BY <1>4 DEF SaveLog
  <2>2. new \in Tick /\ new.queue = ticks[t].queue /\ new.stage = "saveEndpoint"
    BY <1>1 DEF Tick
  <2> HIDE DEF new
  <2>3. /\ copy.log \in DOMAIN logs /\ copy.row \in Log
        /\ Honest(copy.row, posts[copy.log])
        /\ logs[copy.log].endpoint = copy.row.endpoint
    BY <1>2, <1>4 DEF CopyHonest, Copy
  <2> HIDE DEF copy
  <2>4. logs \in Seq(Log \cup {Gone})
    BY DEF WebhooksInv, WebhooksTypeOK
  <2>5. /\ logs' \in Seq(Log \cup {Gone}) /\ Len(logs') = Len(logs)
        /\ DOMAIN logs' = DOMAIN logs
        /\ logs'[copy.log] = copy.row
        /\ \A l \in DOMAIN logs : l # copy.log => logs'[l] = logs[l]
    BY <2>1, <2>3, <2>4
  <2>6. WebhooksTypeOK'
    BY <2>1, <2>2, <2>5 DEF WebhooksInv, WebhooksTypeOK
  <2>7. RowsHonest' /\ RowsOwned'
    BY <1>4, <2>1, <2>3, <2>5 DEF WebhooksInv, RowsHonest, RowsOwned, Exists
  <2>8. \A s \in Ticks : /\ ticks'[s].queue = ticks[s].queue
                         /\ s # t => ticks'[s] = ticks[s]
                         /\ s = t => ticks'[s] = new
    BY <2>1, <2>2 DEF WebhooksInv, WebhooksTypeOK
  <2>9. CopiesHonest'
    <3>1. ASSUME NEW c, CopyHonest(c) PROVE CopyHonest(c)'
      BY <1>4, <2>1, <2>3, <2>5, <3>1 DEF CopyHonest
    <3> QED BY <2>8, <3>1 DEF WebhooksInv, CopiesHonest, QueueHonest
  <2>10. QueuesPending'
    BY <1>1, <2>2, <2>8 DEF WebhooksInv, QueuesPending, QueuePending
  <2> QED BY <2>6, <2>7, <2>9, <2>10 DEF WebhooksInv
<1> QED BY <1>3, <1>4

LEMMA SaveEndpointInv ==
  ASSUME WebhooksInv, NEW t \in Ticks, SaveEndpoint(t)
  PROVE  WebhooksInv'
<1> DEFINE copy == Head(ticks[t].queue)
           e == copy.row.endpoint
           rest == [queue |-> Tail(ticks[t].queue), stage |-> "post"]
<1>1. /\ ticks[t].queue \in Seq(Copy) /\ ticks[t].queue # <<>>
  BY TickTyped DEF SaveEndpoint, QueuePending
<1>2. copy.endpoint \in Endpoint /\ e \in Endpoints
  BY <1>1, QueueShape DEF Copy, Log
<1>3. rest \in Tick /\ QueueHonest(rest) /\ QueuePending(rest)
  BY <1>1, RestOfQueue
<1>4. CASE ~CanSaveEndpoint(e)
  BY <1>4, NoTickHonest, TickOnly DEF SaveEndpoint
<1>5. CASE CanSaveEndpoint(e)
  <2>1. /\ endpoints' = [endpoints EXCEPT ![e] = copy.endpoint]
        /\ ticks' = [ticks EXCEPT ![t] = rest]
        /\ UNCHANGED <<logs, posts, emits, edit, crashes>>
    BY <1>5 DEF SaveEndpoint
  <2> HIDE DEF rest, copy, e
  <2>2. WebhooksTypeOK'
    BY <1>2, <1>3, <2>1 DEF WebhooksInv, WebhooksTypeOK
  <2>3. \A f \in Endpoints : Exists(f) => Exists(f)'
    BY <1>2, <2>1, MarksDiffer DEF WebhooksInv, WebhooksTypeOK, Exists
  <2>4. RowsHonest' /\ RowsOwned'
    BY <2>1, <2>3, RowTyped DEF WebhooksInv, RowsHonest, RowsOwned
  <2>5. \A s \in Ticks : ticks'[s] = IF s = t THEN rest ELSE ticks[s]
    BY <2>1 DEF WebhooksInv, WebhooksTypeOK
  <2>6. CopiesHonest' /\ QueuesPending'
    BY <1>3, <2>1, <2>5
    DEF WebhooksInv, CopiesHonest, QueueHonest, CopyHonest, QueuesPending, QueuePending
  <2> QED BY <2>2, <2>4, <2>6 DEF WebhooksInv
<1> QED BY <1>4, <1>5

LEMMA RipenInv ==
  ASSUME WebhooksInv, NEW l \in 1..MaxLogs, Ripen(l)
  PROVE  WebhooksInv'
<1> DEFINE new == [logs[l] EXCEPT !.ready = TRUE]
<1>1. l \in DOMAIN logs /\ logs[l] # Gone /\ logs' = [logs EXCEPT ![l] = new]
      /\ UNCHANGED <<endpoints, posts, emits, edit, ticks, crashes>>
  BY DEF Ripen, Pending
<1>2. logs[l] \in Log /\ Honest(logs[l], posts[l])
  BY <1>1, RowTyped
<1>3. /\ new \in Log /\ new.endpoint = logs[l].endpoint /\ Honest(new, posts[l])
  BY <1>2 DEF Log, Honest
<1> HIDE DEF new
<1>4. logs \in Seq(Log \cup {Gone})
  BY DEF WebhooksInv, WebhooksTypeOK
<1>5. /\ logs' \in Seq(Log \cup {Gone}) /\ Len(logs') = Len(logs)
      /\ DOMAIN logs' = DOMAIN logs
      /\ logs'[l] = new
      /\ \A k \in DOMAIN logs : k # l => logs'[k] = logs[k]
  BY <1>1, <1>3, <1>4
<1>6. WebhooksTypeOK'
  BY <1>1, <1>5 DEF WebhooksInv, WebhooksTypeOK
<1>7. RowsHonest' /\ RowsOwned'
  BY <1>1, <1>3, <1>5 DEF WebhooksInv, RowsHonest, RowsOwned, Exists
<1>8. CopiesHonest'
  <2>1. ASSUME NEW c, CopyHonest(c) PROVE CopyHonest(c)'
    BY <1>1, <1>3, <1>5, <2>1 DEF CopyHonest
  <2> QED BY <1>1, <2>1 DEF WebhooksInv, CopiesHonest, QueueHonest
<1>9. QueuesPending'
  BY <1>1 DEF WebhooksInv, QueuesPending
<1> QED BY <1>9, <1>6, <1>7, <1>8 DEF WebhooksInv

LEMMA CrashInv ==
  ASSUME WebhooksInv, Crash
  PROVE  WebhooksInv'
<1>1. MaxCrashes \in Nat
  BY WebhooksAssumption DEF WebhooksAssumption
<1>2. \A t \in Ticks : ticks'[t] = NoTick
  BY DEF Crash
<1>3. NoTick.queue = <<>> /\ NoTick.stage = "post"
  BY DEF NoTick
<1>4. WebhooksTypeOK'
  BY <1>1, NoTickHonest DEF Crash, WebhooksInv, WebhooksTypeOK
<1>5. RowsHonest' /\ RowsOwned'
  BY DEF Crash, WebhooksInv, RowsHonest, RowsOwned, Exists
<1>6. CopiesHonest' /\ QueuesPending'
  BY <1>2, <1>3 DEF CopiesHonest, QueueHonest, QueuesPending, QueuePending
<1> QED BY <1>4, <1>5, <1>6 DEF WebhooksInv

LEMMA WebhooksNextInv ==
  ASSUME WebhooksInv, [WebhooksNext]_webhookVars
  PROVE  WebhooksInv'
  BY RequestsInv, DeleteEndpointInv, CreateDeliveryLogInv, FetchInv,
     AttemptDeliveryInv, SaveLogInv, SaveEndpointInv, RipenInv, CrashInv
  DEF WebhooksNext, TickStep

-----------------------------------------------------------------------------
(* The rows on file, and the copies ticks hold of them, say what the        *)
(* receivers saw, for any number of overlapping ticks and restarts.         *)
THEOREM WebhooksInvariant == WebhooksSpec => []WebhooksInv
  BY WebhooksInitInv, WebhooksNextInv, PTL DEF WebhooksSpec

THEOREM WebhooksTypeCorrect == WebhooksSpec => []WebhooksTypeOK
<1>1. WebhooksInv => WebhooksTypeOK
  BY DEF WebhooksInv
<1> QED BY <1>1, WebhooksInvariant, PTL

(* No row is given up or taken for delivered without the posts to show for  *)
(* it: attemptDelivery and scheduleRetry against overlapping ticks.         *)
THEOREM SettledHonestlyAlways == WebhooksSpec => []SettledHonestly
<1>1. WebhooksInv => SettledHonestly
  BY DEF WebhooksInv, RowsHonest, Honest, SettledHonestly
<1> QED BY <1>1, WebhooksInvariant, PTL

(* Neither updateEndpoint, emit nor a tick brings a deleted endpoint or one *)
(* of its rows back, whatever they read before deleteEndpoint.              *)
THEOREM DeletedStaysDeletedAlways == WebhooksSpec => DeletedStaysDeleted
<1> DEFINE Kept == \A e \in Endpoints :
             endpoints[e] = Gone =>
               /\ endpoints'[e] = Gone
               /\ \A l \in DOMAIN logs' : logs'[l] # Gone => logs'[l].endpoint # e
<1>1. ASSUME WebhooksInv, WebhooksInv', [WebhooksNext]_webhookVars,
             NEW e \in Endpoints, endpoints[e] = Gone
      PROVE  endpoints'[e] = Gone
  <2>1. endpoints \in [Endpoints -> Endpoint \cup {Unused, Gone}] /\ Unused # Gone
    BY <1>1, WebhooksAssumption DEF WebhooksInv, WebhooksTypeOK, WebhooksAssumption
  <2>2. ~Exists(e) /\ ~CanSaveEndpoint(e)
    BY <1>1 DEF Exists, CanSaveEndpoint
  <2> QED BY <1>1, <2>1, <2>2
          DEF WebhooksNext, webhookVars, TickStep, CreateEndpoint, ReadForUpdate,
              UpdateEndpoint, DeleteEndpoint, Emit, CreateDeliveryLog, Fetch,
              AttemptDelivery, SaveLog, SaveEndpoint, Ripen, Crash
<1>2. ASSUME WebhooksInv, WebhooksInv', [WebhooksNext]_webhookVars
      PROVE  Kept
  BY <1>1, <1>2 DEF WebhooksInv, RowsOwned, Exists
<1>3. WebhooksInv /\ WebhooksInv' /\ [WebhooksNext]_webhookVars => [Kept]_webhookVars
  BY <1>2
<1> QED BY <1>3, WebhooksInvariant, PTL DEF WebhooksSpec, DeletedStaysDeleted
=============================================================================
