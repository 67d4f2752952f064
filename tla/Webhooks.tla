------------------------------ MODULE Webhooks ------------------------------
(***************************************************************************)
(* The backend's webhooks: the endpoints of the users, the delivery rows   *)
(* an event of the platform queues, and the ticks of the cron that deliver *)
(* them.  A tick starts every thirty seconds whether or not the last one   *)
(* has ended, and saves the whole rows it read when it started.            *)
(*                                                                         *)
(* An action is one database statement or one HTTP exchange.  Payloads,    *)
(* URLs, signatures, dates and failure counts are left out: no step reads  *)
(* them to decide anything.                                                *)
(***************************************************************************)
EXTENDS Integers, SequencesExt

CONSTANTS
  Endpoints,    \* ids of endpoints; an id is used once
  EventTypes,   \* the names given to emit
  Ticks,        \* bound: ticks of the cron that overlap
  Emitters,     \* bound: requests inside emit at the same time
  Subscriptions, \* bound: event types given to POST
  Edits,        \* bound: states PATCH gives an endpoint
  MaxAttempts,  \* WEBHOOK_MAX_ATTEMPTS
  BatchSize,    \* WEBHOOK_BATCH_SIZE
  MaxLogs,      \* bound: delivery rows ever queued
  MaxCrashes,   \* bound: restarts of the backend
  Unused,       \* an endpoint id not created yet
  Gone          \* a deleted row

ASSUME WebhooksAssumption ==
  /\ MaxAttempts \in Nat \ {0}
  /\ BatchSize \in Nat \ {0}
  /\ {MaxLogs, MaxCrashes} \subseteq Nat
  /\ Subscriptions \subseteq SUBSET EventTypes
  /\ Edits \subseteq [active : BOOLEAN, types : SUBSET EventTypes]
  /\ Unused # Gone
  /\ {Unused, Gone} \cap
       [active : BOOLEAN, types : SUBSET EventTypes] = {}
  /\ Gone \notin [endpoint : Endpoints, status : {"pending", "success", "failed"},
                  attempts : 0..MaxAttempts, ready : BOOLEAN]

VARIABLES
  endpoints,  \* webhook_endpoints
  logs,       \* webhook_delivery_logs, by id
  posts,      \* what the receivers saw: posts of a row, whether one was accepted
  emits,      \* endpoints a running emit has still to queue a row for
  edit,       \* the endpoint a PATCH request has read and not saved yet, or Gone
  ticks,      \* the rows a running tick read and has not finished
  crashes     \* restarts so far

webhookVars == <<endpoints, logs, posts, emits, edit, ticks, crashes>>

Endpoint == [active : BOOLEAN, types : SUBSET EventTypes]

(* ready: next_retry_at is null or has passed. *)
Log ==
  [endpoint : Endpoints, status : {"pending", "success", "failed"},
   attempts : 0..MaxAttempts, ready : BOOLEAN]

Posts == [made : Nat, accepted : BOOLEAN]

Copy == [log : 1..MaxLogs, row : Log, endpoint : Endpoint]

Tick == [queue : Seq(Copy), stage : {"post", "saveLog", "saveEndpoint"}]

NoTick == [queue |-> <<>>, stage |-> "post"]

WebhooksTypeOK ==
  /\ endpoints \in [Endpoints -> Endpoint \cup {Unused, Gone}]
  /\ logs \in Seq(Log \cup {Gone})
  /\ Len(logs) <= MaxLogs
  /\ posts \in Seq(Posts)
  /\ Len(posts) = Len(logs)
  /\ emits \in [Emitters -> SUBSET Endpoints]
  /\ edit \in Endpoints \cup {Gone}
  /\ ticks \in [Ticks -> Tick]
  /\ crashes \in 0..MaxCrashes

WebhooksInit ==
  /\ endpoints = [e \in Endpoints |-> Unused]
  /\ logs = <<>>
  /\ posts = <<>>
  /\ emits = [m \in Emitters |-> {}]
  /\ edit = Gone
  /\ ticks = [t \in Ticks |-> NoTick]
  /\ crashes = 0

Exists(e) == endpoints[e] \notin {Unused, Gone}

-----------------------------------------------------------------------------
(* The owner's requests. *)

CreateEndpoint(e, types) ==
  /\ endpoints[e] = Unused
  /\ endpoints' = [endpoints EXCEPT ![e] = [active |-> TRUE, types |-> types]]
  /\ UNCHANGED <<logs, posts, emits, edit, ticks, crashes>>

ReadForUpdate(e) ==
  /\ Exists(e)
  /\ edit = Gone
  /\ edit' = e
  /\ UNCHANGED <<endpoints, logs, posts, emits, ticks, crashes>>

(* Fault: saving a deleted endpoint inserts it anew. *)
CanSaveEndpoint_Upsert(e) == endpoints[e] # Unused

(* Saving an endpoint that is gone is an INSERT without its userId, which   *)
(* the column refuses.                                                      *)
CanSaveEndpoint(e) == Exists(e)

(* row: the row as it was read, with the fields of the request over it. *)
UpdateEndpoint(row) ==
  /\ edit # Gone
  /\ endpoints' = IF CanSaveEndpoint(edit) THEN [endpoints EXCEPT ![edit] = row]
                                           ELSE endpoints
  /\ edit' = Gone
  /\ UNCHANGED <<logs, posts, emits, ticks, crashes>>

(* The foreign key of the delivery rows is ON DELETE CASCADE. *)
DeleteEndpoint(e) ==
  /\ Exists(e)
  /\ endpoints' = [endpoints EXCEPT ![e] = Gone]
  /\ logs' = [l \in DOMAIN logs |->
                IF logs[l] # Gone /\ logs[l].endpoint = e THEN Gone ELSE logs[l]]
  /\ UNCHANGED <<posts, emits, edit, ticks, crashes>>

-----------------------------------------------------------------------------
(* emit reads the endpoints once, then queues one row after another. *)

Targets(type) == {e \in Endpoints :
                    Exists(e) /\ endpoints[e].active /\ type \in endpoints[e].types}

Emit(m, type) ==
  /\ emits[m] = {}
  /\ Targets(type) # {}
  /\ emits' = [emits EXCEPT ![m] = Targets(type)]
  /\ UNCHANGED <<endpoints, logs, posts, edit, ticks, crashes>>

(* The row of an endpoint deleted meanwhile breaks the foreign key, and the *)
(* error ends emit.                                                         *)
CreateDeliveryLog(m) ==
  \E e \in emits[m] :
    /\ Len(logs) < MaxLogs
    /\ IF Exists(e)
       THEN /\ emits' = [emits EXCEPT ![m] = @ \ {e}]
            /\ logs' = Append(logs, [endpoint |-> e, status |-> "pending",
                                     attempts |-> 0, ready |-> TRUE])
            /\ posts' = Append(posts, [made |-> 0, accepted |-> FALSE])
       ELSE /\ emits' = [emits EXCEPT ![m] = {}]
            /\ UNCHANGED <<logs, posts>>
    /\ UNCHANGED <<endpoints, edit, ticks, crashes>>

-----------------------------------------------------------------------------
(* A tick of the cron. *)

Pending == {l \in DOMAIN logs : logs[l] # Gone /\ logs[l].status = "pending"}

CopyOf(l) ==
  [log |-> l, row |-> logs[l], endpoint |-> endpoints[logs[l].endpoint]]

(* The batch is any BatchSize of the pending rows: the query has no order,  *)
(* and the rows that are not ready are dropped after it.                    *)
(* A tick that is left with none ends here, a stuttering step.              *)
Fetch(t) ==
  /\ ticks[t] = NoTick
  /\ \E batch \in SUBSET Pending :
       /\ Cardinality(batch) =
            IF Cardinality(Pending) <= BatchSize THEN Cardinality(Pending) ELSE BatchSize
       /\ \E ready \in SetToSeqs({l \in batch : logs[l].ready}) :
            ticks' = [ticks EXCEPT ![t].queue =
                        [i \in DOMAIN ready |-> CopyOf(ready[i])]]
  /\ UNCHANGED <<endpoints, logs, posts, emits, edit, crashes>>

(* Fault: gives up one attempt early. *)
ScheduleRetry_OffByOne(row, attempt) ==
  IF attempt + 1 >= MaxAttempts
  THEN [row EXCEPT !.status = "failed", !.ready = TRUE]
  ELSE [row EXCEPT !.ready = FALSE]

ScheduleRetry(row, attempt) ==
  IF attempt >= MaxAttempts
  THEN [row EXCEPT !.status = "failed", !.ready = TRUE]
  ELSE [row EXCEPT !.ready = FALSE]

(* Fault: an attempt that fails is not counted. *)
Outcome_KeepsCount(row, accepted) ==
  IF accepted THEN [row EXCEPT !.status = "success", !.attempts = @ + 1]
              ELSE ScheduleRetry(row, row.attempts + 1)

Outcome(row, accepted) ==
  LET attempt == row.attempts + 1
      graded == IF accepted THEN [row EXCEPT !.status = "success"]
                            ELSE ScheduleRetry(row, attempt)
  IN  [graded EXCEPT !.attempts = attempt]

(* The POST: a 2xx answer, or any other answer, an error or a timeout.      *)
(* The count of posts stops at MaxAttempts.                                 *)
AttemptDelivery(t, accepted) ==
  /\ ticks[t] # NoTick
  /\ ticks[t].stage = "post"
  /\ LET copy == Head(ticks[t].queue)
     IN  /\ posts' = [posts EXCEPT ![copy.log] =
                        [made |-> IF @.made < MaxAttempts THEN @.made + 1 ELSE @.made,
                         accepted |-> @.accepted \/ accepted]]
         /\ ticks' = [ticks EXCEPT ![t] =
                        [queue |-> <<[copy EXCEPT !.row = Outcome(copy.row, accepted)]>>
                                     \o Tail(@.queue),
                         stage |-> "saveLog"]]
  /\ UNCHANGED <<endpoints, logs, emits, edit, crashes>>

(* The row as this tick read it, with the outcome, over whatever is there   *)
(* now.  A row deleted meanwhile would be inserted without its endpoint:    *)
(* the error ends the tick.                                                 *)
SaveLog(t) ==
  /\ ticks[t].stage = "saveLog"
  /\ LET copy == Head(ticks[t].queue)
     IN  IF logs[copy.log] # Gone
         THEN /\ logs' = [logs EXCEPT ![copy.log] = copy.row]
              /\ ticks' = [ticks EXCEPT ![t].stage = "saveEndpoint"]
         ELSE /\ ticks' = [ticks EXCEPT ![t] = NoTick]
              /\ UNCHANGED logs
  /\ UNCHANGED <<endpoints, posts, emits, edit, crashes>>

SaveEndpoint(t) ==
  /\ ticks[t].stage = "saveEndpoint"
  /\ LET copy == Head(ticks[t].queue)
         e == copy.row.endpoint
     IN  IF CanSaveEndpoint(e)
         THEN /\ endpoints' = [endpoints EXCEPT ![e] = copy.endpoint]
              /\ ticks' = [ticks EXCEPT ![t] =
                             [queue |-> Tail(@.queue), stage |-> "post"]]
         ELSE /\ ticks' = [ticks EXCEPT ![t] = NoTick]
              /\ UNCHANGED endpoints
  /\ UNCHANGED <<logs, posts, emits, edit, crashes>>

(* The backoff of a row ends. *)
Ripen(l) ==
  /\ l \in Pending
  /\ ~logs[l].ready
  /\ logs' = [logs EXCEPT ![l].ready = TRUE]
  /\ UNCHANGED <<endpoints, posts, emits, edit, ticks, crashes>>

(* The process stops: what it had in memory is lost. *)
Crash ==
  /\ crashes < MaxCrashes
  /\ crashes' = crashes + 1
  /\ emits' = [m \in Emitters |-> {}]
  /\ edit' = Gone
  /\ ticks' = [t \in Ticks |-> NoTick]
  /\ UNCHANGED <<endpoints, logs, posts>>

TickStep(t) ==
  \/ \E accepted \in BOOLEAN : AttemptDelivery(t, accepted)
  \/ SaveLog(t)
  \/ SaveEndpoint(t)

WebhooksNext ==
  \/ \E e \in Endpoints :
       \/ \E types \in Subscriptions : CreateEndpoint(e, types)
       \/ ReadForUpdate(e)
       \/ DeleteEndpoint(e)
  \/ \E row \in Edits : UpdateEndpoint(row)
  \/ \E m \in Emitters : \/ \E type \in EventTypes : Emit(m, type)
                         \/ CreateDeliveryLog(m)
  \/ \E t \in Ticks : Fetch(t) \/ TickStep(t)
  \/ \E l \in 1..MaxLogs : Ripen(l)
  \/ Crash

(* The cron keeps starting ticks, a tick goes on to its next step (a POST   *)
(* times out after WEBHOOK_TIMEOUT_MS), and time passes.                    *)
WebhooksFairness ==
  /\ \A t \in Ticks : WF_webhookVars(Fetch(t)) /\ WF_webhookVars(TickStep(t))
  /\ \A l \in 1..MaxLogs : WF_webhookVars(Ripen(l))

WebhooksSpec ==
  WebhooksInit /\ [][WebhooksNext]_webhookVars /\ WebhooksFairness

-----------------------------------------------------------------------------
(* A row is given up only after MaxAttempts posts were really made, and     *)
(* counts as delivered only if the receiver accepted one, however the       *)
(* ticks that work on the same row overwrite each other's saves.            *)
SettledHonestly ==
  \A l \in DOMAIN logs :
    logs[l] # Gone =>
      /\ logs[l].status = "failed" => posts[l].made >= MaxAttempts
      /\ logs[l].status = "success" => posts[l].accepted
      /\ logs[l].attempts <= posts[l].made

(* Deleting an endpoint is final: neither the save of a tick or an update   *)
(* that read it before, nor an emit, brings it or a row of it back.         *)
DeletedStaysDeleted ==
  [][\A e \in Endpoints :
       endpoints[e] = Gone =>
         /\ endpoints'[e] = Gone
         /\ \A l \in DOMAIN logs' : logs'[l] # Gone => logs'[l].endpoint # e]_webhookVars

(* Every queued delivery comes to an end and stays there: delivered, given  *)
(* up, or deleted with its endpoint.  Stale saves can set a row back, even  *)
(* from delivered to pending, but not for ever.                             *)
DeliveriesEnd ==
  \A l \in 1..MaxLogs : <>[](l \notin Pending)
=============================================================================
