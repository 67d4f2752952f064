---------------------------- MODULE Submissions ----------------------------
(***************************************************************************)
(* How one market and the predictions on it reach the database of the      *)
(* backend: the POST request, behind an idempotency key, that calls the    *)
(* chain and then stores the prediction; the listener that reads the       *)
(* events of the chain every thirty seconds, and passes over those it      *)
(* cannot read or place; and the operators' requests, which save the whole *)
(* market row they read.                                                   *)
(*                                                                         *)
(* An action is one database statement, transaction or RPC call.  Stakes   *)
(* and the pool total, which is updated wherever participants is, are left *)
(* out.                                                                    *)
(***************************************************************************)
EXTENDS Integers, SequencesExt

CONSTANTS
  Users,         \* accounts of the chain
  Keys,          \* values of the Idempotency-Key header
  Bodies,        \* bodies of a request: the outcome predicted
  Options,       \* outcome_options of the market
  MaxRequests,   \* bound: POST requests, numbered as they come in
  Calls,         \* bound: what the requests ask
  ChainEvents,   \* bound: events the contract emits, each at most once
  PageSize,      \* the limit getEvents gives the RPC node
  Operations,    \* bound: what the operators do to the market
  Starts,        \* what there may be when the listener first runs, and a bound
                 \* on incidents: operators' requests, restarts, new accounts
  None           \* no row

AllOperations == {"resolve", "adminResolve", "cancel", "pause", "resume", "update"}

Requests == 1..MaxRequests

Call == [user : Users, key : Keys, body : Bodies]

(* lacks: what the listener misses in the event as the RPC node renders it: *)
(* a ledger or a value, the id of the market, or the predictor.             *)
Lacks == {"nothing", "value", "market", "predictor"}

ChainEvent ==
  [kind : {"predicted"}, user : Users, outcome : Bodies, lacks : Lacks]
    \cup [kind : {"created", "resolved"}, lacks : Lacks]

ASSUME SubmissionsAssumption ==
  /\ IsFiniteSet(Users)
  /\ Calls \subseteq Call
  /\ ChainEvents \subseteq ChainEvent
  /\ Operations \subseteq AllOperations
  /\ PageSize \in Nat \ {0}
  /\ MaxRequests \in Nat
  /\ \A start \in Starts : /\ start.accounts \subseteq Users
                            /\ start.listed \in BOOLEAN
                            /\ start.chain \in Seq(ChainEvents)
                            /\ start.incidents \in Nat
  /\ None \notin Bodies \cup Requests \cup Call \cup {"created", "replayed", "refused"}
  /\ None \notin [id : Requests, body : Bodies, inProgress : BOOLEAN]

VARIABLES
  accounts,     \* users with a row in users
  listed,       \* whether the market has a row
  market,       \* that row
  predictions,  \* the prediction of each user on file, or None
  keys,         \* idempotency_keys, by user and key
  requests,     \* the POST requests
  writes,       \* completions and releases of keys nobody waits for
  operation,    \* the operator's request: its market row, once read
  chain,        \* the contract's events, one per ledger
  cursor,       \* soroban:last_processed_ledger
  poll,         \* the listener
  incidents     \* incidents still to come

requestVars == <<keys, requests, writes>>
listenerVars == <<cursor, poll>>
knownVars == <<accounts, listed>>
submissionVars ==
  <<accounts, listed, market, predictions, keys, requests, writes, operation,
    chain, cursor, poll, incidents>>

Market ==
  [resolved : BOOLEAN, cancelled : BOOLEAN, paused : BOOLEAN, participants : Nat]

(* id is the request that inserted the row. *)
KeyRow == [id : Requests, body : Bodies, inProgress : BOOLEAN]

(* pc names the next step of a request; committed remembers that its        *)
(* transaction went through.                                                *)
Request ==
  [pc : {"new", "lookup", "market", "check", "send", "commit", "created",
         "rejected", "done"},
   call : Call \cup {None}, committed : BOOLEAN,
   answer : {None, "created", "replayed", "refused"}]

Write == [kind : {"complete", "release"}, id : Requests]

NoOperation == [op |-> None, row |-> None]

(* batch: the events not processed yet; row: the market row the handler of  *)
(* the first of them has read.                                              *)
Idle == [stage |-> "idle", batch |-> <<>>, latest |-> 0, row |-> None]

RowsTyped ==
  /\ market \in Market
  /\ predictions \in [Users -> Bodies \cup {None}]
  /\ keys \in [Users \X Keys -> KeyRow \cup {None}]
  /\ requests \in [Requests -> Request]
  /\ writes \subseteq Write
  /\ operation = NoOperation \/ operation \in [op : Operations, row : Market]
  /\ chain \in Seq(ChainEvents)
  /\ cursor \in 0..Len(chain)
  /\ poll \in [stage : {"idle", "market", "check", "insert", "count", "resolve",
                        "create"},
               batch : Seq(ChainEvents), latest : 0..Len(chain),
               row : Market \cup {None}]
  /\ incidents \in Nat

SubmissionsTypeOK ==
  /\ accounts \subseteq Users
  /\ listed \in BOOLEAN
  /\ RowsTyped

SubmissionsInit ==
  /\ \E start \in Starts :
       /\ accounts = start.accounts
       /\ listed = start.listed
       /\ chain = start.chain
       /\ incidents = start.incidents
  /\ market = [resolved |-> FALSE, cancelled |-> FALSE, paused |-> FALSE,
               participants |-> 0]
  /\ predictions = [u \in Users |-> None]
  /\ keys = [k \in Users \X Keys |-> None]
  /\ requests = [r \in Requests |-> [pc |-> "new", call |-> None,
                                     committed |-> FALSE, answer |-> None]]
  /\ writes = {}
  /\ operation = NoOperation
  /\ cursor = 0
  /\ poll = Idle

Incident ==
  /\ incidents > 0
  /\ incidents' = incidents - 1

-----------------------------------------------------------------------------
(* A POST request.  The interceptor claims the key first. *)

KeyOf(r) == <<requests[r].call.user, requests[r].call.key>>

Goto(r, pc) == requests' = [requests EXCEPT ![r].pc = pc]

Answer(r, answer) ==
  requests' = [requests EXCEPT ![r].pc = "done", ![r].answer = answer]

(* Fault: no unique index on user and key. *)
KeyFree_NoIndex(k) == TRUE

KeyFree(k) == keys[k] = None

Acquire(r, call) ==
  /\ call.user \in accounts
  /\ requests[r].pc = "new"
  /\ r > 1 => requests[r - 1].pc # "new"
  /\ LET k == <<call.user, call.key>>
     IN  IF KeyFree(k)
         THEN /\ keys' = [keys EXCEPT ![k] = [id |-> r, body |-> call.body,
                                              inProgress |-> TRUE]]
              /\ requests' = [requests EXCEPT ![r].pc = "market", ![r].call = call]
         ELSE /\ requests' = [requests EXCEPT ![r].pc = "lookup", ![r].call = call]
              /\ UNCHANGED keys
  /\ UNCHANGED <<knownVars, market, predictions, writes, operation, chain,
                 listenerVars, incidents>>

(* Fault: the hash of the request is not compared. *)
Replayable_AnyBody(row, body) == row # None /\ ~row.inProgress

(* 500 when the row is gone again, 422 for another body, 409 in progress.   *)
Replayable(row, body) == row # None /\ row.body = body /\ ~row.inProgress

Lookup(r) ==
  /\ requests[r].pc = "lookup"
  /\ Answer(r, IF Replayable(keys[KeyOf(r)], requests[r].call.body)
               THEN "replayed" ELSE "refused")
  /\ UNCHANGED <<knownVars, market, predictions, keys, writes, operation,
                 chain, listenerVars, incidents>>

(* PredictionsService.submit. *)
Accepting(row, over) == ~row.resolved /\ ~row.cancelled /\ ~row.paused /\ ~over

(* over: whether end_time has passed.  A market without a row is a 404.     *)
ReadMarket(r, over) ==
  /\ requests[r].pc = "market"
  /\ Goto(r, IF listed /\ Accepting(market, over) /\ requests[r].call.body \in Options
             THEN "check" ELSE "rejected")
  /\ UNCHANGED <<knownVars, market, predictions, keys, writes, operation,
                 chain, listenerVars, incidents>>

CheckExisting(r) ==
  /\ requests[r].pc = "check"
  /\ Goto(r, IF predictions[requests[r].call.user] = None THEN "send" ELSE "rejected")
  /\ UNCHANGED <<knownVars, market, predictions, keys, writes, operation,
                 chain, listenerVars, incidents>>

(* The call to the chain.  The service only makes up a transaction hash     *)
(* for now, and throws if an address or key is malformed.                   *)
SendToChain(r, ok) ==
  /\ requests[r].pc = "send"
  /\ Goto(r, IF ok THEN "commit" ELSE "rejected")
  /\ UNCHANGED <<knownVars, market, predictions, keys, writes, operation,
                 chain, listenerVars, incidents>>

(* Fault: the counter is updated outside the transaction. *)
Committed_NotAtomic(u) == market.participants + 1

(* The counter after the transaction of user u: it rolls back when the      *)
(* unique pair of user and market refuses the prediction.                   *)
Committed(u) ==
  IF predictions[u] = None THEN market.participants + 1 ELSE market.participants

CommitPrediction(r, ok) ==
  /\ requests[r].pc = "commit"
  /\ LET u == requests[r].call.user
         stored == ok /\ predictions[u] = None
     IN  /\ predictions' =
              IF stored THEN [predictions EXCEPT ![u] = requests[r].call.body]
                        ELSE predictions
         /\ market' = IF ok THEN [market EXCEPT !.participants = Committed(u)]
                            ELSE market
         /\ requests' = [requests EXCEPT ![r].committed = stored,
                           ![r].pc = IF stored THEN "created" ELSE "rejected"]
  /\ UNCHANGED <<knownVars, keys, writes, operation, chain, listenerVars,
                 incidents>>

(* The response goes out; the key is completed or released without waiting. *)
Respond(r) ==
  /\ requests[r].pc \in {"created", "rejected"}
  /\ LET created == requests[r].pc = "created"
     IN  /\ Answer(r, IF created THEN "created" ELSE "refused")
         /\ writes' = writes \cup
              {[kind |-> IF created THEN "complete" ELSE "release", id |-> r]}
  /\ UNCHANGED <<knownVars, market, predictions, keys, operation, chain,
                 listenerVars, incidents>>

(* Both writes go by the row's id, and do nothing when it is gone. *)
CompleteOrRelease(w) ==
  /\ w \in writes
  /\ keys' = [k \in DOMAIN keys |->
                IF keys[k] # None /\ keys[k].id = w.id
                THEN IF w.kind = "complete" THEN [keys[k] EXCEPT !.inProgress = FALSE]
                                            ELSE None
                ELSE keys[k]]
  /\ writes' = writes \ {w}
  /\ UNCHANGED <<knownVars, market, predictions, requests, operation, chain,
                 listenerVars, incidents>>

(* Fault: the clean-up keeps the keys of unfinished requests. *)
Expirable_CompletedOnly(row) == row # None /\ ~row.inProgress

(* A row a day old.  The request that inserted it has long ended, and so    *)
(* have the writes it started.                                              *)
Expirable(row) ==
  /\ row # None
  /\ requests[row.id].pc = "done"
  /\ \A w \in writes : w.id # row.id

CleanupExpiredKeys(k) ==
  /\ Expirable(keys[k])
  /\ keys' = [keys EXCEPT ![k] = None]
  /\ UNCHANGED <<knownVars, market, predictions, requests, writes, operation,
                 chain, listenerVars, incidents>>

-----------------------------------------------------------------------------
(* The operators: read the row, check it, call the chain, save the row.     *)

Allowed(op, row, over) ==
  CASE op = "resolve" -> ~row.resolved
    [] op = "adminResolve" -> ~row.resolved /\ ~row.cancelled
    [] op = "cancel" -> ~row.resolved /\ ~row.cancelled /\ ~over
    [] op = "pause" -> ~row.resolved /\ ~row.cancelled /\ ~row.paused
    [] op = "resume" -> ~row.resolved /\ ~row.cancelled /\ row.paused /\ ~over
    [] op = "update" -> ~over

Effect(op, row) ==
  CASE op \in {"resolve", "adminResolve"} -> [row EXCEPT !.resolved = TRUE]
    [] op = "cancel" -> [row EXCEPT !.cancelled = TRUE]
    [] op \in {"pause", "resume"} -> [row EXCEPT !.paused = op = "pause"]
    [] op = "update" -> row

StartOperation(op, over) ==
  /\ operation = NoOperation
  /\ listed
  /\ Allowed(op, market, over)
  /\ operation' = [op |-> op, row |-> market]
  /\ Incident
  /\ UNCHANGED <<knownVars, market, predictions, requestVars, chain,
                 listenerVars>>

(* ok: the chain did what it was asked. *)
EndOperation(ok) ==
  /\ operation # NoOperation
  /\ market' = IF ok THEN Effect(operation.op, operation.row) ELSE market
  /\ operation' = NoOperation
  /\ UNCHANGED <<knownVars, predictions, requestVars, chain, listenerVars,
                 incidents>>

-----------------------------------------------------------------------------
(* AuthService.verifyChallenge, for an address that is new. *)
SignUp(u) ==
  /\ u \notin accounts
  /\ Incident
  /\ accounts' = accounts \cup {u}
  /\ UNCHANGED <<listed, market, predictions, requestVars, operation, chain,
                 listenerVars>>

(* The end of createMarket: the row is saved once the chain has the market. *)
SaveMarket ==
  /\ chain # <<>>
  /\ ~listed
  /\ listed' = TRUE
  /\ UNCHANGED <<accounts, market, predictions, requestVars, operation,
                 chain, listenerVars, incidents>>

(* The chain, as wallets use it: the market comes first, and the contract   *)
(* refuses a second prediction.                                             *)
EmitEvent(e) ==
  /\ chain = <<>> <=> e.kind = "created"
  /\ e \notin Range(chain)
  /\ e.kind = "predicted" =>
       \A i \in DOMAIN chain : chain[i].kind = "predicted" => chain[i].user # e.user
  /\ chain' = Append(chain, e)
  /\ UNCHANGED <<knownVars, market, predictions, requestVars, operation,
                 listenerVars, incidents>>

-----------------------------------------------------------------------------
(* The listener. *)

(* Fault: the cursor is moved before the events are processed. *)
CursorOnFetch_Early(latest) == latest

(* The cursor while a batch is being processed: what it was.  An exception  *)
(* ends the poll and leaves it, and the batch is fetched again.             *)
CursorOnFetch(latest) == cursor

(* A poll that the RPC node does not answer changes nothing. *)
FetchEvents ==
  /\ poll = Idle
  /\ cursor < Len(chain)
  /\ LET last == IF cursor + PageSize <= Len(chain) THEN cursor + PageSize
                                                    ELSE Len(chain)
     IN  poll' = [stage |-> "market", batch |-> SubSeq(chain, cursor + 1, last),
                  latest |-> Len(chain), row |-> None]
  /\ cursor' = CursorOnFetch(Len(chain))
  /\ UNCHANGED <<knownVars, market, predictions, requestVars, operation,
                 chain, incidents>>

NextEvent == [poll EXCEPT !.stage = "market", !.batch = Tail(@), !.row = None]

(* The look-up of the market's row: none is needed for a market that is new *)
(* and one is for the rest.  An event without a value never got into the    *)
(* batch, and one whose market is missing, or not named, is passed over.    *)
FindMarket ==
  /\ poll.stage = "market"
  /\ poll.batch # <<>>
  /\ LET e == Head(poll.batch)
         named == e.lacks \notin {"value", "market"}
         stage == CASE e.kind = "created" -> "create"
                    [] e.kind = "resolved" -> "resolve"
                    [] e.kind = "predicted" -> "check"
     IN  poll' = IF named /\ (listed <=> e.kind # "created")
                 THEN [poll EXCEPT !.row = market, !.stage = stage]
                 ELSE NextEvent
  /\ UNCHANGED <<knownVars, market, predictions, requestVars, operation,
                 chain, cursor, incidents>>

(* createMarket may have saved the row since: the unique on_chain_market_id *)
(* refuses another, and the exception ends the poll.                        *)
HandleMarketCreated ==
  /\ poll.stage = "create"
  /\ listed' = TRUE
  /\ poll' = IF listed THEN Idle ELSE NextEvent
  /\ UNCHANGED <<accounts, market, predictions, requestVars, operation,
                 chain, cursor, incidents>>

HandleMarketResolved ==
  /\ poll.stage = "resolve"
  /\ market' = [poll.row EXCEPT !.resolved = TRUE]
  /\ poll' = NextEvent
  /\ UNCHANGED <<knownVars, predictions, requestVars, operation, chain,
                 cursor, incidents>>

(* A predictor the event does not name, or who has no account, is passed    *)
(* over as well.                                                            *)
FindPrediction ==
  /\ poll.stage = "check"
  /\ LET e == Head(poll.batch)
     IN  poll' = IF /\ e.lacks # "predictor"
                    /\ e.user \in accounts
                    /\ predictions[e.user] = None
                 THEN [poll EXCEPT !.stage = "insert"] ELSE NextEvent
  /\ UNCHANGED <<knownVars, market, predictions, requestVars, operation,
                 chain, cursor, incidents>>

(* A request may have stored the user's prediction since: the unique pair   *)
(* refuses the row, and the exception ends the poll.                        *)
InsertPrediction ==
  /\ poll.stage = "insert"
  /\ LET e == Head(poll.batch)
     IN  IF predictions[e.user] = None
         THEN /\ predictions' = [predictions EXCEPT ![e.user] = e.outcome]
              /\ poll' = [poll EXCEPT !.stage = "count"]
         ELSE /\ poll' = Idle
              /\ UNCHANGED predictions
  /\ UNCHANGED <<knownVars, market, requestVars, operation, chain, cursor,
                 incidents>>

CountPrediction ==
  /\ poll.stage = "count"
  /\ market' = [poll.row EXCEPT !.participants = @ + 1]
  /\ poll' = NextEvent
  /\ UNCHANGED <<knownVars, predictions, requestVars, operation, chain,
                 cursor, incidents>>

PersistLastProcessedLedger ==
  /\ poll.stage = "market"
  /\ poll.batch = <<>>
  /\ cursor' = poll.latest
  /\ poll' = Idle
  /\ UNCHANGED <<knownVars, market, predictions, requestVars, operation,
                 chain, incidents>>

(* The process stops: requests and the poll are cut off where they are.     *)
Crash ==
  /\ Incident
  /\ requests' = [r \in Requests |->
                    IF requests[r].pc = "new" THEN requests[r]
                    ELSE [requests[r] EXCEPT !.pc = "done"]]
  /\ writes' = {}
  /\ operation' = NoOperation
  /\ poll' = Idle
  /\ UNCHANGED <<knownVars, market, predictions, keys, chain, cursor>>

RequestStep(r) ==
  \/ Lookup(r)
  \/ \E over \in BOOLEAN : ReadMarket(r, over)
  \/ CheckExisting(r)
  \/ \E ok \in BOOLEAN : SendToChain(r, ok) \/ CommitPrediction(r, ok)
  \/ Respond(r)

ListenerStep ==
  \/ FetchEvents
  \/ FindMarket
  \/ HandleMarketCreated
  \/ HandleMarketResolved
  \/ FindPrediction
  \/ InsertPrediction
  \/ CountPrediction
  \/ PersistLastProcessedLedger

(* The process does not rest while something is left to do: a request in   *)
(* it, a write a request left behind, the poll, which the cron starts again *)
(* and the RPC node answers in the end, the hourly clean-up.                *)
SystemStep ==
  \/ \E r \in Requests : RequestStep(r)
  \/ \E w \in writes : CompleteOrRelease(w)
  \/ \E k \in Users \X Keys : CleanupExpiredKeys(k)
  \/ ListenerStep

SubmissionsNext ==
  \/ \E r \in Requests, call \in Calls : Acquire(r, call)
  \/ \E op \in Operations, over \in BOOLEAN : StartOperation(op, over)
  \/ \E ok \in BOOLEAN : EndOperation(ok)
  \/ \E u \in Users : SignUp(u)
  \/ SaveMarket
  \/ \E e \in ChainEvents : EmitEvent(e)
  \/ SystemStep
  \/ Crash

SubmissionsSpec ==
  SubmissionsInit /\ [][SubmissionsNext]_submissionVars
    /\ WF_submissionVars(SystemStep)

-----------------------------------------------------------------------------
(* Once a request has stored its prediction, the chain is never called      *)
(* again for the same user and key: not by a retry at the same time, nor    *)
(* after a crash that left the key in progress, nor when the key has        *)
(* expired.                                                                 *)
NeverStakedAgain ==
  [][\A r, q \in Requests :
       requests[r].pc = "send" /\ requests'[r].pc = "commit" =>
         ~(requests[q].committed /\ KeyOf(q) = KeyOf(r))]_submissionVars

(* A response that is replayed is that of a request with the same user, key *)
(* and body which did store the prediction now on file.                     *)
ReplaysAreTrue ==
  \A r \in Requests :
    requests[r].answer = "replayed" =>
      /\ \E q \in Requests : requests[q].committed /\ requests[q].call = requests[r].call
      /\ predictions[requests[r].call.user] = requests[r].call.body

(* The market never counts more participants than it has predictions,       *)
(* although the listener and the operators save counts they read earlier    *)
(* and may be cut off between two saves.                                    *)
CountedArePredicted ==
  market.participants <= Cardinality({u \in Users : predictions[u] # None})

(* No key stays in progress for ever, not even that of a request that was   *)
(* cut off by a restart.                                                    *)
KeysDrain ==
  \A k \in Users \X Keys :
    (keys[k] # None /\ keys[k].inProgress) ~> (keys[k] = None \/ ~keys[k].inProgress)

(* The page the next poll reads holds a prediction of u that can be read.   *)
Due(u) ==
  \E i \in cursor + 1..cursor + PageSize :
    /\ i \in DOMAIN chain
    /\ chain[i].kind = "predicted"
    /\ chain[i].user = u
    /\ chain[i].lacks = "nothing"

MarketComes == listed \/ (cursor = 0 /\ chain # <<>> /\ chain[1].lacks = "nothing")

(* A prediction made on the chain comes to be on file if, between two       *)
(* polls, it is among the next PageSize events, is readable, its user has   *)
(* an account and its market has a row or a readable creation still to be   *)
(* processed - whatever requests, operators, restarts and later events      *)
(* come between.  Every other prediction may be passed over for good.       *)
StakesReachTheBase ==
  \A u \in Users :
    (poll = Idle /\ u \in accounts /\ MarketComes /\ Due(u)) ~> predictions[u] # None
=============================================================================
