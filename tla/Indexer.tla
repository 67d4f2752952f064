------------------------------ MODULE Indexer ------------------------------
(***************************************************************************)
(* The backend's mirror of one creator event: the indexer that polls the   *)
(* contract's events and handles them, the admin's retry of failed ones,   *)
(* the reconciler that fills gaps, and the cron that finalizes events on   *)
(* the chain.  They share the tables, and save whole rows they read some   *)
(* statements earlier.                                                     *)
(*                                                                         *)
(* The chain has one contract event per ledger.  An action is an RPC call  *)
(* or a statement that writes, with the reads just before it; only the     *)
(* rows kept across other statements are kept here.  Names, dates, pools,  *)
(* participant counts, notifications and broadcasts are left out: no step  *)
(* decides by them, except that a notification may throw (Throw).          *)
(***************************************************************************)
EXTENDS Integers, SequencesExt

CONSTANTS
  Matches,       \* matches of the event
  Users,         \* its participants
  Retriers,      \* requests for a retry of failed events, any number at a time
  Ticks,         \* runs of the finalizer, which may overlap
  PageSize,      \* BATCH_SIZE and BACKFILL_BATCH_SIZE
  Window,        \* the reconciler's window
  MaxRetries,    \* MAX_RETRIES and DLQ_THRESHOLD
  Int8Max,       \* largest value of a bigint column
  Starts,        \* what the chain may hold when the backend is first started,
                 \* and bounds on what follows: events emitted, and incidents:
                 \* failures, restarts, and whatever runs beside the poll
  Reindexed,     \* ledgers the admin indexes from again
  MaxRows,       \* bound: rows of contract_events
  None           \* no row

ContractEvent ==
  [type : {"EventCreated", "EventFinalized", "EventCancelled"}]
    \cup [type : {"MatchAdded", "MatchResult"}, match : Matches]
    \cup [type : {"UserJoined"}, user : Users]
    \cup [type : {"PredictionSubmitted"}, match : Matches, user : Users]

Event == [finalized : BOOLEAN, cancelled : BOOLEAN, matchCount : Nat]

ASSUME IndexerAssumption ==
  /\ IsFiniteSet(Matches) /\ IsFiniteSet(Users)
  /\ "poll" \notin Retriers
  /\ {PageSize, Window, MaxRetries, Int8Max} \subseteq Nat \ {0}
  /\ MaxRows \in Nat
  /\ Reindexed \subseteq Nat
  /\ \A start \in Starts : /\ start.chain \in Seq(ContractEvent)
                            /\ {start.emits, start.incidents} \subseteq Nat
  /\ None \notin Event

VARIABLES
  chain,       \* the contract's events, by ledger
  event,       \* the row of creator_events, or None
  matches,     \* event_matches: "none", "open" or "decided"
  predictions, \* match_predictions: "none", "open" or "graded"
  payouts,     \* users with a row in creator_event_payouts
  rows,        \* contract_events, in the order of insertion
  checkpoint,  \* indexer_checkpoints, the last processed ledger
  sync,        \* chain_sync_checkpoints.last_indexed_ledger
  poll,        \* the poll: batch left and latest ledger, or NoPoll
  work,        \* the event being handled, by the poll and by each retry
  retry,       \* rows each retry has read and not handled yet
  reconciler,  \* the reconciler's run, or NoRun
  finalizer,   \* the finalizer's runs, or NoTick
  budget       \* incidents and events still to come

indexerVars == <<chain, event, matches, predictions, payouts, rows, checkpoint,
                 sync, poll, work, retry, reconciler, finalizer, budget>>
mirrorVars == <<event, matches, predictions, payouts>>

(* known: event_type is the one the indexer knows, not the reconciler's     *)
(* 'unknown'.                                                               *)
Row == [ledger : 1..Int8Max, known : BOOLEAN, retries : Nat,
        status : {"pending", "processed", "failed", "dlq"}]

Workers == {"poll"} \cup Retriers

NoPoll == [active |-> FALSE, batch |-> <<>>, latest |-> 0, saved |-> FALSE]
NoWork == [stage |-> "idle", id |-> 0, row |-> None, event |-> None, entries |-> {}]
NoRun == [stage |-> "idle", indexed |-> 0, todo |-> <<>>]
NoTick == [stage |-> "idle", event |-> None]

Emitted(e) == e \in Range(chain)

TypedEvent(type) == [type |-> type]
MatchEvent(type, m) == [type |-> type, match |-> m]

IndexerInit ==
  /\ \E start \in Starts :
       /\ chain = start.chain
       /\ budget = [emits |-> start.emits, incidents |-> start.incidents]
  /\ event = None
  /\ matches = [m \in Matches |-> "none"]
  /\ predictions = [p \in Matches \X Users |-> "none"]
  /\ payouts = {}
  /\ rows = <<>>
  /\ checkpoint = 0
  /\ sync = 0
  /\ poll = NoPoll
  /\ work = [w \in Workers |-> NoWork]
  /\ retry = [w \in Retriers |-> <<>>]
  /\ reconciler = NoRun
  /\ finalizer = [t \in Ticks |-> NoTick]

Spend(what) ==
  /\ budget[what] > 0
  /\ budget' = [budget EXCEPT ![what] = @ - 1]

Incident == Spend("incidents")

-----------------------------------------------------------------------------
(* The contract, as the users contract orders its events (CreatorEvents).   *)

Open ==
  /\ Emitted(TypedEvent("EventCreated"))
  /\ ~Emitted(TypedEvent("EventFinalized"))
  /\ ~Emitted(TypedEvent("EventCancelled"))

Possible(e) ==
  /\ ~Emitted(e)
  /\ CASE e.type = "EventCreated" -> TRUE
       [] e.type = "MatchAdded" -> Open
       [] e.type = "UserJoined" -> Open
       [] e.type = "PredictionSubmitted" ->
            /\ Open
            /\ Emitted(MatchEvent("MatchAdded", e.match))
            /\ ~Emitted(MatchEvent("MatchResult", e.match))
            /\ Emitted([type |-> "UserJoined", user |-> e.user])
       [] e.type = "MatchResult" -> Emitted(MatchEvent("MatchAdded", e.match))
       [] e.type = "EventCancelled" -> Open
       [] e.type = "EventFinalized" ->
            /\ Open
            /\ \A m \in Matches :
                 Emitted(MatchEvent("MatchAdded", m)) =>
                   Emitted(MatchEvent("MatchResult", m))

Emit(e) ==
  /\ Possible(e)
  /\ chain' = Append(chain, e)
  /\ Spend("emits")
  /\ UNCHANGED <<mirrorVars, rows, checkpoint, sync, poll, work, retry, reconciler,
                 finalizer>>

-----------------------------------------------------------------------------
(* pollContractEvents. *)

(* last + 1 where last is the bigint column as the driver returns it, a     *)
(* string of digits: the 1 is appended, not added.                          *)
FromLedger(last) == 10 * last + 1

Ledgers(from, to) == [i \in 1..(to - from + 1) |-> from + i - 1]

(* The page of events an RPC node returns, and an error (or a start beyond  *)
(* the head, which is one) taken as an empty page up to the start itself.   *)
Fetch(ok) ==
  /\ poll = NoPoll
  /\ LET from == FromLedger(checkpoint)
         head == Len(chain)
         last == IF from + PageSize - 1 < head THEN from + PageSize - 1 ELSE head
     IN  /\ ok => from <= head
         /\ poll' = [active |-> TRUE,
                     batch |-> IF ok THEN Ledgers(from, last) ELSE <<>>,
                     latest |-> IF ok THEN head ELSE from,
                     saved |-> FALSE]
         /\ IF ok \/ from > head THEN UNCHANGED budget ELSE Incident
  /\ UNCHANGED <<chain, mirrorVars, rows, checkpoint, sync, work, retry, reconciler,
                 finalizer>>

RowsAt(ledger) == {i \in DOMAIN rows : rows[i].ledger = ledger}

(* What a look-up before an insert may find: a row the other worker inserts *)
(* between the two is missed, and nothing makes the pair of ledger and      *)
(* index unique.                                                            *)
LooksAbsent(ledger) ==
  RowsAt(ledger) = {} \/ (poll.active /\ reconciler # NoRun)

Begin(id, row) == [NoWork EXCEPT !.stage = "read", !.id = id, !.row = row]

(* storeAndProcessEvent: a processed row is skipped, another is reused.     *)
StoreEvent ==
  /\ poll.active
  /\ poll.batch # <<>>
  /\ work["poll"] = NoWork
  /\ LET ledger == Head(poll.batch)
         new == [ledger |-> ledger, known |-> TRUE, retries |-> 0, status |-> "pending"]
     IN  \/ /\ LooksAbsent(ledger)
            /\ Len(rows) < MaxRows
            /\ rows' = Append(rows, new)
            /\ work' = [work EXCEPT !["poll"] = Begin(Len(rows) + 1, new)]
            /\ UNCHANGED poll
         \/ \E i \in RowsAt(ledger) :
              /\ UNCHANGED rows
              /\ IF rows[i].status = "processed"
                 THEN /\ poll' = [poll EXCEPT !.batch = Tail(@)]
                      /\ UNCHANGED work
                 ELSE /\ work' = [work EXCEPT !["poll"] = Begin(i, rows[i])]
                      /\ UNCHANGED poll
  /\ UNCHANGED <<chain, mirrorVars, checkpoint, sync, retry, reconciler, finalizer,
                 budget>>

(* Throws when the value is out of the range of the column, or the          *)
(* statement fails, and that ends the poll.                                 *)
SaveCheckpoint(ok) ==
  /\ poll.active
  /\ ~poll.saved
  /\ poll.batch = <<>>
  /\ work["poll"] = NoWork
  /\ ok => poll.latest <= Int8Max
  /\ checkpoint' = IF ok THEN poll.latest ELSE checkpoint
  /\ poll' = IF ok THEN [poll EXCEPT !.saved = TRUE] ELSE NoPoll
  /\ IF ok \/ poll.latest > Int8Max THEN UNCHANGED budget ELSE Incident
  /\ UNCHANGED <<chain, mirrorVars, rows, sync, work, retry, reconciler, finalizer>>

(* The reconciler's checkpoint follows, forward only.                       *)
AdvanceCheckpoint(ok) ==
  /\ poll.saved
  /\ sync' = IF ok /\ poll.latest > sync THEN poll.latest ELSE sync
  /\ poll' = NoPoll
  /\ IF ok THEN UNCHANGED budget ELSE Incident
  /\ UNCHANGED <<chain, mirrorVars, rows, checkpoint, work, retry, reconciler,
                 finalizer>>

LedgerBefore(from) == IF from > 0 THEN from - 1 ELSE 0

Reindex(from) ==
  /\ Incident
  /\ checkpoint' = LedgerBefore(from)
  /\ UNCHANGED <<chain, mirrorVars, rows, sync, poll, work, retry, reconciler,
                 finalizer>>

-----------------------------------------------------------------------------
(* retryFailedEvents: works outside the poll, on rows it read at the start. *)

RetryFailedEvents(w) ==
  /\ retry[w] = <<>>
  /\ work[w] = NoWork
  /\ LET failed == {i \in DOMAIN rows : rows[i].status \in {"failed", "dlq"}
                                          /\ rows[i].retries < MaxRetries}
     IN  /\ failed # {}
         /\ \E order \in SetToSeqs(failed) :
              retry' = [retry EXCEPT ![w] =
                [i \in DOMAIN order |-> [id |-> order[i], row |-> rows[order[i]]]]]
  /\ Incident
  /\ UNCHANGED <<chain, mirrorVars, rows, checkpoint, sync, poll, work, reconciler,
                 finalizer>>

RetryNext(w) ==
  /\ retry[w] # <<>>
  /\ work[w] = NoWork
  /\ work' = [work EXCEPT ![w] = Begin(Head(retry[w]).id, Head(retry[w]).row)]
  /\ retry' = [retry EXCEPT ![w] = Tail(@)]
  /\ UNCHANGED <<chain, mirrorVars, rows, checkpoint, sync, poll, reconciler,
                 finalizer, budget>>

-----------------------------------------------------------------------------
(* processEventByType and the handlers.  A handler reads, writes once or    *)
(* twice and ends; whatever throws on the way ends in Throw.                *)

Handled(w) == chain[work[w].row.ledger]

(* A retry goes by the type in the row, the poll by that of the event.      *)
HasHandler(w) == w = "poll" \/ work[w].row.known

(* Fault: no look-up, and no unique on_chain_match_id. *)
Unlisted_Unchecked(m) == TRUE

(* What the look-up finds, and what the unique on_chain_match_id lets in.   *)
Unlisted(m) == matches[m] = "none"

(* Whether the handler has something to do: its early returns, negated.     *)
Relevant(e) ==
  CASE e.type = "EventCreated" -> event = None
    [] e.type = "MatchAdded" -> Unlisted(e.match) /\ event # None
    [] e.type \in {"UserJoined", "EventCancelled"} -> event # None
    [] e.type = "PredictionSubmitted" ->
         matches[e.match] # "none" /\ predictions[<<e.match, e.user>>] = "none"
    [] e.type = "MatchResult" -> matches[e.match] = "open"
    [] e.type = "EventFinalized" -> event # None /\ payouts = {}

Stage(w, stage) == work' = [work EXCEPT ![w].stage = stage]

Read(w) ==
  /\ work[w].stage = "read"
  /\ IF HasHandler(w) /\ Relevant(Handled(w))
     THEN work' = [work EXCEPT ![w].stage = "first", ![w].event = event,
                     ![w].entries = IF Handled(w).type = "EventFinalized"
                                    THEN Users ELSE {}]
     ELSE Stage(w, "done")
  /\ UNCHANGED <<chain, mirrorVars, rows, checkpoint, sync, poll, retry, reconciler,
                 finalizer, budget>>

(* The first write of each handler. *)
Create(w) ==
  /\ Handled(w).type = "EventCreated"
  /\ event = None
  /\ event' = [finalized |-> FALSE, cancelled |-> FALSE, matchCount |-> 0]
  /\ Stage(w, "done")
  /\ UNCHANGED <<matches, predictions, payouts>>

AddMatch(w) ==
  /\ Handled(w).type = "MatchAdded"
  /\ Unlisted(Handled(w).match)
  /\ matches' = [matches EXCEPT ![Handled(w).match] = "open"]
  /\ Stage(w, "second")
  /\ UNCHANGED <<event, predictions, payouts>>

Join(w) ==
  /\ Handled(w).type = "UserJoined"
  /\ event' = work[w].event
  /\ Stage(w, "done")
  /\ UNCHANGED <<matches, predictions, payouts>>

AddPrediction(w) ==
  /\ Handled(w).type = "PredictionSubmitted"
  /\ LET p == <<Handled(w).match, Handled(w).user>>
     IN  /\ predictions[p] = "none"
         /\ predictions' = [predictions EXCEPT ![p] = "open"]
  /\ Stage(w, "done")
  /\ UNCHANGED <<event, matches, payouts>>

SetResult(w) ==
  /\ Handled(w).type = "MatchResult"
  /\ matches' = [matches EXCEPT ![Handled(w).match] = "decided"]
  /\ Stage(w, "second")
  /\ UNCHANGED <<event, predictions, payouts>>

MarkFinalized(w) ==
  /\ Handled(w).type = "EventFinalized"
  /\ event' = IF work[w].event.finalized THEN event
              ELSE [work[w].event EXCEPT !.finalized = TRUE]
  /\ Stage(w, "second")
  /\ UNCHANGED <<matches, predictions, payouts>>

MarkCancelled(w) ==
  /\ Handled(w).type = "EventCancelled"
  /\ event' = [work[w].event EXCEPT !.cancelled = TRUE]
  /\ Stage(w, "done")
  /\ UNCHANGED <<matches, predictions, payouts>>

FirstWrite(w) ==
  /\ work[w].stage = "first"
  /\ \/ Create(w)
     \/ AddMatch(w)
     \/ Join(w)
     \/ AddPrediction(w)
     \/ SetResult(w)
     \/ MarkFinalized(w)
     \/ MarkCancelled(w)
  /\ UNCHANGED <<chain, rows, checkpoint, sync, poll, retry, reconciler, finalizer,
                 budget>>

(* The second write.  The match is counted on the event as it was read. *)
CountMatch(w) ==
  /\ Handled(w).type = "MatchAdded"
  /\ event' = [work[w].event EXCEPT !.matchCount = @ + 1]
  /\ Stage(w, "done")
  /\ UNCHANGED <<matches, predictions, payouts>>

GradePredictions(w) ==
  /\ Handled(w).type = "MatchResult"
  /\ predictions' = [p \in DOMAIN predictions |->
                       IF p[1] = Handled(w).match /\ predictions[p] = "open"
                       THEN "graded" ELSE predictions[p]]
  /\ Stage(w, "done")
  /\ UNCHANGED <<event, matches, payouts>>

(* One leaderboard entry; an entry that throws is logged and left out, as   *)
(* is one whose payout exists.                                              *)
ProcessLeaderboardEntry(w, u, ok) ==
  /\ Handled(w).type = "EventFinalized"
  /\ u \in work[w].entries
  /\ payouts' = IF ok THEN payouts \cup {u} ELSE payouts
  /\ work' = [work EXCEPT ![w].entries = @ \ {u},
                ![w].stage = IF work[w].entries = {u} THEN "done" ELSE "second"]
  /\ UNCHANGED <<event, matches, predictions>>

SecondWrite(w) ==
  /\ work[w].stage = "second"
  /\ \/ CountMatch(w)
     \/ GradePredictions(w)
     \/ \E u \in Users, ok \in BOOLEAN : ProcessLeaderboardEntry(w, u, ok)
  /\ UNCHANGED <<chain, rows, checkpoint, sync, poll, retry, reconciler, finalizer,
                 budget>>

NextInBatch(w) ==
  poll' = IF w = "poll" THEN [poll EXCEPT !.batch = Tail(@)] ELSE poll

(* The row as it was read, processed. *)
Succeed(w) ==
  /\ work[w].stage = "done"
  /\ rows' = [rows EXCEPT ![work[w].id] = [work[w].row EXCEPT !.status = "processed"]]
  /\ work' = [work EXCEPT ![w] = NoWork]
  /\ NextInBatch(w)
  /\ UNCHANGED <<chain, mirrorVars, checkpoint, sync, retry, reconciler, finalizer,
                 budget>>

(* A statement or a notification throws, before or after a write.  The poll *)
(* counts the failure; a retry only logs it.                                *)
Throw(w) ==
  /\ work[w].stage \notin {"idle"}
  /\ Incident
  /\ LET n == work[w].row.retries + 1
     IN  rows' = IF w # "poll" THEN rows
                 ELSE [rows EXCEPT ![work[w].id] =
                         [work[w].row EXCEPT !.retries = n,
                            !.status = IF n >= MaxRetries THEN "dlq" ELSE "failed"]]
  /\ work' = [work EXCEPT ![w] = NoWork]
  /\ NextInBatch(w)
  /\ UNCHANGED <<chain, mirrorVars, checkpoint, sync, retry, reconciler, finalizer>>

-----------------------------------------------------------------------------
(* runReconciliation: saves the checkpoint row it read at the start.  An    *)
(* RPC error backfills nothing, and the checkpoint moves on all the same.   *)
(* Even with nothing to do the row is saved.                                *)

ReconcileStart(ok) ==
  /\ reconciler = NoRun
  /\ Incident
  /\ LET to == IF sync >= Len(chain) THEN sync
               ELSE IF sync + Window < Len(chain) THEN sync + Window ELSE Len(chain)
         last == IF sync + PageSize < to THEN sync + PageSize ELSE to
     IN  reconciler' = [stage |-> "backfill", indexed |-> to,
                        todo |-> IF ok THEN Ledgers(sync + 1, last) ELSE <<>>]
  /\ UNCHANGED <<chain, mirrorVars, rows, checkpoint, sync, poll, work, retry,
                 finalizer>>

(* backfillGap: rows nothing will ever take up unless the poll gets there.  *)
Backfill ==
  /\ reconciler.todo # <<>>
  /\ LET ledger == Head(reconciler.todo)
     IN  \/ /\ RowsAt(ledger) # {}
            /\ UNCHANGED rows
         \/ /\ LooksAbsent(ledger)
            /\ Len(rows) < MaxRows
            /\ rows' = Append(rows, [ledger |-> ledger, known |-> FALSE,
                                     retries |-> 0, status |-> "pending"])
  /\ reconciler' = [reconciler EXCEPT !.todo = Tail(@)]
  /\ UNCHANGED <<chain, mirrorVars, checkpoint, sync, poll, work, retry, finalizer,
                 budget>>

ReconcileSave ==
  /\ reconciler.stage = "backfill"
  /\ reconciler.todo = <<>>
  /\ sync' = reconciler.indexed
  /\ reconciler' = NoRun
  /\ UNCHANGED <<chain, mirrorVars, rows, checkpoint, poll, work, retry, finalizer,
                 budget>>

-----------------------------------------------------------------------------
(* finalizePendingEvents: reads the events past their end, looks for        *)
(* matches without a result, calls the chain and saves the row it read.     *)
(* Nothing stops a tick from starting while another is at work.             *)

FinalizerTick(t) ==
  /\ finalizer[t] = NoTick
  /\ event # None
  /\ ~event.finalized
  /\ ~event.cancelled
  /\ finalizer' = [finalizer EXCEPT ![t] = [stage |-> "check", event |-> event]]
  /\ Incident
  /\ UNCHANGED <<chain, mirrorVars, rows, checkpoint, sync, poll, work, retry,
                 reconciler>>

AreAllMatchesResolved(t) ==
  /\ finalizer[t].stage = "check"
  /\ finalizer' = [finalizer EXCEPT ![t] =
       IF \A m \in Matches : matches[m] # "open" THEN [@ EXCEPT !.stage = "call"]
       ELSE NoTick]
  /\ UNCHANGED <<chain, mirrorVars, rows, checkpoint, sync, poll, work, retry,
                 reconciler, budget>>

(* Fault: the row is marked whatever the chain answers. *)
MayMark_Always(accepted, heard) == TRUE

(* Only a call that is known to have succeeded lets the row be marked. *)
MayMark(accepted, heard) == accepted /\ heard

(* The chain refuses the call, the call does not get there, or the chain    *)
(* accepts it; the answer comes in time or does not.  (A transaction that   *)
(* makes it after the backend gave up polling for it is an Emit.)           *)
FinalizeOnChain(t) ==
  /\ finalizer[t].stage = "call"
  /\ LET e == TypedEvent("EventFinalized")
     IN  \E accepted \in {FALSE, Possible(e)}, heard \in BOOLEAN :
           /\ chain' = IF accepted THEN Append(chain, e) ELSE chain
           /\ finalizer' = [finalizer EXCEPT ![t] =
                IF MayMark(accepted, heard) THEN [@ EXCEPT !.stage = "save"] ELSE NoTick]
           /\ IF accepted = Possible(e) /\ heard THEN UNCHANGED budget ELSE Incident
  /\ UNCHANGED <<mirrorVars, rows, checkpoint, sync, poll, work, retry, reconciler>>

SaveFinalized(t) ==
  /\ finalizer[t].stage = "save"
  /\ event' = [finalizer[t].event EXCEPT !.finalized = TRUE]
  /\ finalizer' = [finalizer EXCEPT ![t] = NoTick]
  /\ UNCHANGED <<chain, matches, predictions, payouts, rows, checkpoint, sync, poll,
                 work, retry, reconciler, budget>>

-----------------------------------------------------------------------------
Crash ==
  /\ Incident
  /\ poll' = NoPoll
  /\ work' = [w \in Workers |-> NoWork]
  /\ retry' = [w \in Retriers |-> <<>>]
  /\ reconciler' = NoRun
  /\ finalizer' = [t \in Ticks |-> NoTick]
  /\ UNCHANGED <<chain, mirrorVars, rows, checkpoint, sync>>

IndexerNext ==
  \/ \E e \in ContractEvent : Emit(e)
  \/ \E ok \in BOOLEAN :
       Fetch(ok) \/ SaveCheckpoint(ok) \/ AdvanceCheckpoint(ok) \/ ReconcileStart(ok)
  \/ StoreEvent
  \/ \E from \in Reindexed : Reindex(from)
  \/ \E w \in Retriers : RetryFailedEvents(w) \/ RetryNext(w)
  \/ \E w \in Workers : \/ Read(w)
                        \/ FirstWrite(w)
                        \/ SecondWrite(w)
                        \/ Succeed(w)
                        \/ Throw(w)
  \/ Backfill
  \/ ReconcileSave
  \/ \E t \in Ticks : \/ FinalizerTick(t)
                      \/ AreAllMatchesResolved(t)
                      \/ FinalizeOnChain(t)
                      \/ SaveFinalized(t)
  \/ Crash

IndexerSpec == IndexerInit /\ [][IndexerNext]_indexerVars

-----------------------------------------------------------------------------
(* The types, with whole numbers that fit their columns, whatever the admin *)
(* asks to index again.                                                     *)
IndexerTypeOK ==
  /\ event \in Event \cup {None}
  /\ rows \in Seq(Row)
  /\ {checkpoint, sync} \subseteq 0..Int8Max
  /\ payouts \subseteq Users
  /\ \A w \in Workers : work[w].id \in DOMAIN rows \cup {0}
  /\ \A w \in Retriers : \A i \in DOMAIN retry[w] : retry[w][i].id \in DOMAIN rows

(* The mirror says nothing the chain does not: no event, match, result,     *)
(* prediction, cancellation, finalization or payout is on file that the     *)
(* contract did not emit, and predictions are graded only in decided        *)
(* matches - with events handled late, twice, concurrently or half.         *)
MirrorSound ==
  /\ event # None =>
       /\ Emitted(TypedEvent("EventCreated"))
       /\ event.finalized => Emitted(TypedEvent("EventFinalized"))
       /\ event.cancelled => Emitted(TypedEvent("EventCancelled"))
  /\ payouts # {} => Emitted(TypedEvent("EventFinalized"))
  /\ \A m \in Matches :
       /\ matches[m] # "none" => Emitted(MatchEvent("MatchAdded", m))
       /\ matches[m] = "decided" => Emitted(MatchEvent("MatchResult", m))
  /\ \A p \in Matches \X Users :
       /\ predictions[p] # "none" =>
            Emitted([type |-> "PredictionSubmitted", match |-> p[1], user |-> p[2]])
       /\ predictions[p] = "graded" => matches[p[1]] = "decided"

(* The event never counts more matches than are on file, although handlers  *)
(* save counts they read earlier, fail between two writes and are run anew  *)
(* or beside each other.                                                    *)
MatchesCounted ==
  event # None =>
    event.matchCount <= Cardinality({m \in Matches : matches[m] # "none"})

(* The reconciliation checkpoint, the "last ledger successfully indexed and *)
(* persisted", is a ledger of the chain.                                    *)
IndexedIsOnChain == sync <= Len(chain)
=============================================================================
