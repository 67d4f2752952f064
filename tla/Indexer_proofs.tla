--------------------------- MODULE Indexer_proofs ---------------------------
(***************************************************************************)
(* Why the mirror tells the truth, for any number of matches, users,       *)
(* events, failures and restarts.  The chain and the decided matches only  *)
(* grow, and whatever a handler or the finalizer holds in its hands was    *)
(* true when it was read: so it is still true when it is saved.            *)
(***************************************************************************)
EXTENDS Indexer, FiniteSetTheorems, TLAPS

Ledger == 1..Len(chain)

StoredRow == [ledger : Ledger, known : BOOLEAN, retries : Nat,
              status : {"pending", "processed", "failed", "dlq"}]

Task == [stage : {"idle", "read", "first", "second", "done"}, id : Nat,
         row : StoredRow \cup {None}, event : Event \cup {None},
         entries : SUBSET Users]

Listed == {m \in Matches : matches[m] # "none"}
Decided == {m \in Matches : matches[m] = "decided"}

(* What may be said of a row of creator_events, or of a copy of it. *)
Honest(e) ==
  /\ Emitted(TypedEvent("EventCreated"))
  /\ e.finalized => Emitted(TypedEvent("EventFinalized"))
  /\ e.cancelled => Emitted(TypedEvent("EventCancelled"))
  /\ e.matchCount <= Cardinality(Listed)

(* The types of events whose handlers save the row they read. *)
Carriers == {"MatchAdded", "UserJoined", "EventCancelled", "EventFinalized"}

(* A handler between its reads and its last write. *)
TaskSound(t) ==
  LET e == chain[t.row.ledger]
  IN  /\ t.stage # "idle" => t.row \in StoredRow
      /\ t.stage \in {"first", "second"} =>
           /\ e.type \in Carriers => t.event \in Event /\ Honest(t.event)
           /\ e.type = "MatchResult" => e.match \in Listed
      /\ t.stage = "second" =>
           /\ e.type = "MatchAdded" =>
                t.event.matchCount + 1 <= Cardinality(Listed)
           /\ e.type = "MatchResult" => e.match \in Decided

TickRun == [stage : {"idle", "check", "call", "save"}, event : Event \cup {None}]

(* A run of the finalizer, with the row it read. *)
TickSound(f) ==
  /\ f.stage # "idle" => f.event \in Event /\ Honest(f.event)
  /\ f.stage = "save" => Emitted(TypedEvent("EventFinalized"))

ChainOK == chain \in Seq(ContractEvent)

EventOK == event \in Event \cup {None} /\ (event # None => Honest(event))

MatchesOK ==
  /\ matches \in [Matches -> {"none", "open", "decided"}]
  /\ \A m \in Listed : Emitted(MatchEvent("MatchAdded", m))
  /\ \A m \in Decided : Emitted(MatchEvent("MatchResult", m))

Submitted(p) == [type |-> "PredictionSubmitted", match |-> p[1], user |-> p[2]]

PredictionsOK ==
  /\ predictions \in [Matches \X Users -> {"none", "open", "graded"}]
  /\ \A p \in Matches \X Users :
       /\ predictions[p] # "none" => Emitted(Submitted(p))
       /\ predictions[p] = "graded" => p[1] \in Decided

PayoutsOK ==
  /\ payouts \subseteq Users
  /\ payouts # {} => Emitted(TypedEvent("EventFinalized"))

RowsOK == rows \in Seq(StoredRow)

CheckpointsOK == checkpoint \in Nat /\ sync \in Nat

PollOK == poll \in [active : BOOLEAN, batch : Seq(Ledger), latest : Nat, saved : BOOLEAN]

WorkOK == work \in [Workers -> Task] /\ \A w \in Workers : TaskSound(work[w])

RetryOK == retry \in [Retriers -> Seq([id : Nat, row : StoredRow])]

ReconcilerOK ==
  reconciler \in [stage : {"idle", "backfill"}, indexed : Nat, todo : Seq(Ledger)]

FinalizerOK == finalizer \in [Ticks -> TickRun] /\ \A t \in Ticks : TickSound(finalizer[t])

MirrorOK == EventOK /\ MatchesOK /\ PredictionsOK /\ PayoutsOK

ProcessesOK ==
  RowsOK /\ CheckpointsOK /\ PollOK /\ WorkOK /\ RetryOK /\ ReconcilerOK /\ FinalizerOK

IndexerInv == ChainOK /\ MirrorOK /\ ProcessesOK

-----------------------------------------------------------------------------
(* The chain keeps what it has, and the decided stay decided. *)
Growth ==
  /\ chain' \in Seq(ContractEvent)
  /\ Len(chain) <= Len(chain')
  /\ \A i \in Ledger : chain'[i] = chain[i]
  /\ Listed \subseteq Listed'
  /\ Decided \subseteq Decided'

LEMMA GrowingChain ==
  ASSUME ChainOK, Growth
  PROVE  /\ \A e : Emitted(e) => Emitted(e)'
         /\ Ledger \subseteq Ledger'
         /\ StoredRow \subseteq StoredRow'
         /\ Task \subseteq Task'
         /\ Seq(Ledger) \subseteq Seq(Ledger')
         /\ Seq(StoredRow) \subseteq Seq(StoredRow')
<1>1. /\ DOMAIN chain = Ledger /\ DOMAIN chain' = Ledger'
      /\ Ledger \subseteq Ledger'
  BY DEF ChainOK, Growth, Ledger
<1>2. \A e : Emitted(e) => Emitted(e)'
  BY <1>1 DEF Growth, Emitted, Range
<1>3. StoredRow \subseteq StoredRow'
  BY <1>1 DEF StoredRow
<1>4. Task \subseteq Task'
  BY <1>3 DEF Task
<1>5. /\ Seq(Ledger) \subseteq Seq(Ledger')
      /\ Seq(StoredRow) \subseteq Seq(StoredRow')
  BY <1>1, <1>3
<1> QED BY <1>1, <1>2, <1>3, <1>4, <1>5

LEMMA ListedFinite ==
  ASSUME NEW S \in SUBSET Matches, NEW T \in SUBSET Matches, S \subseteq T
  PROVE  /\ Cardinality(S) \in Nat /\ Cardinality(T) \in Nat
         /\ Cardinality(S) <= Cardinality(T)
         /\ S # T => Cardinality(S) + 1 <= Cardinality(T)
<1>1. IsFiniteSet(T)
  BY IndexerAssumption, FS_Subset DEF IndexerAssumption
<1>2. /\ IsFiniteSet(S) /\ Cardinality(S) <= Cardinality(T)
      /\ Cardinality(S) = Cardinality(T) => S = T
  BY <1>1, FS_Subset
<1>3. Cardinality(S) \in Nat /\ Cardinality(T) \in Nat
  BY <1>1, <1>2, FS_CardinalityType
<1> QED BY <1>2, <1>3

(* What was true of a copy stays true of it. *)
LEMMA HonestStays ==
  ASSUME ChainOK, Growth, NEW e \in Event, Honest(e)
  PROVE  Honest(e)'
<1>1. e.matchCount \in Nat
  BY DEF Event
<1>2. /\ Cardinality(Listed) \in Nat /\ Cardinality(Listed') \in Nat
      /\ Cardinality(Listed) <= Cardinality(Listed')
  BY ListedFinite DEF Growth, Listed
<1>3. e.matchCount <= Cardinality(Listed')
  BY <1>1, <1>2 DEF Honest
<1>4. /\ Emitted(TypedEvent("EventCreated"))'
      /\ e.finalized => Emitted(TypedEvent("EventFinalized"))'
      /\ e.cancelled => Emitted(TypedEvent("EventCancelled"))'
  BY GrowingChain DEF Honest, TypedEvent
<1> QED BY <1>3, <1>4 DEF Honest

LEMMA TaskStays ==
  ASSUME ChainOK, Growth, NEW t \in Task, TaskSound(t)
  PROVE  TaskSound(t)'
<1> DEFINE e == chain[t.row.ledger]
<1>1. CASE t.stage = "idle"
  BY <1>1 DEF TaskSound
<1>2. CASE t.stage # "idle"
  <2>1. t.row \in StoredRow /\ t.row \in StoredRow' /\ t.row.ledger \in Ledger
    BY <1>2, GrowingChain DEF TaskSound, StoredRow
  <2>2. chain'[t.row.ledger] = e
    BY <2>1 DEF Growth
  <2>3. /\ t.stage \in {"first", "second"} /\ e.type \in Carriers =>
             t.event \in Event /\ Honest(t.event)'
    BY HonestStays DEF TaskSound
  <2>4. /\ t.stage \in {"first", "second"} /\ e.type = "MatchResult" => e.match \in Listed'
        /\ t.stage = "second" /\ e.type = "MatchResult" => e.match \in Decided'
    BY DEF TaskSound, Growth
  <2>5. t.stage = "second" /\ e.type = "MatchAdded" =>
          t.event.matchCount + 1 <= Cardinality(Listed')
    <3> SUFFICES ASSUME t.stage = "second", e.type = "MatchAdded"
                 PROVE  t.event.matchCount + 1 <= Cardinality(Listed')
      OBVIOUS
    <3>1. t.event \in Event /\ t.event.matchCount + 1 <= Cardinality(Listed)
      BY DEF TaskSound, Carriers
    <3>2. /\ Cardinality(Listed) \in Nat /\ Cardinality(Listed') \in Nat
          /\ Cardinality(Listed) <= Cardinality(Listed')
      BY ListedFinite DEF Growth, Listed
    <3> QED BY <3>1, <3>2 DEF Event
  <2> QED BY <2>1, <2>2, <2>3, <2>4, <2>5 DEF TaskSound
<1> QED BY <1>1, <1>2

LEMMA TickStays ==
  ASSUME ChainOK, Growth, NEW f, TickSound(f)
  PROVE  TickSound(f)'
BY GrowingChain, HonestStays DEF TickSound, TypedEvent

LEMMA SeqOfMore ==
  ASSUME NEW S, NEW T, S \subseteq T
  PROVE  Seq(S) \subseteq Seq(T)
OBVIOUS

LEMMA Kept ==
  ASSUME IndexerInv, Growth
  PROVE  /\ event' = event => EventOK'
         /\ matches' = matches => MatchesOK'
         /\ predictions' = predictions => PredictionsOK'
         /\ payouts' = payouts => PayoutsOK'
         /\ rows' = rows => RowsOK'
         /\ poll' = poll => PollOK'
         /\ work' = work => WorkOK'
         /\ retry' = retry => RetryOK'
         /\ reconciler' = reconciler => ReconcilerOK'
         /\ finalizer' = finalizer => FinalizerOK'
<1> USE DEF IndexerInv, MirrorOK, ProcessesOK
<1>1. event' = event => EventOK'
  BY HonestStays DEF EventOK
<1>2. matches' = matches => MatchesOK'
  <2> SUFFICES ASSUME matches' = matches PROVE MatchesOK'
    OBVIOUS
  <2>1. Listed' = Listed /\ Decided' = Decided
    BY DEF Listed, Decided
  <2>2. /\ \A m \in Listed : Emitted(MatchEvent("MatchAdded", m))'
        /\ \A m \in Decided : Emitted(MatchEvent("MatchResult", m))'
    BY GrowingChain DEF MatchesOK, MatchEvent
  <2> QED BY <2>1, <2>2 DEF MatchesOK
<1>3. predictions' = predictions => PredictionsOK'
  BY GrowingChain DEF PredictionsOK, Growth, Submitted
<1>4. payouts' = payouts => PayoutsOK'
  BY GrowingChain DEF PayoutsOK, TypedEvent
<1>5. rows' = rows => RowsOK'
  BY GrowingChain DEF RowsOK
<1>6. poll' = poll => PollOK'
  BY GrowingChain DEF PollOK
<1>7. work' = work => WorkOK'
  BY GrowingChain, TaskStays DEF WorkOK
<1>8. retry' = retry => RetryOK'
  <2>1. [id : Nat, row : StoredRow] \subseteq [id : Nat, row : StoredRow']
    BY GrowingChain
  <2>2. Seq([id : Nat, row : StoredRow]) \subseteq Seq([id : Nat, row : StoredRow'])
    BY <2>1, SeqOfMore, Zenon
  <2> PICK S, T : /\ S = Seq([id : Nat, row : StoredRow])
                  /\ T = Seq([id : Nat, row : StoredRow'])
    OBVIOUS
  <2>3. S \subseteq T
    BY <2>2
  <2>4. [Retriers -> S] \subseteq [Retriers -> T]
    BY <2>3
  <2> QED BY <2>4 DEF RetryOK
<1>9. reconciler' = reconciler => ReconcilerOK'
  BY GrowingChain DEF ReconcilerOK
<1>10. finalizer' = finalizer => FinalizerOK'
  BY TickStays DEF FinalizerOK
<1> QED BY <1>1, <1>2, <1>3, <1>4, <1>5, <1>6, <1>7, <1>8, <1>9, <1>10

LEMMA Still ==
  ASSUME IndexerInv, UNCHANGED <<chain, matches>>
  PROVE  Growth /\ ChainOK' /\ Ledger' = Ledger /\ StoredRow' = StoredRow /\ Task' = Task
BY DEF IndexerInv, ChainOK, Growth, Listed, Decided, Ledger, StoredRow, Task

LEMMA EventKinds ==
  ASSUME NEW e \in ContractEvent
  PROVE  /\ e.type = "EventCreated" => e = TypedEvent("EventCreated")
         /\ e.type = "EventFinalized" => e = TypedEvent("EventFinalized")
         /\ e.type = "EventCancelled" => e = TypedEvent("EventCancelled")
         /\ e.type = "MatchAdded" =>
              e.match \in Matches /\ e = MatchEvent("MatchAdded", e.match)
         /\ e.type = "MatchResult" =>
              e.match \in Matches /\ e = MatchEvent("MatchResult", e.match)
         /\ e.type = "PredictionSubmitted" =>
              /\ e.match \in Matches /\ e.user \in Users
              /\ e = Submitted(<<e.match, e.user>>)
BY DEF ContractEvent, TypedEvent, MatchEvent, Submitted

LEMMA AtWork ==
  ASSUME IndexerInv, NEW w \in Workers, work[w].stage # "idle"
  PROVE  /\ work[w] \in Task /\ TaskSound(work[w])
         /\ work[w].row \in StoredRow /\ work[w].row.ledger \in Ledger
         /\ Handled(w) \in ContractEvent /\ Emitted(Handled(w))
<1>1. work[w] \in Task /\ TaskSound(work[w])
  BY DEF IndexerInv, ProcessesOK, WorkOK
<1>2. work[w].row \in StoredRow /\ work[w].row.ledger \in Ledger
  BY <1>1 DEF TaskSound, StoredRow
<1>3. DOMAIN chain = Ledger /\ \A i \in Ledger : chain[i] \in ContractEvent
  BY DEF IndexerInv, ChainOK, Ledger
<1>4. Handled(w) \in ContractEvent /\ Emitted(Handled(w))
  BY <1>2, <1>3 DEF Handled, Emitted, Range
<1> QED BY <1>1, <1>2, <1>4

(* A worker takes up a sound task. *)
LEMMA NewTask ==
  ASSUME IndexerInv, Growth, NEW w \in Workers, NEW t, t \in Task', TaskSound(t)',
         work' = [work EXCEPT ![w] = t]
  PROVE  WorkOK'
<1>1. work \in [Workers -> Task] /\ \A x \in Workers : TaskSound(work[x])
  BY DEF IndexerInv, ProcessesOK, WorkOK
<1>2. work \in [Workers -> Task']
  BY <1>1, GrowingChain DEF IndexerInv
<1>3. \A x \in Workers : TaskSound(work[x])'
  <2> SUFFICES ASSUME NEW x \in Workers PROVE TaskSound(work[x])'
    OBVIOUS
  <2>1. CASE x = w
    <3>1. work'[x] = t
      BY <1>1, <2>1
    <3> QED BY <3>1 DEF TaskSound
  <2>2. CASE x # w
    <3>1. work'[x] = work[x]
      BY <1>1, <2>2
    <3> PICK s : s = work[x]
      OBVIOUS
    <3>2. s \in Task /\ TaskSound(s)
      BY <1>1
    <3>3. TaskSound(s)'
      BY <3>2, TaskStays DEF IndexerInv
    <3> QED BY <3>1, <3>3 DEF TaskSound
  <2> QED BY <2>1, <2>2
<1>4. work' \in [Workers -> Task']
  BY <1>2
<1> QED BY <1>3, <1>4 DEF WorkOK

LEMMA IdleTask == NoWork \in Task' /\ TaskSound(NoWork)'
BY DEF NoWork, Task, TaskSound

LEMMA Rest ==
  ASSUME IndexerInv, Growth, NEW w \in Workers, work' = [work EXCEPT ![w] = NoWork]
  PROVE  WorkOK'
<1> PICK t : t = NoWork
  OBVIOUS
<1>1. t \in Task' /\ TaskSound(t)'
  BY IdleTask
<1> QED BY <1>1, NewTask

(* A handler that is through. *)
LEMMA Through ==
  ASSUME IndexerInv, Growth, NEW w \in Workers, work[w].stage # "idle", Stage(w, "done")
  PROVE  WorkOK'
<1> PICK t : t = [work[w] EXCEPT !.stage = "done"]
  OBVIOUS
<1>1. work[w] \in Task /\ work[w].row \in StoredRow
  BY AtWork
<1>2. work[w] \in Task' /\ work[w].row \in StoredRow'
  BY <1>1, GrowingChain DEF IndexerInv
<1>3. t \in Task' /\ t.stage = "done" /\ t.row = work[w].row
  BY <1>2 DEF Task
<1>4. TaskSound(t)'
  BY <1>2, <1>3 DEF TaskSound
<1>5. work' = [work EXCEPT ![w] = t]
  BY DEF Stage
<1> QED BY <1>3, <1>4, <1>5, NewTask

-----------------------------------------------------------------------------
(* The contract and the poll. *)

LEMMA AppendGrows ==
  ASSUME IndexerInv, NEW e \in ContractEvent, chain' = Append(chain, e),
         matches' = matches
  PROVE  Growth /\ ChainOK' /\ Emitted(e)'
<1>1. chain \in Seq(ContractEvent)
  BY DEF IndexerInv, ChainOK
<1>2. /\ chain' \in Seq(ContractEvent)
      /\ Len(chain') = Len(chain) + 1
      /\ \A i \in 1..Len(chain) : chain'[i] = chain[i]
      /\ chain'[Len(chain) + 1] = e
  BY <1>1
<1>3. Growth
  BY <1>1, <1>2 DEF Growth, Listed, Decided, Ledger
<1>4. Len(chain) + 1 \in DOMAIN chain'
  BY <1>1, <1>2
<1>5. Emitted(e)'
  BY <1>2, <1>4 DEF Emitted, Range
<1> QED BY <1>2, <1>3, <1>5 DEF ChainOK

LEMMA EmitStep ==
  ASSUME IndexerInv, NEW e \in ContractEvent, Emit(e)
  PROVE  IndexerInv'
<1>1. Growth /\ ChainOK'
  BY AppendGrows DEF Emit, mirrorVars
<1>2. MirrorOK'
  BY <1>1, Kept DEF Emit, MirrorOK, mirrorVars
<1>3. ProcessesOK'
  BY <1>1, Kept DEF Emit, IndexerInv, ProcessesOK, CheckpointsOK
<1> QED BY <1>1, <1>2, <1>3 DEF IndexerInv

LEMMA LedgersType ==
  ASSUME NEW from \in Nat \ {0}, NEW to \in Int, NEW n \in Nat, to <= n
  PROVE  Ledgers(from, to) \in Seq(1..n)
<1> DEFINE k == IF to - from + 1 >= 0 THEN to - from + 1 ELSE 0
<1>1. k \in Nat /\ 1..(to - from + 1) = 1..k
  OBVIOUS
<1>2. \A i \in 1..k : from + i - 1 \in 1..n
  BY <1>1
<1>3. [i \in 1..k |-> from + i - 1] \in [1..k -> 1..n]
  BY <1>2
<1>4. [i \in 1..k |-> from + i - 1] \in Seq(1..n)
  BY <1>1, <1>3
<1> QED BY <1>1, <1>4 DEF Ledgers

LEMMA FetchStep ==
  ASSUME IndexerInv, NEW ok \in BOOLEAN, Fetch(ok)
  PROVE  IndexerInv'
<1>1. Growth /\ ChainOK' /\ Ledger' = Ledger
  BY Still DEF Fetch, mirrorVars
<1>2. MirrorOK'
  BY <1>1, Kept DEF Fetch, MirrorOK, mirrorVars
<1>3. PollOK'
  <2> DEFINE from == FromLedger(checkpoint)
             last == IF from + PageSize - 1 < Len(chain) THEN from + PageSize - 1
                     ELSE Len(chain)
  <2>1. from \in Nat \ {0} /\ Len(chain) \in Nat /\ PageSize \in Nat
    BY IndexerAssumption
    DEF IndexerInv, ProcessesOK, CheckpointsOK, ChainOK, FromLedger, IndexerAssumption
  <2>2. last \in Int /\ last <= Len(chain)
    BY <2>1
  <2>3. Ledgers(from, last) \in Seq(Ledger)
    BY <2>1, <2>2, LedgersType DEF Ledger
  <2>4. <<>> \in Seq(Ledger)
    OBVIOUS
  <2>5. poll' = [active |-> TRUE, batch |-> IF ok THEN Ledgers(from, last) ELSE <<>>,
                 latest |-> IF ok THEN Len(chain) ELSE from, saved |-> FALSE]
    BY DEF Fetch
  <2> HIDE DEF from, last
  <2> QED BY <1>1, <2>1, <2>3, <2>4, <2>5 DEF PollOK
<1>4. ProcessesOK'
  BY <1>1, <1>3, Kept DEF Fetch, IndexerInv, ProcessesOK, CheckpointsOK
<1> QED BY <1>1, <1>2, <1>4 DEF IndexerInv

LEMMA TailType ==
  ASSUME NEW S, NEW s \in Seq(S), s # <<>>
  PROVE  Tail(s) \in Seq(S) /\ Head(s) \in S
OBVIOUS

LEMMA BeginSound ==
  ASSUME NEW id \in Nat, NEW row, row \in StoredRow'
  PROVE  Begin(id, row) \in Task' /\ TaskSound(Begin(id, row))'
<1> DEFINE t == Begin(id, row)
<1>1. /\ t.stage = "read" /\ t.row = row
      /\ t \in [stage : {"idle", "read", "first", "second", "done"}, id : Nat,
                row : StoredRow' \cup {None}, event : Event \cup {None},
                entries : SUBSET Users]
  BY DEF Begin, NoWork
<1> HIDE DEF t
<1>2. t \in Task' /\ TaskSound(t)'
  BY <1>1 DEF Task, TaskSound
<1> QED BY <1>2 DEF t

LEMMA StoreEventStep ==
  ASSUME IndexerInv, StoreEvent
  PROVE  IndexerInv'
<1>1. Growth /\ ChainOK' /\ Ledger' = Ledger /\ StoredRow' = StoredRow
  BY Still DEF StoreEvent, mirrorVars
<1>2. MirrorOK'
  BY <1>1, Kept DEF StoreEvent, MirrorOK, mirrorVars
<1>3. /\ poll.batch \in Seq(Ledger) /\ poll.batch # <<>>
      /\ poll \in [active : BOOLEAN, batch : Seq(Ledger), latest : Nat, saved : BOOLEAN]
      /\ Tail(poll.batch) \in Seq(Ledger) /\ Head(poll.batch) \in Ledger
      /\ rows \in Seq(StoredRow)
  BY TailType DEF StoreEvent, IndexerInv, ProcessesOK, PollOK, RowsOK
<1> DEFINE new == [ledger |-> Head(poll.batch), known |-> TRUE, retries |-> 0,
                   status |-> "pending"]
<1>4. new \in StoredRow
  BY <1>3 DEF StoredRow
<1>5. RowsOK' /\ PollOK' /\ WorkOK'
  <2>1. CASE /\ rows' = Append(rows, new)
             /\ work' = [work EXCEPT !["poll"] = Begin(Len(rows) + 1, new)]
             /\ poll' = poll
    <3> PICK t, n : t = Begin(n, new) /\ n = Len(rows) + 1
      OBVIOUS
    <3>1. n \in Nat
      BY <1>3
    <3> PICK r : r = new
      OBVIOUS
    <3>2. t \in Task' /\ TaskSound(t)'
      BY <1>1, <1>4, <3>1, BeginSound
    <3>3. WorkOK'
      BY <1>1, <2>1, <3>2, NewTask DEF Workers
    <3>4. RowsOK'
      BY <1>1, <1>3, <1>4, <2>1 DEF RowsOK
    <3> QED BY <1>1, <2>1, <3>3, <3>4, Kept
  <2>2. CASE \E i \in RowsAt(Head(poll.batch)) :
               /\ UNCHANGED rows
               /\ IF rows[i].status = "processed"
                  THEN /\ poll' = [poll EXCEPT !.batch = Tail(@)]
                       /\ UNCHANGED work
                  ELSE /\ work' = [work EXCEPT !["poll"] = Begin(i, rows[i])]
                       /\ UNCHANGED poll
    <3> PICK i \in RowsAt(Head(poll.batch)) :
               /\ UNCHANGED rows
               /\ IF rows[i].status = "processed"
                  THEN /\ poll' = [poll EXCEPT !.batch = Tail(@)]
                       /\ UNCHANGED work
                  ELSE /\ work' = [work EXCEPT !["poll"] = Begin(i, rows[i])]
                       /\ UNCHANGED poll
      BY <2>2
    <3>1. i \in Nat /\ rows[i] \in StoredRow
      BY <1>3 DEF RowsAt
    <3>2. CASE rows[i].status = "processed"
      <4>1. PollOK'
        BY <1>1, <1>3, <3>2 DEF PollOK
      <4> QED BY <1>1, <3>2, <4>1, Kept
    <3>3. CASE rows[i].status # "processed"
      <4> PICK t, r : t = Begin(i, r) /\ r = rows[i]
        OBVIOUS
      <4>1. t \in Task' /\ TaskSound(t)'
        BY <1>1, <3>1, BeginSound
      <4>2. WorkOK'
        BY <1>1, <3>3, <4>1, NewTask DEF Workers
      <4> QED BY <1>1, <3>3, <4>2, Kept
    <3> QED BY <3>2, <3>3
  <2> QED BY <2>1, <2>2 DEF StoreEvent
<1>6. ProcessesOK'
  BY <1>1, <1>5, Kept DEF StoreEvent, IndexerInv, ProcessesOK, CheckpointsOK
<1> QED BY <1>1, <1>2, <1>6 DEF IndexerInv

LEMMA CheckpointStep ==
  ASSUME IndexerInv,
         \/ \E ok \in BOOLEAN : SaveCheckpoint(ok) \/ AdvanceCheckpoint(ok)
         \/ \E from \in Reindexed : Reindex(from)
  PROVE  IndexerInv'
<1>1. UNCHANGED <<chain, mirrorVars, rows, work, retry, reconciler, finalizer>>
  BY DEF SaveCheckpoint, AdvanceCheckpoint, Reindex
<1>2. Growth /\ ChainOK'
  BY <1>1, Still DEF mirrorVars
<1>3. MirrorOK'
  BY <1>1, <1>2, Kept DEF MirrorOK, mirrorVars
<1>4. /\ poll \in [active : BOOLEAN, batch : Seq(Ledger), latest : Nat, saved : BOOLEAN]
      /\ checkpoint \in Nat /\ sync \in Nat
  BY DEF IndexerInv, ProcessesOK, PollOK, CheckpointsOK
<1>5. CheckpointsOK'
  BY <1>4, IndexerAssumption
  DEF SaveCheckpoint, AdvanceCheckpoint, Reindex, CheckpointsOK, LedgerBefore,
      IndexerAssumption
<1>6. PollOK'
  <2>1. NoPoll \in [active : BOOLEAN, batch : Seq(Ledger'), latest : Nat,
                   saved : BOOLEAN]
    BY DEF NoPoll
  <2>2. CASE poll' = poll \/ poll' = NoPoll
    BY <1>2, <2>1, <2>2, Kept DEF PollOK
  <2>3. CASE poll' = [poll EXCEPT !.saved = TRUE]
    <3>1. Ledger' = Ledger
      BY <1>1, Still DEF mirrorVars
    <3> QED BY <1>4, <2>3, <3>1 DEF PollOK
  <2>4. poll' = poll \/ poll' = NoPoll \/ poll' = [poll EXCEPT !.saved = TRUE]
    BY DEF SaveCheckpoint, AdvanceCheckpoint, Reindex
  <2> QED BY <2>2, <2>3, <2>4
<1>7. ProcessesOK'
  BY <1>1, <1>2, <1>5, <1>6, Kept DEF ProcessesOK
<1> QED BY <1>2, <1>3, <1>7 DEF IndexerInv

LEMMA FunctionIsSeq ==
  ASSUME NEW S, NEW n \in Nat, NEW f \in [1..n -> S]
  PROVE  f \in Seq(S)
OBVIOUS

(* What a retry still has to do, of rows on file. *)
LEMMA NewTodo ==
  ASSUME IndexerInv, StoredRow' = StoredRow, NEW w \in Retriers,
         NEW todo \in Seq([id : Nat, row : StoredRow]),
         retry' = [retry EXCEPT ![w] = todo]
  PROVE  RetryOK'
<1> PICK S : S = Seq([id : Nat, row : StoredRow])
  OBVIOUS
<1>1. retry \in [Retriers -> S] /\ todo \in S
  BY DEF IndexerInv, ProcessesOK, RetryOK
<1>2. retry' \in [Retriers -> S]
  BY <1>1
<1> QED BY <1>2 DEF RetryOK

LEMMA RetryFailedEventsStep ==
  ASSUME IndexerInv, NEW w \in Retriers, RetryFailedEvents(w)
  PROVE  IndexerInv'
<1>1. UNCHANGED <<chain, mirrorVars, rows, checkpoint, sync, poll, work, reconciler,
                  finalizer>>
  BY DEF RetryFailedEvents
<1>2. Growth /\ ChainOK' /\ StoredRow' = StoredRow
  BY <1>1, Still DEF mirrorVars
<1>3. MirrorOK'
  BY <1>1, <1>2, Kept DEF MirrorOK, mirrorVars
<1>4. rows \in Seq(StoredRow)
  BY DEF IndexerInv, ProcessesOK, RowsOK
<1> DEFINE failed == {i \in DOMAIN rows : rows[i].status \in {"failed", "dlq"}
                                            /\ rows[i].retries < MaxRetries}
<1>5. PICK order \in SetToSeqs(failed) :
        retry' = [retry EXCEPT ![w] =
          [i \in DOMAIN order |-> [id |-> order[i], row |-> rows[order[i]]]]]
  BY DEF RetryFailedEvents
<1>6. failed \subseteq 1..Len(rows) /\ Len(rows) \in Nat
  BY <1>4
<1>7. Cardinality(failed) \in Nat
  <2>1. IsFiniteSet(1..Len(rows))
    BY <1>6, FS_Interval
  <2> HIDE DEF failed
  <2>2. IsFiniteSet(failed)
    BY <1>6, <2>1, FS_Subset
  <2> QED BY <2>2, FS_CardinalityType
<1>8. order \in [1..Cardinality(failed) -> failed]
  BY DEF SetToSeqs
<1> HIDE DEF failed
<1>9. \A i \in 1..Cardinality(failed) :
        [id |-> order[i], row |-> rows[order[i]]] \in [id : Nat, row : StoredRow]
  <2> SUFFICES ASSUME NEW i \in 1..Cardinality(failed)
               PROVE  order[i] \in Nat /\ rows[order[i]] \in StoredRow
    OBVIOUS
  <2>1. order[i] \in failed
    BY <1>8
  <2>2. order[i] \in 1..Len(rows)
    BY <1>6, <2>1
  <2> QED BY <1>4, <2>2
<1> PICK todo : todo = [i \in DOMAIN order |-> [id |-> order[i], row |-> rows[order[i]]]]
  OBVIOUS
<1>10. todo \in [1..Cardinality(failed) -> [id : Nat, row : StoredRow]]
  BY <1>8, <1>9
<1>11. todo \in Seq([id : Nat, row : StoredRow])
  <2> PICK S, n : S = [id : Nat, row : StoredRow] /\ n = Cardinality(failed)
    OBVIOUS
  <2>1. n \in Nat /\ todo \in [1..n -> S]
    BY <1>7, <1>10
  <2>2. todo \in Seq(S)
    BY <2>1, FunctionIsSeq
  <2> QED BY <2>2
<1>12. RetryOK'
  BY <1>2, <1>5, <1>11, NewTodo
<1>13. ProcessesOK'
  BY <1>1, <1>2, <1>12, Kept DEF IndexerInv, ProcessesOK, CheckpointsOK
<1> QED BY <1>2, <1>3, <1>13 DEF IndexerInv

LEMMA RetryNextStep ==
  ASSUME IndexerInv, NEW w \in Retriers, RetryNext(w)
  PROVE  IndexerInv'
<1>1. /\ UNCHANGED <<chain, mirrorVars, rows, checkpoint, sync, poll, reconciler,
                     finalizer>>
      /\ retry[w] # <<>> /\ retry' = [retry EXCEPT ![w] = Tail(@)]
  BY DEF RetryNext
<1>2. Growth /\ ChainOK' /\ StoredRow' = StoredRow
  BY <1>1, Still DEF mirrorVars
<1>3. MirrorOK'
  BY <1>1, <1>2, Kept DEF MirrorOK, mirrorVars
<1> PICK S, h, s : S = [id : Nat, row : StoredRow] /\ h = Head(retry[w]) /\ s = Tail(retry[w])
  OBVIOUS
<1>4. retry \in [Retriers -> Seq(S)]
  BY DEF IndexerInv, ProcessesOK, RetryOK
<1>5. s \in Seq(S) /\ h \in S
  <2>1. retry[w] \in Seq(S)
    BY <1>4
  <2> QED BY <1>1, <2>1, TailType
<1>6. RetryOK'
  <2>1. retry' = [retry EXCEPT ![w] = s]
    BY <1>1, <1>4
  <2>2. s \in Seq([id : Nat, row : StoredRow])
    BY <1>5
  <2> QED BY <1>2, <2>1, <2>2, NewTodo
<1>7. WorkOK'
  <2> PICK t, id, r : t = Begin(id, r) /\ id = h.id /\ r = h.row
    OBVIOUS
  <2>1. id \in Nat /\ r \in StoredRow'
    BY <1>2, <1>5
  <2>2. t \in Task' /\ TaskSound(t)'
    BY <2>1, BeginSound
  <2> QED BY <1>2, <2>2, NewTask DEF RetryNext, Workers
<1>8. ProcessesOK'
  BY <1>1, <1>2, <1>6, <1>7, Kept DEF IndexerInv, ProcessesOK, CheckpointsOK
<1> QED BY <1>2, <1>3, <1>8 DEF IndexerInv

-----------------------------------------------------------------------------
(* The handlers. *)

(* A step that leaves the chain and every process but the workers alone. *)
LEMMA HandlerStep ==
  ASSUME IndexerInv, Growth, ChainOK', MirrorOK', WorkOK',
         UNCHANGED <<rows, checkpoint, sync, poll, retry, reconciler, finalizer>>
  PROVE  IndexerInv'
BY Kept DEF IndexerInv, ProcessesOK, CheckpointsOK

LEMMA ReadStep ==
  ASSUME IndexerInv, NEW w \in Workers, Read(w)
  PROVE  IndexerInv'
<1>1. /\ UNCHANGED <<chain, mirrorVars, rows, checkpoint, sync, poll, retry,
                     reconciler, finalizer>>
      /\ work[w].stage = "read"
  BY DEF Read
<1>2. Growth /\ ChainOK'
  BY <1>1, Still DEF mirrorVars
<1>3. MirrorOK'
  BY <1>1, <1>2, Kept DEF MirrorOK, mirrorVars
<1>4. WorkOK'
  <2>1. CASE HasHandler(w) /\ Relevant(Handled(w))
    <3> PICK copy, e, t, S :
          /\ copy = event
          /\ e = Handled(w)
          /\ S = (IF e.type = "EventFinalized" THEN Users ELSE {})
          /\ t = [work[w] EXCEPT !.stage = "first", !.event = copy, !.entries = S]
      OBVIOUS
    <3>1. /\ work[w] \in Task /\ work[w].row \in StoredRow
          /\ work[w].row.ledger \in Ledger /\ e \in ContractEvent
      BY <1>1, AtWork
    <3>2. work[w] \in Task' /\ work[w].row \in StoredRow'
      BY <1>2, <3>1, GrowingChain DEF IndexerInv
    <3>3. copy \in Event \cup {None} /\ S \subseteq Users
      BY DEF IndexerInv, MirrorOK, EventOK
    <3>4. /\ t \in Task'
          /\ t.stage = "first" /\ t.row = work[w].row /\ t.event = copy
      BY <3>2, <3>3 DEF Task
    <3>5. chain'[t.row.ledger] = e
      BY <1>1, <3>4 DEF Handled
    <3>6. e.type \in Carriers => copy \in Event /\ Honest(copy)'
      <4> SUFFICES ASSUME e.type \in Carriers PROVE copy \in Event /\ Honest(copy)'
        OBVIOUS
      <4>1. copy # None
        BY <2>1 DEF Relevant, Carriers
      <4>2. copy \in Event
        BY <3>3, <4>1
      <4>3. Honest(copy)
        BY <4>1 DEF IndexerInv, MirrorOK, EventOK
      <4> QED BY <1>2, <4>2, <4>3, HonestStays DEF IndexerInv
    <3>7. e.type = "MatchResult" => e.match \in Listed'
      BY <1>1, <2>1, <3>1, EventKinds DEF Relevant, Listed, mirrorVars
    <3>8. TaskSound(t)'
      BY <3>2, <3>4, <3>5, <3>6, <3>7 DEF TaskSound
    <3>9. work' = [work EXCEPT ![w] = t]
      <4>1. work' = [work EXCEPT ![w].stage = "first", ![w].event = copy,
                       ![w].entries = S]
        BY <2>1 DEF Read
      <4>2. work \in [Workers -> Task]
        BY DEF IndexerInv, ProcessesOK, WorkOK
      <4> QED BY <4>1, <4>2
    <3> QED BY <1>2, <3>4, <3>8, <3>9, NewTask
  <2>2. CASE Stage(w, "done")
    BY <1>1, <1>2, <2>2, Through
  <2> QED BY <2>1, <2>2 DEF Read
<1> QED BY <1>1, <1>2, <1>3, <1>4, HandlerStep

LEMMA CreateStep ==
  ASSUME IndexerInv, NEW w \in Workers, work[w].stage = "first", Create(w),
         UNCHANGED <<chain, rows, checkpoint, sync, poll, retry, reconciler, finalizer>>
  PROVE  IndexerInv'
<1>1. Growth /\ ChainOK'
  BY Still DEF Create
<1>2. WorkOK'
  BY <1>1, Through DEF Create
<1>3. Emitted(TypedEvent("EventCreated"))
  BY AtWork, EventKinds DEF Create
<1>4. EventOK'
  <2> PICK e : e = [finalized |-> FALSE, cancelled |-> FALSE, matchCount |-> 0]
    OBVIOUS
  <2>1. e \in Event /\ event' = e
    BY DEF Event, Create
  <2>2. Cardinality(Listed') \in Nat
    BY ListedFinite DEF Listed
  <2>3. Honest(e)'
    BY <1>1, <1>3, <2>2, GrowingChain DEF IndexerInv, Honest, TypedEvent
  <2>4. Honest(event)'
    BY <2>1, <2>3 DEF Honest
  <2> QED BY <2>1, <2>4 DEF EventOK
<1>5. MirrorOK'
  BY <1>1, <1>4, Kept DEF Create, MirrorOK
<1> QED BY <1>1, <1>2, <1>5, HandlerStep

LEMMA AddMatchStep ==
  ASSUME IndexerInv, NEW w \in Workers, work[w].stage = "first", AddMatch(w),
         UNCHANGED <<chain, rows, checkpoint, sync, poll, retry, reconciler, finalizer>>
  PROVE  IndexerInv'
<1> PICK m : m = Handled(w).match
  OBVIOUS
<1>1. /\ work[w] \in Task /\ TaskSound(work[w])
      /\ work[w].row \in StoredRow /\ work[w].row.ledger \in Ledger
      /\ m \in Matches /\ Handled(w) \in ContractEvent
      /\ Emitted(MatchEvent("MatchAdded", m))
  BY AtWork, EventKinds DEF AddMatch
<1>2. /\ matches[m] = "none" /\ matches' = [matches EXCEPT ![m] = "open"]
      /\ matches \in [Matches -> {"none", "open", "decided"}]
  BY DEF AddMatch, Unlisted, IndexerInv, MirrorOK, MatchesOK
<1>3. Listed' = Listed \cup {m} /\ m \notin Listed /\ Decided' = Decided
  BY <1>1, <1>2 DEF Listed, Decided
<1>4. Growth /\ ChainOK'
  BY <1>3 DEF Growth, IndexerInv, ChainOK
<1>5. MatchesOK'
  <2>1. \A x \in Listed' : Emitted(MatchEvent("MatchAdded", x))'
    BY <1>1, <1>3, <1>4, GrowingChain
    DEF IndexerInv, MirrorOK, MatchesOK, MatchEvent
  <2>2. \A x \in Decided' : Emitted(MatchEvent("MatchResult", x))'
    BY <1>3, <1>4, GrowingChain DEF IndexerInv, MirrorOK, MatchesOK, MatchEvent
  <2> QED BY <1>2, <2>1, <2>2 DEF MatchesOK
<1>6. MirrorOK'
  BY <1>4, <1>5, Kept DEF AddMatch, MirrorOK
<1>7. WorkOK'
  <2> PICK t, e : t = [work[w] EXCEPT !.stage = "second"] /\ e = Handled(w)
    OBVIOUS
  <2>1. work[w] \in Task' /\ work[w].row \in StoredRow'
    BY <1>1, <1>4, GrowingChain DEF IndexerInv
  <2>2. /\ t \in Task'
        /\ t.stage = "second" /\ t.row = work[w].row /\ t.event = work[w].event
    BY <2>1 DEF Task
  <2>3. chain'[t.row.ledger] = e /\ e.type = "MatchAdded"
    BY <1>1, <2>2 DEF Handled, AddMatch
  <2>4. t.event \in Event /\ Honest(t.event)
    BY <1>1, <2>2, <2>3 DEF TaskSound, Carriers, Handled
  <2>5. Honest(t.event)'
    BY <1>4, <2>4, HonestStays DEF IndexerInv
  <2>6. t.event.matchCount + 1 <= Cardinality(Listed')
    <3>1. t.event.matchCount \in Nat /\ t.event.matchCount <= Cardinality(Listed)
      BY <2>4 DEF Event, Honest
    <3>2. /\ Cardinality(Listed) \in Nat /\ Cardinality(Listed') \in Nat
          /\ Cardinality(Listed) + 1 <= Cardinality(Listed')
      <4>1. /\ Listed \in SUBSET Matches /\ Listed' \in SUBSET Matches
            /\ Listed \subseteq Listed' /\ Listed # Listed'
        BY <1>3 DEF Listed
      <4> QED BY <4>1, ListedFinite
    <3> QED BY <3>1, <3>2
  <2>7. TaskSound(t)'
    BY <2>1, <2>2, <2>3, <2>4, <2>5, <2>6 DEF TaskSound
  <2> QED BY <1>4, <2>2, <2>7, NewTask DEF AddMatch, Stage
<1> QED BY <1>4, <1>6, <1>7, HandlerStep

(* The copy a handler of a carrier holds. *)
LEMMA CopyHonest ==
  ASSUME IndexerInv, NEW w \in Workers, work[w].stage \in {"first", "second"},
         Handled(w).type \in Carriers
  PROVE  work[w].event \in Event /\ Honest(work[w].event)
<1>1. TaskSound(work[w])
  BY AtWork
<1> QED BY <1>1 DEF TaskSound, Handled

LEMMA SaveCopyStep ==
  ASSUME IndexerInv, NEW w \in Workers, work[w].stage = "first",
         Join(w) \/ MarkCancelled(w),
         UNCHANGED <<chain, rows, checkpoint, sync, poll, retry, reconciler, finalizer>>
  PROVE  IndexerInv'
<1>1. Growth /\ ChainOK'
  BY Still DEF Join, MarkCancelled
<1>2. WorkOK'
  BY <1>1, Through DEF Join, MarkCancelled
<1> PICK c : c = work[w].event
  OBVIOUS
<1>3. c \in Event /\ Honest(c)
  BY CopyHonest DEF Join, MarkCancelled, Carriers
<1>4. Honest(c)'
  BY <1>1, <1>3, HonestStays DEF IndexerInv
<1>5. EventOK'
  <2>1. CASE Join(w)
    <3>1. event' = c
      BY <2>1 DEF Join
    <3> QED BY <1>3, <1>4, <3>1 DEF EventOK, Honest
  <2>2. CASE MarkCancelled(w)
    <3>1. Emitted(TypedEvent("EventCancelled"))
      BY <2>2, AtWork, EventKinds DEF MarkCancelled
    <3>2. Emitted(TypedEvent("EventCancelled"))'
      BY <1>1, <3>1, GrowingChain DEF IndexerInv, TypedEvent
    <3> PICK d : d = [c EXCEPT !.cancelled = TRUE]
      OBVIOUS
    <3>3. /\ d \in Event /\ event' = d
          /\ d.finalized = c.finalized /\ d.matchCount = c.matchCount
      BY <1>3, <2>2 DEF Event, MarkCancelled
    <3>4. Honest(d)'
      BY <1>4, <3>2, <3>3 DEF Honest
    <3>5. Honest(event)'
      BY <3>3, <3>4 DEF Honest
    <3> QED BY <3>3, <3>5 DEF EventOK
  <2> QED BY <2>1, <2>2
<1>6. MirrorOK'
  BY <1>1, <1>5, Kept DEF Join, MarkCancelled, MirrorOK
<1> QED BY <1>1, <1>2, <1>6, HandlerStep

LEMMA AddPredictionStep ==
  ASSUME IndexerInv, NEW w \in Workers, work[w].stage = "first", AddPrediction(w),
         UNCHANGED <<chain, rows, checkpoint, sync, poll, retry, reconciler, finalizer>>
  PROVE  IndexerInv'
<1>1. Growth /\ ChainOK'
  BY Still DEF AddPrediction
<1>2. WorkOK'
  BY <1>1, Through DEF AddPrediction
<1> PICK p : p = <<Handled(w).match, Handled(w).user>>
  OBVIOUS
<1>3. p \in Matches \X Users /\ Emitted(Submitted(p))
  BY AtWork, EventKinds DEF AddPrediction
<1>4. predictions' = [predictions EXCEPT ![p] = "open"]
  BY DEF AddPrediction
<1>5. /\ predictions \in [Matches \X Users -> {"none", "open", "graded"}]
      /\ \A q \in Matches \X Users :
           /\ predictions[q] # "none" => Emitted(Submitted(q))
           /\ predictions[q] = "graded" => q[1] \in Decided
  BY DEF IndexerInv, MirrorOK, PredictionsOK
<1>6. PredictionsOK'
  <2>1. \A q \in Matches \X Users :
          /\ predictions'[q] # "none" => Emitted(Submitted(q))'
          /\ predictions'[q] = "graded" => q[1] \in Decided'
    BY <1>1, <1>3, <1>4, <1>5, GrowingChain DEF IndexerInv, Growth, Submitted
  <2> QED BY <1>4, <1>5, <2>1 DEF PredictionsOK
<1>7. MirrorOK'
  BY <1>1, <1>6, Kept DEF AddPrediction, MirrorOK
<1> QED BY <1>1, <1>2, <1>7, HandlerStep

LEMMA SetResultStep ==
  ASSUME IndexerInv, NEW w \in Workers, work[w].stage = "first", SetResult(w),
         UNCHANGED <<chain, rows, checkpoint, sync, poll, retry, reconciler, finalizer>>
  PROVE  IndexerInv'
<1> PICK m : m = Handled(w).match
  OBVIOUS
<1>1. /\ work[w] \in Task /\ TaskSound(work[w])
      /\ work[w].row \in StoredRow /\ work[w].row.ledger \in Ledger
      /\ m \in Matches /\ Handled(w) \in ContractEvent
      /\ Emitted(MatchEvent("MatchResult", m))
  BY AtWork, EventKinds DEF SetResult
<1>2. /\ matches' = [matches EXCEPT ![m] = "decided"]
      /\ matches \in [Matches -> {"none", "open", "decided"}]
  BY DEF SetResult, IndexerInv, MirrorOK, MatchesOK
<1>3. m \in Listed
  BY <1>1 DEF TaskSound, SetResult, Handled
<1>4. Listed' = Listed /\ Decided' = Decided \cup {m}
  BY <1>2, <1>3 DEF Listed, Decided
<1>5. Growth /\ ChainOK'
  BY <1>4 DEF Growth, IndexerInv, ChainOK
<1>6. MatchesOK'
  <2>1. \A x \in Listed' : Emitted(MatchEvent("MatchAdded", x))'
    BY <1>4, <1>5, GrowingChain DEF IndexerInv, MirrorOK, MatchesOK, MatchEvent
  <2>2. \A x \in Decided' : Emitted(MatchEvent("MatchResult", x))'
    BY <1>1, <1>4, <1>5, GrowingChain
    DEF IndexerInv, MirrorOK, MatchesOK, MatchEvent
  <2> QED BY <1>2, <2>1, <2>2 DEF MatchesOK
<1>7. MirrorOK'
  BY <1>5, <1>6, Kept DEF SetResult, MirrorOK
<1>8. WorkOK'
  <2> PICK t, e : t = [work[w] EXCEPT !.stage = "second"] /\ e = Handled(w)
    OBVIOUS
  <2>1. work[w] \in Task' /\ work[w].row \in StoredRow'
    BY <1>1, <1>5, GrowingChain DEF IndexerInv
  <2>2. t \in Task' /\ t.stage = "second" /\ t.row = work[w].row
    BY <2>1 DEF Task
  <2>3. chain'[t.row.ledger] = e /\ e.type = "MatchResult" /\ e.match = m
    BY <1>1, <2>2 DEF Handled, SetResult
  <2>4. e.match \in Listed' /\ e.match \in Decided'
    BY <1>3, <1>4, <2>3
  <2>5. TaskSound(t)'
    BY <2>1, <2>2, <2>3, <2>4 DEF TaskSound, Carriers
  <2> QED BY <1>5, <2>2, <2>5, NewTask DEF SetResult, Stage
<1> QED BY <1>5, <1>7, <1>8, HandlerStep

LEMMA MarkFinalizedStep ==
  ASSUME IndexerInv, NEW w \in Workers, work[w].stage = "first", MarkFinalized(w),
         UNCHANGED <<chain, rows, checkpoint, sync, poll, retry, reconciler, finalizer>>
  PROVE  IndexerInv'
<1>1. Growth /\ ChainOK'
  BY Still DEF MarkFinalized
<1> PICK c : c = work[w].event
  OBVIOUS
<1>2. c \in Event /\ Honest(c)
  BY CopyHonest DEF MarkFinalized, Carriers
<1>3. Honest(c)'
  BY <1>1, <1>2, HonestStays DEF IndexerInv
<1>4. EventOK'
  <2>1. CASE event' = event
    BY <1>1, <2>1, Kept
  <2>2. CASE event' # event
    <3>1. Emitted(TypedEvent("EventFinalized"))
      BY AtWork, EventKinds DEF MarkFinalized
    <3>2. Emitted(TypedEvent("EventFinalized"))'
      BY <1>1, <3>1, GrowingChain DEF IndexerInv, TypedEvent
    <3> PICK d : d = [c EXCEPT !.finalized = TRUE]
      OBVIOUS
    <3>3. /\ d \in Event /\ event' = d
          /\ d.cancelled = c.cancelled /\ d.matchCount = c.matchCount
      BY <1>2, <2>2 DEF Event, MarkFinalized
    <3>4. Honest(d)'
      BY <1>3, <3>2, <3>3 DEF Honest
    <3>5. Honest(event)'
      BY <3>3, <3>4 DEF Honest
    <3> QED BY <3>3, <3>5 DEF EventOK
  <2> QED BY <2>1, <2>2
<1>5. WorkOK'
  <2> PICK t, e : t = [work[w] EXCEPT !.stage = "second"] /\ e = Handled(w)
    OBVIOUS
  <2>1. work[w] \in Task /\ work[w].row \in StoredRow
    BY AtWork
  <2>2. work[w] \in Task' /\ work[w].row \in StoredRow'
    BY <1>1, <2>1, GrowingChain DEF IndexerInv
  <2>3. t \in Task' /\ t.stage = "second" /\ t.row = work[w].row /\ t.event = c
    BY <2>2 DEF Task
  <2>4. chain'[t.row.ledger] = e /\ e.type = "EventFinalized"
    BY <2>3 DEF Handled, MarkFinalized
  <2>5. TaskSound(t)'
    BY <1>2, <1>3, <2>2, <2>3, <2>4 DEF TaskSound
  <2> QED BY <1>1, <2>3, <2>5, NewTask DEF MarkFinalized, Stage
<1>6. MirrorOK'
  BY <1>1, <1>4, Kept DEF MarkFinalized, MirrorOK
<1> QED BY <1>1, <1>5, <1>6, HandlerStep

LEMMA FirstWriteStep ==
  ASSUME IndexerInv, NEW w \in Workers, FirstWrite(w)
  PROVE  IndexerInv'
BY CreateStep, AddMatchStep, SaveCopyStep, AddPredictionStep, SetResultStep,
   MarkFinalizedStep
DEF FirstWrite

LEMMA CountMatchStep ==
  ASSUME IndexerInv, NEW w \in Workers, work[w].stage = "second", CountMatch(w),
         UNCHANGED <<chain, rows, checkpoint, sync, poll, retry, reconciler, finalizer>>
  PROVE  IndexerInv'
<1>1. Growth /\ ChainOK' /\ Listed' = Listed
  BY Still DEF CountMatch, Listed
<1>2. WorkOK'
  BY <1>1, Through DEF CountMatch
<1> PICK c, d : c = work[w].event /\ d = [c EXCEPT !.matchCount = c.matchCount + 1]
  OBVIOUS
<1>3. c \in Event /\ Honest(c)
  BY CopyHonest DEF CountMatch, Carriers
<1>4. Honest(c)'
  BY <1>1, <1>3, HonestStays DEF IndexerInv
<1>5. c.matchCount + 1 <= Cardinality(Listed)
  BY AtWork DEF TaskSound, Handled, CountMatch
<1>6. /\ d \in Event /\ event' = d
      /\ d.finalized = c.finalized /\ d.cancelled = c.cancelled
      /\ d.matchCount = c.matchCount + 1
  BY <1>3 DEF Event, CountMatch
<1>7. Honest(d)'
  BY <1>1, <1>4, <1>5, <1>6 DEF Honest
<1>8. Honest(event)'
  BY <1>6, <1>7 DEF Honest
<1>9. MirrorOK'
  BY <1>1, <1>6, <1>8, Kept DEF CountMatch, MirrorOK, EventOK
<1> QED BY <1>1, <1>2, <1>9, HandlerStep

LEMMA GradePredictionsStep ==
  ASSUME IndexerInv, NEW w \in Workers, work[w].stage = "second", GradePredictions(w),
         UNCHANGED <<chain, rows, checkpoint, sync, poll, retry, reconciler, finalizer>>
  PROVE  IndexerInv'
<1>1. Growth /\ ChainOK'
  BY Still DEF GradePredictions
<1>2. WorkOK'
  BY <1>1, Through DEF GradePredictions
<1> PICK m : m = Handled(w).match
  OBVIOUS
<1>3. m \in Decided
  BY AtWork DEF TaskSound, Handled, GradePredictions
<1>4. /\ predictions \in [Matches \X Users -> {"none", "open", "graded"}]
      /\ \A q \in Matches \X Users :
           /\ predictions[q] # "none" => Emitted(Submitted(q))
           /\ predictions[q] = "graded" => q[1] \in Decided
  BY DEF IndexerInv, MirrorOK, PredictionsOK
<1>5. predictions' = [p \in Matches \X Users |->
                        IF p[1] = m /\ predictions[p] = "open"
                        THEN "graded" ELSE predictions[p]]
  BY <1>4 DEF GradePredictions
<1>6. \A q \in Matches \X Users :
        /\ predictions'[q] # "none" => Emitted(Submitted(q))'
        /\ predictions'[q] = "graded" => q[1] \in Decided'
  BY <1>1, <1>3, <1>4, <1>5, GrowingChain DEF IndexerInv, Growth, Submitted
<1>7. PredictionsOK'
  <2>1. predictions' \in [Matches \X Users -> {"none", "open", "graded"}]
    BY <1>4, <1>5
  <2> QED BY <1>6, <2>1 DEF PredictionsOK
<1>8. MirrorOK'
  BY <1>1, <1>7, Kept DEF GradePredictions, MirrorOK
<1> QED BY <1>1, <1>2, <1>8, HandlerStep

LEMMA PayoutStep ==
  ASSUME IndexerInv, NEW w \in Workers, work[w].stage = "second",
         NEW u \in Users, NEW ok \in BOOLEAN, ProcessLeaderboardEntry(w, u, ok),
         UNCHANGED <<chain, rows, checkpoint, sync, poll, retry, reconciler, finalizer>>
  PROVE  IndexerInv'
<1>1. Growth /\ ChainOK'
  BY Still DEF ProcessLeaderboardEntry
<1>2. Emitted(TypedEvent("EventFinalized"))
  BY AtWork, EventKinds DEF ProcessLeaderboardEntry
<1>3. PayoutsOK'
  BY <1>1, <1>2, GrowingChain
  DEF IndexerInv, MirrorOK, PayoutsOK, ProcessLeaderboardEntry, TypedEvent
<1>4. MirrorOK'
  BY <1>1, <1>3, Kept DEF ProcessLeaderboardEntry, MirrorOK
<1>5. WorkOK'
  <2> PICK s, S, t, e :
        /\ s = (IF work[w].entries = {u} THEN "done" ELSE "second")
        /\ S = work[w].entries \ {u}
        /\ t = [work[w] EXCEPT !.entries = S, !.stage = s]
        /\ e = Handled(w)
    OBVIOUS
  <2>1. work[w] \in Task /\ work[w].row \in StoredRow /\ TaskSound(work[w])
    BY AtWork
  <2>2. work[w] \in Task' /\ work[w].row \in StoredRow'
    BY <1>1, <2>1, GrowingChain DEF IndexerInv
  <2>3. S \subseteq Users /\ s \in {"second", "done"}
    BY <2>2 DEF Task
  <2>4. /\ t \in Task' /\ t.stage = s
        /\ t.row = work[w].row /\ t.event = work[w].event
    BY <2>2, <2>3 DEF Task
  <2>5. chain'[t.row.ledger] = e /\ e.type = "EventFinalized"
    BY <2>4 DEF Handled, ProcessLeaderboardEntry
  <2>6. t.event \in Event /\ Honest(t.event)
    BY <2>4, <2>5, CopyHonest DEF Carriers
  <2>7. Honest(t.event)'
    BY <1>1, <2>6, HonestStays DEF IndexerInv
  <2>8. TaskSound(t)'
    BY <2>2, <2>3, <2>4, <2>5, <2>6, <2>7 DEF TaskSound
  <2>9. work' = [work EXCEPT ![w] = t]
    <3>1. work' = [work EXCEPT ![w].entries = S, ![w].stage = s]
      BY DEF ProcessLeaderboardEntry
    <3>2. work \in [Workers -> Task]
      BY DEF IndexerInv, ProcessesOK, WorkOK
    <3> QED BY <3>1, <3>2
  <2> QED BY <1>1, <2>4, <2>8, <2>9, NewTask
<1> QED BY <1>1, <1>4, <1>5, HandlerStep

LEMMA SecondWriteStep ==
  ASSUME IndexerInv, NEW w \in Workers, SecondWrite(w)
  PROVE  IndexerInv'
BY CountMatchStep, GradePredictionsStep, PayoutStep DEF SecondWrite

-----------------------------------------------------------------------------
(* The end of a task; the reconciler, the finalizer and restarts. *)

LEMMA TailAnyType ==
  ASSUME NEW S, NEW s \in Seq(S)
  PROVE  Tail(s) \in Seq(S)
<1>1. CASE s = <<>>
  BY <1>1
<1>2. CASE s # <<>>
  BY <1>2
<1> QED BY <1>1, <1>2

(* Any row saved over another is a row. *)
LEMMA RowSaved ==
  ASSUME NEW S, NEW s \in Seq(S), NEW i, NEW x \in S
  PROVE  [s EXCEPT ![i] = x] \in Seq(S)
<1>1. Len(s) \in Nat /\ s \in [1..Len(s) -> S]
  OBVIOUS
<1>2. [s EXCEPT ![i] = x] \in [1..Len(s) -> S]
  BY <1>1
<1> QED BY <1>1, <1>2, FunctionIsSeq

LEMMA AppendType ==
  ASSUME NEW S, NEW s \in Seq(S), NEW x \in S
  PROVE  Append(s, x) \in Seq(S)
OBVIOUS

LEMMA TaskEnds ==
  ASSUME IndexerInv, NEW w \in Workers, Succeed(w) \/ Throw(w)
  PROVE  IndexerInv'
<1>1. /\ UNCHANGED <<chain, mirrorVars, checkpoint, sync, retry, reconciler, finalizer>>
      /\ work' = [work EXCEPT ![w] = NoWork]
      /\ NextInBatch(w)
      /\ work[w].stage # "idle"
  BY DEF Succeed, Throw
<1>2. Growth /\ ChainOK' /\ Ledger' = Ledger /\ StoredRow' = StoredRow
  BY <1>1, Still DEF mirrorVars
<1>3. MirrorOK'
  BY <1>1, <1>2, Kept DEF MirrorOK, mirrorVars
<1>4. WorkOK'
  BY <1>1, <1>2, Rest
<1>5. PollOK'
  <2>1. poll \in [active : BOOLEAN, batch : Seq(Ledger), latest : Nat, saved : BOOLEAN]
    BY DEF IndexerInv, ProcessesOK, PollOK
  <2>2. Tail(poll.batch) \in Seq(Ledger)
    BY <2>1, TailAnyType
  <2> QED BY <1>1, <1>2, <2>1, <2>2 DEF NextInBatch, PollOK
<1>6. RowsOK'
  <2>1. work[w].row \in StoredRow /\ rows \in Seq(StoredRow)
    BY <1>1, AtWork DEF IndexerInv, ProcessesOK, RowsOK
  <2> PICK i, r, n : i = work[w].id /\ r = work[w].row /\ n = r.retries + 1
    OBVIOUS
  <2>2. r \in StoredRow /\ n \in Nat
    BY <2>1 DEF StoredRow
  <2>3. CASE Succeed(w)
    <3> PICK x : x = [r EXCEPT !.status = "processed"]
      OBVIOUS
    <3>1. x \in StoredRow /\ rows' = [rows EXCEPT ![i] = x]
      BY <2>2, <2>3 DEF StoredRow, Succeed
    <3> QED BY <1>2, <2>1, <3>1, RowSaved DEF RowsOK
  <2>4. CASE Throw(w)
    <3> PICK s, x : /\ s = (IF n >= MaxRetries THEN "dlq" ELSE "failed")
                    /\ x = [r EXCEPT !.retries = n, !.status = s]
      OBVIOUS
    <3>1. x \in StoredRow
      BY <2>2 DEF StoredRow
    <3>2. rows' = rows \/ rows' = [rows EXCEPT ![i] = x]
      BY <2>4 DEF Throw
    <3> QED BY <1>2, <2>1, <3>1, <3>2, RowSaved DEF RowsOK
  <2> QED BY <1>1, <2>3, <2>4
<1>7. ProcessesOK'
  BY <1>1, <1>2, <1>4, <1>5, <1>6, Kept DEF IndexerInv, ProcessesOK, CheckpointsOK
<1> QED BY <1>2, <1>3, <1>7 DEF IndexerInv

LEMMA ReconcileStartStep ==
  ASSUME IndexerInv, NEW ok \in BOOLEAN, ReconcileStart(ok)
  PROVE  IndexerInv'
<1>1. UNCHANGED <<chain, mirrorVars, rows, checkpoint, sync, poll, work, retry, finalizer>>
  BY DEF ReconcileStart
<1>2. Growth /\ ChainOK' /\ Ledger' = Ledger
  BY <1>1, Still DEF mirrorVars
<1>3. MirrorOK'
  BY <1>1, <1>2, Kept DEF MirrorOK, mirrorVars
<1>4. ReconcilerOK'
  <2> DEFINE to == IF sync >= Len(chain) THEN sync
                   ELSE IF sync + Window < Len(chain) THEN sync + Window ELSE Len(chain)
             last == IF sync + PageSize < to THEN sync + PageSize ELSE to
             todo == IF ok THEN Ledgers(sync + 1, last) ELSE <<>>
  <2>1. sync \in Nat /\ Len(chain) \in Nat /\ PageSize \in Nat \ {0} /\ Window \in Nat
    BY IndexerAssumption
    DEF IndexerInv, ProcessesOK, CheckpointsOK, ChainOK, IndexerAssumption
  <2>2. to \in Nat /\ last \in Nat
    BY <2>1
  <2>3. Ledgers(sync + 1, last) \in Seq(Ledger)
    <3>1. CASE sync >= Len(chain)
      <4>1. last = sync
        BY <2>1, <3>1
      <4>2. 1..(last - (sync + 1) + 1) = 1..0
        BY <2>1, <4>1
      <4> HIDE DEF last
      <4>3. Ledgers(sync + 1, last) = [i \in 1..0 |-> sync + 1 + i - 1]
        BY <4>2 DEF Ledgers
      <4>4. [i \in 1..0 |-> sync + 1 + i - 1] \in [1..0 -> Ledger]
        OBVIOUS
      <4> QED BY <4>3, <4>4, FunctionIsSeq
    <3>2. CASE sync < Len(chain)
      <4>1. last <= Len(chain)
        BY <2>1, <3>2
      <4>2. sync + 1 \in Nat \ {0} /\ last \in Int
        BY <2>1, <2>2
      <4> HIDE DEF last
      <4> QED BY <2>1, <4>1, <4>2, LedgersType DEF Ledger
    <3> QED BY <2>1, <3>1, <3>2
  <2>4. todo \in Seq(Ledger)
    BY <2>3
  <2>5. reconciler' = [stage |-> "backfill", indexed |-> to, todo |-> todo]
    BY DEF ReconcileStart
  <2> HIDE DEF to, last, todo
  <2> QED BY <1>2, <2>2, <2>4, <2>5 DEF ReconcilerOK
<1>5. ProcessesOK'
  BY <1>1, <1>2, <1>4, Kept DEF IndexerInv, ProcessesOK, CheckpointsOK
<1> QED BY <1>2, <1>3, <1>5 DEF IndexerInv

LEMMA ReconcileWriteStep ==
  ASSUME IndexerInv, Backfill \/ ReconcileSave
  PROVE  IndexerInv'
<1>1. UNCHANGED <<chain, mirrorVars, checkpoint, poll, work, retry, finalizer>>
  BY DEF Backfill, ReconcileSave
<1>2. Growth /\ ChainOK' /\ Ledger' = Ledger /\ StoredRow' = StoredRow
  BY <1>1, Still DEF mirrorVars
<1>3. MirrorOK'
  BY <1>1, <1>2, Kept DEF MirrorOK, mirrorVars
<1>4. /\ reconciler \in [stage : {"idle", "backfill"}, indexed : Nat, todo : Seq(Ledger)]
      /\ rows \in Seq(StoredRow)
      /\ Tail(reconciler.todo) \in Seq(Ledger)
  BY TailAnyType DEF IndexerInv, ProcessesOK, ReconcilerOK, RowsOK
<1>5. RowsOK' /\ ReconcilerOK' /\ CheckpointsOK'
  <2>1. CASE Backfill
    <3>1. ReconcilerOK'
      BY <1>2, <1>4, <2>1 DEF Backfill, ReconcilerOK
    <3>2. CheckpointsOK'
      BY <2>1 DEF Backfill, IndexerInv, ProcessesOK, CheckpointsOK
    <3> PICK x : x = [ledger |-> Head(reconciler.todo), known |-> FALSE, retries |-> 0,
                      status |-> "pending"]
      OBVIOUS
    <3>3. x \in StoredRow
      <4>1. Head(reconciler.todo) \in Ledger
        BY <1>4, <2>1, TailType DEF Backfill
      <4> QED BY <4>1 DEF StoredRow
    <3>4. rows' = rows \/ rows' = Append(rows, x)
      BY <2>1 DEF Backfill
    <3>5. RowsOK'
      <4>1. rows \in Seq(StoredRow)
        BY <1>4
      <4>2. Append(rows, x) \in Seq(StoredRow)
        BY <3>3, <4>1, AppendType
      <4> QED BY <1>2, <3>4, <4>1, <4>2 DEF RowsOK
    <3> QED BY <3>1, <3>2, <3>5
  <2>2. CASE ReconcileSave
    <3>1. NoRun \in [stage : {"idle", "backfill"}, indexed : Nat, todo : Seq(Ledger')]
      BY DEF NoRun
    <3>2. ReconcilerOK'
      BY <2>2, <3>1 DEF ReconcileSave, ReconcilerOK
    <3>3. CheckpointsOK'
      BY <1>4, <2>2 DEF ReconcileSave, IndexerInv, ProcessesOK, CheckpointsOK
    <3> QED BY <1>2, <2>2, <3>2, <3>3, Kept DEF ReconcileSave
  <2> QED BY <2>1, <2>2
<1>6. ProcessesOK'
  BY <1>1, <1>2, <1>5, Kept DEF ProcessesOK
<1> QED BY <1>2, <1>3, <1>6 DEF IndexerInv

LEMMA NoTickSound == NoTick \in TickRun /\ TickSound(NoTick)'
BY DEF NoTick, TickRun, TickSound

(* One run of the finalizer changes. *)
LEMMA NewTick ==
  ASSUME IndexerInv, Growth, NEW t \in Ticks, NEW f \in TickRun, TickSound(f)',
         finalizer' = [finalizer EXCEPT ![t] = f]
  PROVE  FinalizerOK'
<1>1. finalizer \in [Ticks -> TickRun] /\ \A x \in Ticks : TickSound(finalizer[x])
  BY DEF IndexerInv, ProcessesOK, FinalizerOK
<1>2. finalizer' \in [Ticks -> TickRun]
  BY <1>1
<1>3. \A x \in Ticks : TickSound(finalizer[x])'
  <2> SUFFICES ASSUME NEW x \in Ticks PROVE TickSound(finalizer[x])'
    OBVIOUS
  <2>1. CASE x = t
    <3>1. finalizer'[x] = f
      BY <1>1, <2>1
    <3> QED BY <3>1 DEF TickSound
  <2>2. CASE x # t
    <3> PICK g : g = finalizer[x]
      OBVIOUS
    <3>1. finalizer'[x] = g /\ TickSound(g)
      BY <1>1, <2>2
    <3>2. TickSound(g)'
      BY <3>1, TickStays DEF IndexerInv
    <3> QED BY <3>1, <3>2 DEF TickSound
  <2> QED BY <2>1, <2>2
<1> QED BY <1>2, <1>3 DEF FinalizerOK

LEMMA AtTick ==
  ASSUME IndexerInv, NEW t \in Ticks, finalizer[t].stage # "idle"
  PROVE  /\ finalizer[t] \in TickRun
         /\ finalizer[t].event \in Event /\ Honest(finalizer[t].event)
         /\ finalizer[t].stage = "save" => Emitted(TypedEvent("EventFinalized"))
BY DEF IndexerInv, ProcessesOK, FinalizerOK, TickSound

(* A run reads the row, or goes on to the call, or ends.                    *)
LEMMA FinalizerTickStep ==
  ASSUME IndexerInv, NEW t \in Ticks, FinalizerTick(t) \/ AreAllMatchesResolved(t)
  PROVE  IndexerInv'
<1>1. UNCHANGED <<chain, mirrorVars, rows, checkpoint, sync, poll, work, retry, reconciler>>
  BY DEF FinalizerTick, AreAllMatchesResolved
<1>2. Growth /\ ChainOK'
  BY <1>1, Still DEF mirrorVars
<1>3. MirrorOK'
  BY <1>1, <1>2, Kept DEF MirrorOK, mirrorVars
<1>4. FinalizerOK'
  <2>1. CASE FinalizerTick(t)
    <3> PICK c, f : c = event /\ f = [stage |-> "check", event |-> c]
      OBVIOUS
    <3>1. c \in Event /\ Honest(c)
      BY <2>1 DEF FinalizerTick, IndexerInv, MirrorOK, EventOK
    <3>2. f.stage = "check" /\ f.event = c /\ f \in TickRun
      BY <3>1 DEF TickRun
    <3>3. finalizer' = [finalizer EXCEPT ![t] = f]
      BY <2>1 DEF FinalizerTick
    <3>4. Honest(c)'
      BY <1>2, <3>1, HonestStays DEF IndexerInv
    <3>5. TickSound(f)'
      BY <3>1, <3>2, <3>4 DEF TickSound
    <3> QED BY <1>2, <3>2, <3>3, <3>5, NewTick
  <2>2. CASE AreAllMatchesResolved(t)
    <3> PICK c, f : c = finalizer[t].event /\ f = [finalizer[t] EXCEPT !.stage = "call"]
      OBVIOUS
    <3>1. finalizer[t] \in TickRun /\ c \in Event /\ Honest(c)
      BY <2>2, AtTick DEF AreAllMatchesResolved
    <3>2. f.stage = "call" /\ f.event = c /\ f \in TickRun
      BY <3>1 DEF TickRun
    <3>3. \/ finalizer' = [finalizer EXCEPT ![t] = f]
          \/ finalizer' = [finalizer EXCEPT ![t] = NoTick]
      BY <2>2 DEF AreAllMatchesResolved, IndexerInv, ProcessesOK, FinalizerOK
    <3>4. Honest(c)'
      BY <1>2, <3>1, HonestStays DEF IndexerInv
    <3>5. TickSound(f)'
      BY <3>1, <3>2, <3>4 DEF TickSound
    <3> QED BY <1>2, <3>2, <3>3, <3>5, NoTickSound, NewTick
  <2> QED BY <2>1, <2>2
<1>5. ProcessesOK'
  BY <1>1, <1>2, <1>4, Kept DEF IndexerInv, ProcessesOK, CheckpointsOK
<1> QED BY <1>2, <1>3, <1>5 DEF IndexerInv

LEMMA FinalizeOnChainStep ==
  ASSUME IndexerInv, NEW t \in Ticks, FinalizeOnChain(t)
  PROVE  IndexerInv'
<1> PICK e : e = TypedEvent("EventFinalized")
  OBVIOUS
<1>1. /\ UNCHANGED <<mirrorVars, rows, checkpoint, sync, poll, work, retry, reconciler>>
      /\ matches' = matches /\ e \in ContractEvent
  BY DEF FinalizeOnChain, mirrorVars, TypedEvent, ContractEvent
<1> PICK accepted \in {FALSE, Possible(e)}, heard \in BOOLEAN :
      /\ chain' = IF accepted THEN Append(chain, e) ELSE chain
      /\ finalizer' = [finalizer EXCEPT ![t] =
           IF accepted /\ heard THEN [@ EXCEPT !.stage = "save"] ELSE NoTick]
  BY DEF FinalizeOnChain, MayMark
<1>2. Growth /\ ChainOK' /\ (accepted => Emitted(e)')
  <2>1. CASE accepted
    <3>1. chain' = Append(chain, e)
      BY <2>1
    <3> QED BY <1>1, <3>1, AppendGrows
  <2>2. CASE ~accepted
    <3>1. chain' = chain
      BY <2>2
    <3> QED BY <1>1, <2>2, <3>1, Still
  <2> QED BY <2>1, <2>2
<1>3. MirrorOK'
  BY <1>1, <1>2, Kept DEF MirrorOK, mirrorVars
<1>4. FinalizerOK'
  <2>1. CASE accepted /\ heard
    <3> PICK c, f : c = finalizer[t].event /\ f = [finalizer[t] EXCEPT !.stage = "save"]
      OBVIOUS
    <3>1. finalizer[t] \in TickRun /\ c \in Event /\ Honest(c)
      BY AtTick DEF FinalizeOnChain
    <3>2. Honest(c)'
      BY <1>2, <3>1, HonestStays DEF IndexerInv
    <3>3. f.stage = "save" /\ f.event = c /\ f \in TickRun
      BY <3>1 DEF TickRun
    <3>4. Emitted(TypedEvent("EventFinalized"))'
      BY <1>2, <2>1 DEF TypedEvent
    <3>5. TickSound(f)'
      BY <3>1, <3>2, <3>3, <3>4 DEF TickSound
    <3>6. finalizer' = [finalizer EXCEPT ![t] = f]
      BY <2>1 DEF IndexerInv, ProcessesOK, FinalizerOK
    <3> QED BY <1>2, <3>3, <3>5, <3>6, NewTick
  <2>2. CASE ~(accepted /\ heard)
    <3>1. finalizer' = [finalizer EXCEPT ![t] = NoTick]
      BY <2>2
    <3> QED BY <1>2, <3>1, NoTickSound, NewTick
  <2> QED BY <2>1, <2>2
<1>5. ProcessesOK'
  BY <1>1, <1>2, <1>4, Kept DEF IndexerInv, ProcessesOK, CheckpointsOK
<1> QED BY <1>2, <1>3, <1>5 DEF IndexerInv

LEMMA SaveFinalizedStep ==
  ASSUME IndexerInv, NEW t \in Ticks, SaveFinalized(t)
  PROVE  IndexerInv'
<1>1. /\ UNCHANGED <<chain, matches, predictions, payouts, rows, checkpoint, sync, poll,
                     work, retry, reconciler>>
      /\ finalizer' = [finalizer EXCEPT ![t] = NoTick]
  BY DEF SaveFinalized
<1>2. Growth /\ ChainOK'
  BY <1>1, Still
<1> PICK c, d : c = finalizer[t].event /\ d = [c EXCEPT !.finalized = TRUE]
  OBVIOUS
<1>3. c \in Event /\ Honest(c) /\ Emitted(TypedEvent("EventFinalized"))
  BY AtTick DEF SaveFinalized
<1>4. Honest(c)' /\ Emitted(TypedEvent("EventFinalized"))'
  BY <1>2, <1>3, HonestStays, GrowingChain DEF IndexerInv, TypedEvent
<1>5. /\ d \in Event /\ event' = d
      /\ d.cancelled = c.cancelled /\ d.matchCount = c.matchCount
  BY <1>3 DEF Event, SaveFinalized
<1>6. Honest(d)'
  BY <1>4, <1>5 DEF Honest
<1>7. EventOK'
  <2>1. Honest(event)'
    BY <1>5, <1>6 DEF Honest
  <2> QED BY <1>5, <2>1 DEF EventOK
<1>8. MirrorOK'
  BY <1>1, <1>2, <1>7, Kept DEF MirrorOK
<1>9. FinalizerOK'
  BY <1>1, <1>2, NoTickSound, NewTick
<1>10. ProcessesOK'
  BY <1>1, <1>2, <1>9, Kept DEF IndexerInv, ProcessesOK, CheckpointsOK
<1> QED BY <1>2, <1>8, <1>10 DEF IndexerInv

LEMMA AllIdle ==
  ASSUME work' = [w \in Workers |-> NoWork], poll' = NoPoll,
         retry' = [w \in Retriers |-> <<>>], reconciler' = NoRun,
         finalizer' = [t \in Ticks |-> NoTick]
  PROVE  WorkOK' /\ PollOK' /\ RetryOK' /\ ReconcilerOK' /\ FinalizerOK'
<1>1. WorkOK'
  <2>1. \A w \in Workers : TaskSound(work[w])'
    BY IdleTask DEF TaskSound, NoWork
  <2> QED BY <2>1, IdleTask DEF WorkOK
<1>2. PollOK' /\ RetryOK' /\ ReconcilerOK'
  BY DEF PollOK, RetryOK, ReconcilerOK, NoPoll, NoRun
<1>3. FinalizerOK'
  <2>1. \A t \in Ticks : TickSound(finalizer[t])'
    BY DEF NoTick, TickSound
  <2> QED BY <2>1, NoTickSound DEF FinalizerOK
<1> QED BY <1>1, <1>2, <1>3

LEMMA CrashStep ==
  ASSUME IndexerInv, Crash
  PROVE  IndexerInv'
<1>1. UNCHANGED <<chain, mirrorVars, rows, checkpoint, sync>>
  BY DEF Crash
<1>2. Growth /\ ChainOK'
  BY <1>1, Still DEF mirrorVars
<1>3. MirrorOK'
  BY <1>1, <1>2, Kept DEF MirrorOK, mirrorVars
<1>4. ProcessesOK'
  BY <1>1, <1>2, AllIdle, Kept DEF Crash, IndexerInv, ProcessesOK, CheckpointsOK
<1> QED BY <1>2, <1>3, <1>4 DEF IndexerInv

-----------------------------------------------------------------------------
(* Whatever fails, restarts or overlaps, the invariant holds: the mirror is *)
(* sound and counted, and so is every copy a process may still save.        *)
THEOREM IndexerInvariant == IndexerSpec => []IndexerInv
<1>1. IndexerInit => IndexerInv
  <2> SUFFICES ASSUME IndexerInit PROVE IndexerInv
    OBVIOUS
  <2>1. ChainOK
    BY IndexerAssumption DEF IndexerInit, IndexerAssumption, ChainOK
  <2>2. Listed = {} /\ Decided = {}
    BY DEF IndexerInit, Listed, Decided
  <2>3. MirrorOK
    BY <2>2 DEF IndexerInit, MirrorOK, EventOK, MatchesOK, PredictionsOK, PayoutsOK
  <2>4. WorkOK
    BY DEF IndexerInit, WorkOK, TaskSound, Task, NoWork
  <2>5. RowsOK /\ CheckpointsOK /\ PollOK /\ RetryOK /\ ReconcilerOK /\ FinalizerOK
    BY DEF IndexerInit, RowsOK, CheckpointsOK, PollOK, RetryOK, ReconcilerOK, FinalizerOK,
           NoPoll, NoRun, NoTick, TickRun, TickSound
  <2> QED BY <2>1, <2>3, <2>4, <2>5 DEF IndexerInv, ProcessesOK
<1>2. IndexerInv /\ [IndexerNext]_indexerVars => IndexerInv'
  <2> SUFFICES ASSUME IndexerInv, [IndexerNext]_indexerVars PROVE IndexerInv'
    OBVIOUS
  <2>1. CASE IndexerNext
    BY <2>1, EmitStep, FetchStep, ReconcileStartStep, StoreEventStep, CheckpointStep,
       RetryFailedEventsStep, RetryNextStep, ReadStep, FirstWriteStep, SecondWriteStep,
       TaskEnds, ReconcileWriteStep, FinalizerTickStep, FinalizeOnChainStep,
       SaveFinalizedStep, CrashStep
    DEF IndexerNext
  <2>2. CASE UNCHANGED indexerVars
    <3>1. Growth /\ ChainOK'
      BY <2>2, Still DEF indexerVars
    <3> QED BY <2>2, <3>1, Kept
        DEF indexerVars, IndexerInv, MirrorOK, ProcessesOK, CheckpointsOK
  <2> QED BY <2>1, <2>2
<1> QED BY <1>1, <1>2, PTL DEF IndexerSpec

(* The mirror says nothing that the chain does not. *)
THEOREM MirrorSoundAlways == IndexerSpec => []MirrorSound
<1>1. IndexerInv => MirrorSound
  BY DEF IndexerInv, MirrorOK, EventOK, MatchesOK, PredictionsOK, PayoutsOK, MirrorSound,
         Honest, Listed, Decided, Submitted
<1> QED BY <1>1, IndexerInvariant, PTL

(* The event never counts more matches than are on file. *)
THEOREM MatchesCountedAlways == IndexerSpec => []MatchesCounted
<1>1. IndexerInv => MatchesCounted
  BY DEF IndexerInv, MirrorOK, EventOK, MatchesCounted, Honest, Listed
<1> QED BY <1>1, IndexerInvariant, PTL
=============================================================================
