------------------------ MODULE Submissions_proofs -------------------------
(***************************************************************************)
(* Why a key protects the chain, why a replay tells the truth, and why the *)
(* market never counts too many participants, for any number of users,     *)
(* keys, requests, events and restarts.  A request at work owns the row of *)
(* its key, and the row outlives its work; and what is said of the count   *)
(* in the market's row must hold of every copy that may yet be saved.      *)
(***************************************************************************)
EXTENDS Submissions, FiniteSetTheorems, TLAPS

(* Requests that are past the interceptor. *)
Working == {"market", "check", "send", "commit", "created", "rejected"}

Steps == Working \cup {"new", "lookup", "done"}

CallsMade == \A r \in Requests : requests[r].pc # "new" => requests[r].call \in Call

(* The listener in the middle of an event has read the market's row, and    *)
(* goes through check, insert and count with predictions only.              *)
PollSound ==
  /\ poll.stage \notin {"idle", "market"} =>
       /\ poll.batch # <<>>
       /\ poll.row \in Market
  /\ poll.stage \in {"check", "insert", "count"} => Head(poll.batch).kind = "predicted"

Typed == RowsTyped /\ CallsMade /\ PollSound

(* What the backend knows of users and of the market. *)
Known == accounts \subseteq Users /\ listed \in BOOLEAN

(* A request at work owns the row of its key. *)
KeysHeld ==
  \A r \in Requests :
    requests[r].pc \in Working => keys[KeyOf(r)] # None /\ keys[KeyOf(r)].id = r

(* A row of a key is of the request that inserted it, and is completed only *)
(* if that stored its prediction.                                           *)
KeysTrue ==
  \A k \in Users \X Keys :
    keys[k] # None =>
      /\ requests[keys[k].id].pc # "new"
      /\ KeyOf(keys[k].id) = k
      /\ requests[keys[k].id].call.body = keys[k].body
      /\ ~keys[k].inProgress => requests[keys[k].id].committed

WritesFinal ==
  \A w \in writes :
    /\ requests[w.id].pc = "done"
    /\ w.kind = "complete" => requests[w.id].committed

CommittedFiled ==
  \A r \in Requests :
    requests[r].committed =>
      /\ requests[r].pc # "new"
      /\ predictions[requests[r].call.user] = requests[r].call.body

CreatedCommitted == \A r \in Requests : requests[r].pc = "created" => requests[r].committed

AnsweredDone == \A r \in Requests : requests[r].answer = "replayed" => requests[r].pc = "done"

(* A request on its way to the chain is the first of its key to get there.  *)
SentFirst ==
  \A r, q \in Requests :
    requests[r].pc \in {"send", "commit"} /\ requests[q].committed => KeyOf(q) # KeyOf(r)

RequestsInv ==
  /\ KeysHeld
  /\ KeysTrue
  /\ WritesFinal
  /\ CommittedFiled
  /\ CreatedCommitted
  /\ AnsweredDone
  /\ SentFirst
  /\ ReplaysAreTrue

Filed == {u \in Users : predictions[u] # None}

(* The copies of the market's row that may be saved, and what a save adds.  *)
CopiesCounted ==
  /\ operation # NoOperation => operation.row.participants <= Cardinality(Filed)
  /\ poll.stage \in {"check", "insert", "resolve"} =>
       poll.row.participants <= Cardinality(Filed)
  /\ poll.stage = "count" => poll.row.participants + 1 <= Cardinality(Filed)

SubmissionsInv == Typed /\ Known /\ RequestsInv /\ CountedArePredicted /\ CopiesCounted

-----------------------------------------------------------------------------
(* What a change of one request leaves alone. *)
Others(r) == \A q \in Requests \ {r} : requests'[q] = requests[q]

LEMMA GotoEffect ==
  ASSUME Typed, NEW r \in Requests, NEW pc \in Steps, Goto(r, pc),
         pc # "new", requests[r].pc # "new"
  PROVE  /\ requests' \in [Requests -> Request]
         /\ CallsMade'
         /\ requests'[r].pc = pc
         /\ requests'[r].call = requests[r].call
         /\ requests'[r].committed = requests[r].committed
         /\ requests'[r].answer = requests[r].answer
         /\ Others(r)
<1>1. requests \in [Requests -> Request] /\ requests[r] \in Request
  BY DEF Typed, RowsTyped
<1>2. requests' = [requests EXCEPT ![r] = [requests[r] EXCEPT !.pc = pc]]
  BY DEF Goto
<1>3. [requests[r] EXCEPT !.pc = pc] \in Request
  BY <1>1 DEF Request, Steps, Working
<1>4. /\ requests'[r] = [requests[r] EXCEPT !.pc = pc]
      /\ Others(r)
      /\ requests' \in [Requests -> Request]
  BY <1>1, <1>2, <1>3 DEF Others
<1>5. /\ requests'[r].pc = pc
      /\ requests'[r].call = requests[r].call
      /\ requests'[r].committed = requests[r].committed
      /\ requests'[r].answer = requests[r].answer
  BY <1>1, <1>4 DEF Request
<1>6. CallsMade'
  BY <1>4, <1>5 DEF CallsMade, Typed, Others
<1> QED BY <1>4, <1>5, <1>6

LEMMA AnswerEffect ==
  ASSUME Typed, NEW r \in Requests, NEW answer \in {"created", "replayed", "refused"},
         Answer(r, answer), requests[r].pc # "new"
  PROVE  /\ requests' \in [Requests -> Request]
         /\ CallsMade'
         /\ requests'[r].pc = "done"
         /\ requests'[r].call = requests[r].call
         /\ requests'[r].committed = requests[r].committed
         /\ requests'[r].answer = answer
         /\ Others(r)
<1> DEFINE new == [requests[r] EXCEPT !.pc = "done", !.answer = answer]
<1>1. requests \in [Requests -> Request] /\ requests[r] \in Request
  BY DEF Typed, RowsTyped
<1>2. requests' = [requests EXCEPT ![r] = new]
  BY <1>1 DEF Answer
<1>3. new \in Request
  BY <1>1 DEF Request
<1>4. new.pc = "done" /\ new.call = requests[r].call
      /\ new.committed = requests[r].committed /\ new.answer = answer
  BY <1>1 DEF Request
<1> HIDE DEF new
<1>5. requests'[r] = new /\ Others(r) /\ requests' \in [Requests -> Request]
  BY <1>1, <1>2, <1>3 DEF Others
<1>6. CallsMade'
  BY <1>4, <1>5 DEF CallsMade, Typed, Others
<1> QED BY <1>4, <1>5, <1>6

LEMMA AcquireEffect ==
  ASSUME Typed, NEW r \in Requests, NEW call \in Calls, Acquire(r, call)
  PROVE  /\ requests' \in [Requests -> Request]
         /\ CallsMade'
         /\ requests'[r].pc = IF KeyFree(<<call.user, call.key>>) THEN "market" ELSE "lookup"
         /\ requests'[r].call = call
         /\ requests'[r].committed = requests[r].committed
         /\ requests'[r].answer = requests[r].answer
         /\ Others(r)
<1> DEFINE pc == IF KeyFree(<<call.user, call.key>>) THEN "market" ELSE "lookup"
           new == [requests[r] EXCEPT !.pc = pc, !.call = call]
<1>1. /\ requests \in [Requests -> Request] /\ requests[r] \in Request
      /\ call \in Call
  BY SubmissionsAssumption DEF SubmissionsAssumption, Typed, RowsTyped
<1>2. requests' = [requests EXCEPT ![r] = new]
  <2>1. CASE KeyFree(<<call.user, call.key>>)
    BY <1>1, <2>1 DEF Acquire
  <2>2. CASE ~KeyFree(<<call.user, call.key>>)
    BY <1>1, <2>2 DEF Acquire
  <2> QED BY <2>1, <2>2
<1>3. pc \in {"market", "lookup"}
  OBVIOUS
<1> HIDE DEF pc
<1>4. /\ new \in Request /\ new.pc = pc /\ new.call = call
      /\ new.committed = requests[r].committed /\ new.answer = requests[r].answer
  BY <1>1, <1>3 DEF Request
<1> HIDE DEF new
<1>5. requests'[r] = new /\ Others(r) /\ requests' \in [Requests -> Request]
  BY <1>1, <1>2, <1>4 DEF Others
<1>6. CallsMade'
  BY <1>1, <1>4, <1>5 DEF CallsMade, Typed, Others
<1> QED BY <1>4, <1>5, <1>6 DEF pc

LEMMA CommitEffect ==
  ASSUME Typed, NEW r \in Requests, NEW ok \in BOOLEAN, CommitPrediction(r, ok)
  PROVE  LET stored == ok /\ predictions[requests[r].call.user] = None
         IN  /\ requests' \in [Requests -> Request]
             /\ CallsMade'
             /\ requests'[r].pc = IF stored THEN "created" ELSE "rejected"
             /\ requests'[r].call = requests[r].call
             /\ requests'[r].committed = stored
             /\ requests'[r].answer = requests[r].answer
             /\ Others(r)
<1> DEFINE stored == ok /\ predictions[requests[r].call.user] = None
           pc == IF stored THEN "created" ELSE "rejected"
           new == [requests[r] EXCEPT !.committed = stored, !.pc = pc]
<1>1. requests \in [Requests -> Request] /\ requests[r] \in Request
  BY DEF Typed, RowsTyped
<1>2. requests' = [requests EXCEPT ![r] = new] /\ requests[r].pc = "commit"
  BY <1>1 DEF CommitPrediction
<1>3. pc \in {"created", "rejected"} /\ stored \in BOOLEAN
  OBVIOUS
<1> HIDE DEF pc, stored
<1>4. /\ new \in Request /\ new.pc = pc /\ new.call = requests[r].call
      /\ new.committed = stored /\ new.answer = requests[r].answer
  BY <1>1, <1>3 DEF Request
<1> HIDE DEF new
<1>5. requests'[r] = new /\ Others(r) /\ requests' \in [Requests -> Request]
  BY <1>1, <1>2, <1>4 DEF Others
<1>6. CallsMade'
  BY <1>2, <1>4, <1>5 DEF CallsMade, Typed, Others
<1> QED BY <1>4, <1>5, <1>6 DEF pc, stored

LEMMA CrashEffect ==
  ASSUME Typed, Crash
  PROVE  /\ requests' \in [Requests -> Request]
         /\ CallsMade'
         /\ \A r \in Requests :
              /\ requests'[r].pc = IF requests[r].pc = "new" THEN "new" ELSE "done"
              /\ requests'[r].call = requests[r].call
              /\ requests'[r].committed = requests[r].committed
              /\ requests'[r].answer = requests[r].answer
<1>1. requests \in [Requests -> Request]
  BY DEF Typed, RowsTyped
<1> DEFINE Stopped(r) == IF requests[r].pc = "new" THEN requests[r]
                         ELSE [requests[r] EXCEPT !.pc = "done"]
<1>2. requests' = [r \in Requests |-> Stopped(r)]
  BY DEF Crash
<1>3. ASSUME NEW r \in Requests
      PROVE  /\ Stopped(r) \in Request
             /\ Stopped(r).pc = IF requests[r].pc = "new" THEN "new" ELSE "done"
             /\ Stopped(r).call = requests[r].call
             /\ Stopped(r).committed = requests[r].committed
             /\ Stopped(r).answer = requests[r].answer
  <2>1. requests[r] \in Request
    BY <1>1
  <2>2. CASE requests[r].pc = "new"
    BY <2>1, <2>2
  <2>3. CASE requests[r].pc # "new"
    BY <2>1, <2>3 DEF Request
  <2> QED BY <2>2, <2>3
<1> HIDE DEF Stopped
<1>4. requests' \in [Requests -> Request] /\ \A r \in Requests : requests'[r] = Stopped(r)
  BY <1>2, <1>3
<1>5. CallsMade'
  BY <1>3, <1>4 DEF CallsMade, Typed
<1> QED BY <1>3, <1>4, <1>5

-----------------------------------------------------------------------------
(* The types. *)

LEMMA TypedInit == SubmissionsInit => Typed
<1> SUFFICES ASSUME SubmissionsInit PROVE Typed
  OBVIOUS
<1>1. requests \in [Requests -> Request] /\ CallsMade
  BY DEF SubmissionsInit, Request, CallsMade
<1>2. market \in Market
  BY DEF SubmissionsInit, Market
<1>3. /\ predictions \in [Users -> Bodies \cup {None}]
      /\ keys \in [Users \X Keys -> KeyRow \cup {None}]
      /\ writes \subseteq Write
      /\ operation = NoOperation
  BY DEF SubmissionsInit
<1>4. incidents \in Nat /\ chain \in Seq(ChainEvents) /\ cursor = 0
  BY SubmissionsAssumption DEF SubmissionsInit, SubmissionsAssumption
<1>5. /\ cursor \in 0..Len(chain)
      /\ poll \in [stage : {"idle", "market", "check", "insert", "count", "resolve",
                            "create"},
                   batch : Seq(ChainEvents), latest : 0..Len(chain),
                   row : Market \cup {None}]
      /\ PollSound
  BY <1>4 DEF SubmissionsInit, Idle, PollSound
<1> QED BY <1>1, <1>2, <1>3, <1>4, <1>5 DEF Typed, RowsTyped

LEMMA AcquireTyped ==
  ASSUME Typed, NEW r \in Requests, NEW call \in Calls, Acquire(r, call)
  PROVE  Typed'
<1>1. requests' \in [Requests -> Request] /\ CallsMade'
  BY AcquireEffect
<1>2. call \in Call
  BY SubmissionsAssumption DEF SubmissionsAssumption
<1>3. keys' \in [Users \X Keys -> KeyRow \cup {None}]
  <2> DEFINE row == [id |-> r, body |-> call.body, inProgress |-> TRUE]
  <2>1. row \in KeyRow /\ <<call.user, call.key>> \in Users \X Keys
    BY <1>2 DEF KeyRow, Call
  <2>2. keys' = [keys EXCEPT ![<<call.user, call.key>>] = row] \/ keys' = keys
    BY DEF Acquire
  <2> HIDE DEF row
  <2> QED BY <2>1, <2>2 DEF Typed, RowsTyped
<1> QED BY <1>1, <1>3 DEF Acquire, listenerVars, Typed, RowsTyped, PollSound

(* Steps of a request other than these leave keys and predictions alone. *)
LEMMA GotoTyped ==
  ASSUME Typed, requests' \in [Requests -> Request], CallsMade', writes' \subseteq Write,
         UNCHANGED <<market, predictions, keys, operation, chain, listenerVars, incidents>>
  PROVE  Typed'
BY DEF listenerVars, Typed, RowsTyped, PollSound

LEMMA RequestTyped ==
  ASSUME Typed, NEW r \in Requests, RequestStep(r)
  PROVE  Typed'
<1> USE DEF Typed
<1>1. writes \subseteq Write
  BY DEF RowsTyped
<1>2. CASE Lookup(r)
  <2>1. /\ requests' \in [Requests -> Request] /\ CallsMade'
    <3>1. PICK answer \in {"created", "replayed", "refused"} : Answer(r, answer)
      BY <1>2 DEF Lookup
    <3> QED BY <3>1, <1>2, AnswerEffect DEF Lookup
  <2> QED BY <2>1, <1>1, <1>2, GotoTyped DEF Lookup
<1>3. ASSUME NEW over \in BOOLEAN, ReadMarket(r, over) PROVE Typed'
  <2>1. PICK pc \in {"check", "rejected"} : Goto(r, pc)
    BY <1>3 DEF ReadMarket
  <2>2. requests' \in [Requests -> Request] /\ CallsMade'
    BY <1>3, <2>1, GotoEffect DEF ReadMarket, Steps, Working
  <2> QED BY <2>2, <1>1, <1>3, GotoTyped DEF ReadMarket
<1>4. CASE CheckExisting(r)
  <2>1. PICK pc \in {"send", "rejected"} : Goto(r, pc)
    BY <1>4 DEF CheckExisting
  <2>2. requests' \in [Requests -> Request] /\ CallsMade'
    BY <1>4, <2>1, GotoEffect DEF CheckExisting, Steps, Working
  <2> QED BY <2>2, <1>1, <1>4, GotoTyped DEF CheckExisting
<1>5. ASSUME NEW ok \in BOOLEAN, SendToChain(r, ok) PROVE Typed'
  <2>1. PICK pc \in {"commit", "rejected"} : Goto(r, pc)
    BY <1>5 DEF SendToChain
  <2>2. requests' \in [Requests -> Request] /\ CallsMade'
    BY <1>5, <2>1, GotoEffect DEF SendToChain, Steps, Working
  <2> QED BY <2>2, <1>1, <1>5, GotoTyped DEF SendToChain
<1>6. ASSUME NEW ok \in BOOLEAN, CommitPrediction(r, ok) PROVE Typed'
  <2>1. requests' \in [Requests -> Request] /\ CallsMade'
    BY <1>6, CommitEffect
  <2>2. requests[r].call \in Call
    BY <1>6 DEF CommitPrediction, CallsMade
  <2>3. predictions' \in [Users -> Bodies \cup {None}]
    <3>1. requests[r].call.user \in Users /\ requests[r].call.body \in Bodies
      BY <2>2 DEF Call
    <3>2. \/ predictions' = predictions
          \/ predictions' = [predictions EXCEPT ![requests[r].call.user] = requests[r].call.body]
      BY <1>6 DEF CommitPrediction
    <3> QED BY <3>1, <3>2 DEF RowsTyped
  <2>4. market' \in Market
    <3>1. Committed(requests[r].call.user) \in Nat
      BY DEF Committed, RowsTyped, Market
    <3>2. market' = market \/
            market' = [market EXCEPT !.participants = Committed(requests[r].call.user)]
      BY <1>6 DEF CommitPrediction
    <3> QED BY <3>1, <3>2 DEF RowsTyped, Market
  <2> QED BY <1>6, <2>1, <2>3, <2>4
          DEF CommitPrediction, listenerVars, RowsTyped, PollSound
<1>7. CASE Respond(r)
  <2>1. /\ requests' \in [Requests -> Request] /\ CallsMade'
    <3>1. PICK answer \in {"created", "replayed", "refused"} : Answer(r, answer)
      BY <1>7 DEF Respond
    <3> QED BY <3>1, <1>7, AnswerEffect DEF Respond
  <2>2. writes' \subseteq Write
    <3>1. PICK kind \in {"complete", "release"} : writes' = writes \cup {[kind |-> kind, id |-> r]}
      BY <1>7 DEF Respond
    <3> QED BY <1>1, <3>1 DEF Write
  <2> QED BY <2>1, <2>2, <1>7, GotoTyped DEF Respond
<1> QED BY <1>2, <1>3, <1>4, <1>5, <1>6, <1>7 DEF RequestStep

LEMMA KeyTyped ==
  ASSUME Typed,
         \/ \E w \in writes : CompleteOrRelease(w)
         \/ \E k \in Users \X Keys : CleanupExpiredKeys(k)
  PROVE  Typed'
<1> USE DEF Typed
<1>1. keys' \in [Users \X Keys -> KeyRow \cup {None}] /\ writes' \subseteq Write
  <2>1. ASSUME NEW w \in writes, CompleteOrRelease(w)
        PROVE  keys' \in [Users \X Keys -> KeyRow \cup {None}] /\ writes' \subseteq Write
    <3> DEFINE Next1(k) ==
                 IF keys[k] # None /\ keys[k].id = w.id
                 THEN IF w.kind = "complete" THEN [keys[k] EXCEPT !.inProgress = FALSE]
                                             ELSE None
                 ELSE keys[k]
    <3>1. keys \in [Users \X Keys -> KeyRow \cup {None}] /\ writes \subseteq Write
      BY DEF RowsTyped
    <3>2. keys' = [k \in Users \X Keys |-> Next1(k)] /\ writes' = writes \ {w}
      BY <2>1, <3>1 DEF CompleteOrRelease
    <3>3. ASSUME NEW k \in Users \X Keys PROVE Next1(k) \in KeyRow \cup {None}
      <4>1. keys[k] \in KeyRow \cup {None}
        BY <3>1
      <4>2. keys[k] \in KeyRow => [keys[k] EXCEPT !.inProgress = FALSE] \in KeyRow
        BY DEF KeyRow
      <4> QED BY <4>1, <4>2
    <3> HIDE DEF Next1
    <3> QED BY <3>1, <3>2, <3>3
  <2>2. ASSUME NEW k \in Users \X Keys, CleanupExpiredKeys(k)
        PROVE  keys' \in [Users \X Keys -> KeyRow \cup {None}] /\ writes' \subseteq Write
    BY <2>2 DEF CleanupExpiredKeys, RowsTyped
  <2> QED BY <2>1, <2>2
<1>2. UNCHANGED <<market, predictions, requests, operation, chain, listenerVars, incidents>>
  BY DEF CompleteOrRelease, CleanupExpiredKeys
<1> QED BY <1>1, <1>2 DEF listenerVars, RowsTyped, PollSound, CallsMade

(* Requests are left alone. *)
LEMMA AsideTyped ==
  ASSUME Typed, UNCHANGED requestVars
  PROVE  /\ CallsMade'
         /\ keys' \in [Users \X Keys -> KeyRow \cup {None}]
         /\ requests' \in [Requests -> Request]
         /\ writes' \subseteq Write
BY DEF requestVars, Typed, RowsTyped, CallsMade

LEMMA EffectTyped ==
  ASSUME NEW op \in Operations, NEW row \in Market
  PROVE  Effect(op, row) \in Market /\ Effect(op, row).participants = row.participants
<1>1. op \in AllOperations
  BY SubmissionsAssumption DEF SubmissionsAssumption
<1>2. [row EXCEPT !.resolved = TRUE] \in Market
      /\ [row EXCEPT !.resolved = TRUE].participants = row.participants
  BY DEF Market
<1>3. [row EXCEPT !.cancelled = TRUE] \in Market
      /\ [row EXCEPT !.cancelled = TRUE].participants = row.participants
  BY DEF Market
<1>4. ASSUME NEW b \in BOOLEAN
      PROVE  [row EXCEPT !.paused = b] \in Market
             /\ [row EXCEPT !.paused = b].participants = row.participants
  BY DEF Market
<1>5. CASE op \in {"resolve", "adminResolve"}
  BY <1>2, <1>5 DEF Effect
<1>6. CASE op = "cancel"
  BY <1>3, <1>6 DEF Effect
<1>7. CASE op \in {"pause", "resume"}
  <2>1. Effect(op, row) = [row EXCEPT !.paused = (op = "pause")]
    BY <1>7 DEF Effect
  <2> DEFINE b == op = "pause"
  <2>2. b \in BOOLEAN
    OBVIOUS
  <2> HIDE DEF b
  <2>3. Effect(op, row) = [row EXCEPT !.paused = b]
    BY <2>1 DEF b
  <2> QED BY <1>4, <2>2, <2>3
<1>8. CASE op = "update"
  BY <1>8 DEF Effect
<1> QED BY <1>1, <1>5, <1>6, <1>7, <1>8 DEF AllOperations

LEMMA OperatorTyped ==
  ASSUME Typed,
         \/ \E op \in Operations, over \in BOOLEAN : StartOperation(op, over)
         \/ \E ok \in BOOLEAN : EndOperation(ok)
  PROVE  Typed'
<1> USE DEF Typed
<1>1. UNCHANGED requestVars /\ UNCHANGED <<predictions, chain, listenerVars>>
  BY DEF StartOperation, EndOperation
<1>2. /\ market' \in Market
      /\ operation' = NoOperation \/ operation' \in [op : Operations, row : Market]
      /\ incidents' \in Nat
  <2>1. ASSUME NEW op \in Operations, NEW over \in BOOLEAN, StartOperation(op, over)
        PROVE  /\ market' \in Market
               /\ operation' \in [op : Operations, row : Market]
               /\ incidents' \in Nat
    BY <2>1 DEF StartOperation, Incident, RowsTyped
  <2>2. ASSUME NEW ok \in BOOLEAN, EndOperation(ok)
        PROVE  /\ market' \in Market
               /\ operation' = NoOperation
               /\ incidents' \in Nat
    <3>1. operation.op \in Operations /\ operation.row \in Market
      BY <2>2 DEF EndOperation, RowsTyped
    <3> QED BY <2>2, <3>1, EffectTyped DEF EndOperation, RowsTyped
  <2> QED BY <2>1, <2>2
<1>3. PollSound'
  BY <1>1 DEF PollSound, listenerVars
<1> QED BY <1>1, <1>2, <1>3, AsideTyped DEF listenerVars, RowsTyped

LEMMA EmitTyped ==
  ASSUME Typed, NEW e \in ChainEvents, EmitEvent(e)
  PROVE  Typed'
<1> USE DEF Typed
<1>1. UNCHANGED requestVars
      /\ UNCHANGED <<market, predictions, operation, listenerVars, incidents>>
  BY DEF EmitEvent
<1>2. chain' \in Seq(ChainEvents) /\ Len(chain') = Len(chain) + 1 /\ Len(chain) \in Nat
  BY DEF EmitEvent, RowsTyped
<1>3. 0..Len(chain) \subseteq 0..Len(chain')
  BY <1>2
<1>4. /\ cursor' \in 0..Len(chain')
      /\ poll' \in [stage : {"idle", "market", "check", "insert", "count", "resolve",
                             "create"},
                    batch : Seq(ChainEvents), latest : 0..Len(chain'),
                    row : Market \cup {None}]
      /\ PollSound'
  BY <1>1, <1>3 DEF listenerVars, RowsTyped, PollSound
<1>5. /\ market' \in Market
      /\ predictions' \in [Users -> Bodies \cup {None}]
      /\ operation' = NoOperation \/ operation' \in [op : Operations, row : Market]
      /\ incidents' \in Nat
  BY <1>1 DEF RowsTyped
<1> QED BY <1>1, <1>2, <1>4, <1>5, AsideTyped DEF RowsTyped

(* What the backend knows of users and of the market. *)
LEMMA KnownTyped ==
  ASSUME Typed, (\E u \in Users : SignUp(u)) \/ SaveMarket
  PROVE  Typed'
<1> USE DEF Typed
<1>1. UNCHANGED <<market, predictions, requestVars, operation, chain, listenerVars>>
      /\ incidents' \in Nat
  BY DEF SignUp, SaveMarket, Incident, RowsTyped
<1> QED BY <1>1, AsideTyped DEF listenerVars, RowsTyped, PollSound

LEMMA ListenerTyped ==
  ASSUME Typed, ListenerStep
  PROVE  Typed'
<1> DEFINE Polls == [stage : {"idle", "market", "check", "insert", "count", "resolve",
                              "create"},
                     batch : Seq(ChainEvents), latest : 0..Len(chain),
                     row : Market \cup {None}]
<1> USE DEF Typed
<1>1. UNCHANGED requestVars /\ UNCHANGED <<operation, chain, incidents>>
  BY DEF ListenerStep, FetchEvents, FindMarket, HandleMarketCreated, HandleMarketResolved, FindPrediction,
         InsertPrediction, CountPrediction, PersistLastProcessedLedger
<1>2. poll \in Polls /\ chain \in Seq(ChainEvents) /\ cursor \in 0..Len(chain)
      /\ Len(chain) \in Nat /\ market \in Market
      /\ predictions \in [Users -> Bodies \cup {None}]
  BY DEF RowsTyped
<1>3. Idle \in Polls /\ Idle.stage = "idle"
  BY <1>2 DEF Idle
<1>4. ASSUME poll.stage # "idle", poll.batch # <<>>
      PROVE  NextEvent \in Polls /\ NextEvent.stage = "market"
  <2>1. PICK rest \in Seq(ChainEvents) : rest = Tail(poll.batch)
    <3>1. poll.batch \in Seq(ChainEvents)
      BY <1>2
    <3>2. ASSUME NEW s \in Seq(ChainEvents), s # <<>> PROVE Tail(s) \in Seq(ChainEvents)
      BY <3>2
    <3> QED BY <1>4, <3>1, <3>2
  <2>2. NextEvent = [poll EXCEPT !.stage = "market", !.batch = rest, !.row = None]
    BY <2>1 DEF NextEvent
  <2> QED BY <1>2, <2>1, <2>2
<1>5. ASSUME poll.stage \in {"check", "insert", "count", "resolve", "create"}
      PROVE  /\ poll.batch # <<>> /\ Head(poll.batch) \in ChainEvents
             /\ poll.row \in Market
  BY <1>2, <1>5 DEF PollSound
<1>6. /\ market' \in Market
      /\ predictions' \in [Users -> Bodies \cup {None}]
      /\ cursor' \in 0..Len(chain)
      /\ poll' \in Polls
      /\ PollSound'
  <2> HIDE DEF Typed
  <2>1. CASE FetchEvents
    <3>1. PICK last \in Nat : /\ cursor < last /\ last <= Len(chain)
                             /\ poll' = [stage |-> "market",
                                         batch |-> SubSeq(chain, cursor + 1, last),
                                         latest |-> Len(chain), row |-> None]
      <4>1. PageSize \in Nat \ {0}
        BY SubmissionsAssumption DEF SubmissionsAssumption
      <4> DEFINE end == IF cursor + PageSize <= Len(chain) THEN cursor + PageSize
                                                           ELSE Len(chain)
      <4>2. end \in Nat /\ cursor < end /\ end <= Len(chain)
        BY <1>2, <2>1, <4>1 DEF FetchEvents
      <4>3. poll' = [stage |-> "market", batch |-> SubSeq(chain, cursor + 1, end),
                     latest |-> Len(chain), row |-> None]
        BY <2>1 DEF FetchEvents
      <4> HIDE DEF end
      <4> QED BY <4>2, <4>3
    <3>2. SubSeq(chain, cursor + 1, last) \in Seq(ChainEvents)
      BY <1>2, <3>1
    <3>3. poll' \in Polls /\ poll'.stage = "market"
      BY <1>2, <3>1, <3>2
    <3> QED BY <1>2, <2>1, <3>3 DEF FetchEvents, CursorOnFetch, PollSound
  <2>2. CASE FindMarket
    <3>1. Head(poll.batch) \in ChainEvents
      BY <1>2, <2>2 DEF FindMarket
    <3>2. Head(poll.batch) \in ChainEvent
      BY <3>1, SubmissionsAssumption DEF SubmissionsAssumption
    <3>3. Head(poll.batch).kind \in {"created", "predicted", "resolved"}
      BY <3>2 DEF ChainEvent
    <3>4. CASE poll' = NextEvent
      BY <1>2, <1>4, <2>2, <3>4 DEF FindMarket, PollSound
    <3>5. CASE poll' # NextEvent
      <4>1. PICK stage \in {"create", "resolve", "check"} :
              /\ poll' = [poll EXCEPT !.row = market, !.stage = stage]
              /\ stage = "check" => Head(poll.batch).kind = "predicted"
        BY <2>2, <3>3, <3>5 DEF FindMarket
      <4>2. /\ poll' \in Polls /\ poll'.stage = stage /\ poll'.batch = poll.batch
            /\ poll'.row = market
        BY <1>2, <4>1
      <4> QED BY <1>2, <2>2, <4>1, <4>2 DEF FindMarket, PollSound
    <3> QED BY <3>4, <3>5
  <2>3. CASE HandleMarketResolved
    <3>1. [poll.row EXCEPT !.resolved = TRUE] \in Market
      BY <1>5, <2>3 DEF HandleMarketResolved, Market
    <3> QED BY <1>2, <1>4, <1>5, <2>3, <3>1 DEF HandleMarketResolved, PollSound
  <2>4. CASE FindPrediction
    <3>1. [poll EXCEPT !.stage = "insert"] \in Polls
      BY <1>2
    <3>2. CASE poll' = [poll EXCEPT !.stage = "insert"]
      <4>1. poll'.stage = "insert" /\ poll'.batch = poll.batch /\ poll'.row = poll.row
        BY <1>2, <3>2
      <4>2. Head(poll.batch).kind = "predicted"
        BY <2>4 DEF FindPrediction, Typed, PollSound
      <4> QED BY <1>2, <1>5, <2>4, <3>1, <3>2, <4>1, <4>2 DEF FindPrediction, PollSound
    <3>3. CASE poll' = NextEvent
      BY <1>2, <1>4, <1>5, <2>4, <3>3 DEF FindPrediction, PollSound
    <3> QED BY <2>4, <3>2, <3>3 DEF FindPrediction
  <2>5. CASE InsertPrediction
    <3>1. /\ Head(poll.batch).kind = "predicted" /\ Head(poll.batch) \in ChainEvent
      BY <1>5, <2>5, SubmissionsAssumption
         DEF InsertPrediction, Typed, PollSound, SubmissionsAssumption
    <3>2. Head(poll.batch).user \in Users /\ Head(poll.batch).outcome \in Bodies
      BY <3>1 DEF ChainEvent
    <3>3. CASE predictions[Head(poll.batch).user] = None
      <4>1. poll' = [poll EXCEPT !.stage = "count"]
            /\ predictions' = [predictions EXCEPT ![Head(poll.batch).user] = Head(poll.batch).outcome]
        BY <2>5, <3>3 DEF InsertPrediction
      <4>2. /\ poll' \in Polls /\ poll'.stage = "count" /\ poll'.batch = poll.batch
            /\ poll'.row = poll.row
        BY <1>2, <4>1
      <4>3. predictions' \in [Users -> Bodies \cup {None}]
        BY <1>2, <3>2, <4>1
      <4> QED BY <1>2, <1>5, <2>5, <3>1, <4>2, <4>3 DEF InsertPrediction, PollSound
    <3>4. CASE predictions[Head(poll.batch).user] # None
      BY <1>2, <1>3, <2>5, <3>4 DEF InsertPrediction, PollSound
    <3> QED BY <3>3, <3>4
  <2>6. CASE CountPrediction
    <3>1. [poll.row EXCEPT !.participants = @ + 1] \in Market
      BY <1>5, <2>6 DEF CountPrediction, Market
    <3> QED BY <1>2, <1>4, <1>5, <2>6, <3>1 DEF CountPrediction, PollSound
  <2>7. CASE PersistLastProcessedLedger
    BY <1>2, <1>3, <2>7 DEF PersistLastProcessedLedger, PollSound
  <2>8. CASE HandleMarketCreated
    <3>1. poll.stage = "create" /\ poll.batch # <<>>
      BY <2>8 DEF HandleMarketCreated, Typed, PollSound
    <3>2. poll' \in Polls /\ poll'.stage \in {"idle", "market"}
      BY <1>3, <1>4, <2>8, <3>1 DEF HandleMarketCreated
    <3> QED BY <1>2, <2>8, <3>2 DEF HandleMarketCreated, PollSound
  <2> QED BY <2>1, <2>2, <2>3, <2>4, <2>5, <2>6, <2>7, <2>8 DEF ListenerStep
<1> QED BY <1>1, <1>6, AsideTyped DEF RowsTyped

LEMMA CrashTyped ==
  ASSUME Typed, Crash
  PROVE  Typed'
<1> USE DEF Typed
<1>1. requests' \in [Requests -> Request] /\ CallsMade'
  BY CrashEffect
<1>2. incidents' \in Nat
  BY DEF Crash, Incident, RowsTyped
<1>3. /\ poll' \in [stage : {"idle", "market", "check", "insert", "count", "resolve",
                             "create"},
                   batch : Seq(ChainEvents), latest : 0..Len(chain),
                   row : Market \cup {None}]
      /\ PollSound'
  BY DEF Crash, Idle, PollSound, RowsTyped
<1> QED BY <1>1, <1>2, <1>3 DEF Crash, RowsTyped

LEMMA TypedStep ==
  ASSUME Typed, [SubmissionsNext]_submissionVars
  PROVE  Typed'
<1>1. CASE SubmissionsNext
  BY <1>1, AcquireTyped, RequestTyped, KeyTyped, OperatorTyped, EmitTyped, KnownTyped,
     ListenerTyped, CrashTyped DEF SubmissionsNext, SystemStep
<1>2. CASE UNCHANGED submissionVars
  BY <1>2 DEF submissionVars, Typed, RowsTyped, CallsMade, PollSound
<1> QED BY <1>1, <1>2

-----------------------------------------------------------------------------
(* Requests, keys and what is on file. *)

LEMMA FiledIsBody ==
  ASSUME Typed, NEW r \in Requests, requests[r].pc # "new"
  PROVE  /\ requests[r].call \in Call
         /\ requests[r].call.user \in Users
         /\ requests[r].call.body \in Bodies
         /\ requests[r].call.body # None
         /\ KeyOf(r) \in Users \X Keys
BY SubmissionsAssumption DEF SubmissionsAssumption, Typed, CallsMade, Call, KeyOf

LEMMA RequestsInitInv == SubmissionsInit => RequestsInv
<1> SUFFICES ASSUME SubmissionsInit PROVE RequestsInv
  OBVIOUS
<1>1. \A r \in Requests : /\ requests[r].pc = "new" /\ ~requests[r].committed
                          /\ requests[r].answer = None
  BY DEF SubmissionsInit
<1>2. writes = {} /\ \A k \in Users \X Keys : keys[k] = None
  BY DEF SubmissionsInit
<1>3. ASSUME NEW r \in Requests PROVE requests[r].answer # "replayed"
  BY <1>1, SubmissionsAssumption DEF SubmissionsAssumption
<1> QED BY <1>1, <1>2, <1>3
        DEF RequestsInv, KeysHeld, KeysTrue, WritesFinal, CommittedFiled,
            CreatedCommitted, AnsweredDone, SentFirst, ReplaysAreTrue, Working

(* Nothing on file is replaced. *)
FiledStays == \A u \in Users : predictions[u] # None => predictions'[u] = predictions[u]

LEMMA AsideRequests ==
  ASSUME Typed, RequestsInv, UNCHANGED requestVars, FiledStays
  PROVE  RequestsInv'
<1>1. UNCHANGED <<keys, requests, writes>>
  BY DEF requestVars
<1>2. ASSUME NEW r \in Requests, requests[r].committed
      PROVE  predictions'[requests[r].call.user] = requests[r].call.body
  BY <1>2, FiledIsBody DEF RequestsInv, CommittedFiled, FiledStays
<1>3. KeysHeld' /\ KeysTrue' /\ WritesFinal' /\ CreatedCommitted' /\ AnsweredDone' /\ SentFirst'
  BY <1>1 DEF RequestsInv, KeysHeld, KeysTrue, WritesFinal, CreatedCommitted, AnsweredDone,
              SentFirst, KeyOf
<1>4. CommittedFiled'
  BY <1>1, <1>2 DEF RequestsInv, CommittedFiled
<1>5. ReplaysAreTrue'
  BY <1>1, <1>2 DEF RequestsInv, ReplaysAreTrue
<1> QED BY <1>3, <1>4, <1>5 DEF RequestsInv

(* A new request owns no row yet, so the row it inserts is the first it     *)
(* answers for.                                                             *)
LEMMA AcquireRequests ==
  ASSUME Typed, RequestsInv, NEW r \in Requests, NEW call \in Calls, Acquire(r, call)
  PROVE  RequestsInv'
<1> DEFINE key == <<call.user, call.key>>
<1>1. /\ requests'[r].pc = IF KeyFree(key) THEN "market" ELSE "lookup"
      /\ requests'[r].call = call
      /\ requests'[r].committed = requests[r].committed
      /\ requests'[r].answer = requests[r].answer
      /\ \A q \in Requests \ {r} : requests'[q] = requests[q]
  BY AcquireEffect DEF Others
<1>2. /\ requests[r].pc = "new"
      /\ ~requests[r].committed
      /\ requests[r].answer # "replayed"
  BY DEF Acquire, RequestsInv, CommittedFiled, AnsweredDone
<1>3. UNCHANGED <<predictions, writes>>
  BY DEF Acquire
<1>4. key \in Users \X Keys
  BY SubmissionsAssumption DEF SubmissionsAssumption, Call
<1>5. /\ ~KeyFree(key) => keys' = keys
      /\ KeyFree(key) =>
           /\ keys[key] = None
           /\ keys'[key] # None
           /\ keys'[key].id = r
           /\ keys'[key].body = call.body
           /\ keys'[key].inProgress
           /\ \A k \in (Users \X Keys) \ {key} : keys'[k] = keys[k]
  <2> DEFINE row == [id |-> r, body |-> call.body, inProgress |-> TRUE]
  <2>1. ASSUME KeyFree(key)
        PROVE  keys' = [keys EXCEPT ![key] = row] /\ keys[key] = None
    BY <2>1 DEF Acquire, KeyFree
  <2>2. row # None /\ row.id = r /\ row.body = call.body /\ row.inProgress
    <3>1. call.body \in Bodies
      BY SubmissionsAssumption DEF SubmissionsAssumption, Call
    <3>2. row \in [id : Requests, body : Bodies, inProgress : BOOLEAN]
      BY <3>1
    <3> QED BY <3>2, SubmissionsAssumption DEF SubmissionsAssumption
  <2>3. ~KeyFree(key) => keys' = keys
    BY DEF Acquire
  <2>4. keys \in [Users \X Keys -> KeyRow \cup {None}]
    BY DEF Typed, RowsTyped
  <2> HIDE DEF row, key
  <2> QED BY <2>1, <2>2, <2>3, <2>4, <1>4
<1> HIDE DEF key
<1>6. ASSUME NEW q \in Requests, q # r
      PROVE  KeyOf(q)' = KeyOf(q) /\ requests'[q] = requests[q]
  BY <1>1, <1>6 DEF KeyOf
<1>7. KeyOf(r)' = key
  BY <1>1 DEF KeyOf, key
<1>8. ASSUME NEW k \in Users \X Keys, keys[k] # None
      PROVE  /\ keys'[k] = keys[k]
             /\ keys[k].id \in Requests
             /\ keys[k].id # r
  <2>1. keys[k] \in KeyRow /\ keys[k].id \in Requests
    BY <1>8 DEF Typed, RowsTyped, KeyRow
  <2> QED BY <2>1, <1>2, <1>5, <1>8 DEF RequestsInv, KeysTrue
<1>9. KeysHeld'
  <2> SUFFICES ASSUME NEW q \in Requests, requests'[q].pc \in Working
               PROVE  keys'[KeyOf(q)'] # None /\ keys'[KeyOf(q)'].id = q
    BY DEF KeysHeld
  <2>1. CASE q = r
    BY <1>1, <1>5, <1>7, <2>1 DEF Working
  <2>2. CASE q # r
    BY <1>6, <1>8, <2>2, FiledIsBody DEF RequestsInv, KeysHeld, Working
  <2> QED BY <2>1, <2>2
<1>10. KeysTrue'
  <2> SUFFICES ASSUME NEW k \in Users \X Keys, keys'[k] # None
               PROVE  /\ requests'[keys'[k].id].pc # "new"
                      /\ <<requests'[keys'[k].id].call.user,
                           requests'[keys'[k].id].call.key>> = k
                      /\ requests'[keys'[k].id].call.body = keys'[k].body
                      /\ ~keys'[k].inProgress => requests'[keys'[k].id].committed
    BY DEF KeysTrue, KeyOf
  <2>1. CASE keys[k] = None
    <3>1. KeyFree(key) /\ k = key /\ keys'[k].id = r /\ keys'[k].body = call.body
          /\ keys'[k].inProgress
      BY <1>5, <2>1
    <3>2. requests'[r].pc # "new" /\ requests'[r].call = call
      BY <1>1, <3>1
    <3> QED BY <3>1, <3>2 DEF key
  <2>2. CASE keys[k] # None
    <3>1. keys'[k] = keys[k] /\ requests'[keys[k].id] = requests[keys[k].id]
      BY <1>6, <1>8, <2>2
    <3> QED BY <2>2, <3>1 DEF RequestsInv, KeysTrue, KeyOf
  <2> QED BY <2>1, <2>2
<1>11. WritesFinal'
  <2>1. \A w \in writes : w.id \in Requests
    BY DEF Typed, RowsTyped, Write
  <2> QED BY <1>1, <1>2, <1>3, <2>1 DEF RequestsInv, WritesFinal
<1>12. CommittedFiled' /\ CreatedCommitted' /\ AnsweredDone'
  BY <1>1, <1>2, <1>3 DEF RequestsInv, CommittedFiled, CreatedCommitted, AnsweredDone
<1>13. SentFirst'
  <2> SUFFICES ASSUME NEW p \in Requests, NEW q \in Requests,
                      requests'[p].pc \in {"send", "commit"}, requests'[q].committed
               PROVE  KeyOf(q)' # KeyOf(p)'
    BY DEF SentFirst
  <2>1. p # r /\ q # r
    BY <1>1, <1>2
  <2> QED BY <1>6, <2>1 DEF RequestsInv, SentFirst
<1>14. ReplaysAreTrue'
  <2> SUFFICES ASSUME NEW q \in Requests, requests'[q].answer = "replayed"
               PROVE  /\ \E p \in Requests : requests'[p].committed
                                           /\ requests'[p].call = requests'[q].call
                      /\ predictions'[requests'[q].call.user] = requests'[q].call.body
    BY DEF ReplaysAreTrue
  <2>1. q # r
    BY <1>1, <1>2
  <2>2. PICK p \in Requests : requests[p].committed /\ requests[p].call = requests[q].call
    BY <1>6, <2>1 DEF RequestsInv, ReplaysAreTrue
  <2>3. p # r
    BY <1>2, <2>2
  <2> QED BY <1>3, <1>6, <2>1, <2>2, <2>3 DEF RequestsInv, ReplaysAreTrue
<1> QED BY <1>9, <1>10, <1>11, <1>12, <1>13, <1>14 DEF RequestsInv

(* A request at work takes a step: it stays the owner of its row until it   *)
(* is done, reports only what is on file, and commits only if no other      *)
(* request of its key is on its way.                                        *)
LEMMA StepRequests ==
  ASSUME Typed, RequestsInv, FiledStays,
         NEW r \in Requests, requests[r].pc \in Working \cup {"lookup"},
         requests'[r].call = requests[r].call, Others(r), UNCHANGED keys,
         requests'[r].pc # "new",
         requests'[r].pc \in Working => requests[r].pc \in Working,
         requests[r].committed => requests'[r].committed,
         requests'[r].committed =>
           predictions'[requests[r].call.user] = requests[r].call.body,
         requests'[r].pc = "created" => requests'[r].committed,
         requests'[r].answer = "replayed" =>
           /\ requests'[r].pc = "done"
           /\ \E p \in Requests : requests'[p].committed
                                 /\ requests'[p].call = requests[r].call,
         \A w \in writes' \ writes :
           /\ w.id = r /\ requests'[r].pc = "done"
           /\ w.kind = "complete" => requests'[r].committed,
         requests'[r].pc \in {"send", "commit"} =>
           \A q \in Requests : requests'[q].committed => KeyOf(q) # KeyOf(r),
         requests'[r].committed =>
           \A q \in Requests :
             requests'[q].pc \in {"send", "commit"} => KeyOf(q) # KeyOf(r)
  PROVE  RequestsInv'
<1>1. /\ \A q \in Requests \ {r} : requests'[q] = requests[q]
      /\ \A q \in Requests : requests'[q].call = requests[q].call
      /\ \A q \in Requests : requests[q].committed => requests'[q].committed
  BY DEF Others
<1>2. ASSUME NEW q \in Requests PROVE KeyOf(q)' = KeyOf(q)
  BY <1>1 DEF KeyOf
<1>3. KeysHeld'
  <2> SUFFICES ASSUME NEW q \in Requests, requests'[q].pc \in Working
               PROVE  keys[KeyOf(q)] # None /\ keys[KeyOf(q)].id = q
    BY <1>2 DEF KeysHeld
  <2> QED BY <1>1 DEF RequestsInv, KeysHeld
<1>4. KeysTrue'
  <2> SUFFICES ASSUME NEW k \in Users \X Keys, keys[k] # None
               PROVE  /\ requests'[keys[k].id].pc # "new"
                      /\ <<requests'[keys[k].id].call.user,
                           requests'[keys[k].id].call.key>> = k
                      /\ requests'[keys[k].id].call.body = keys[k].body
                      /\ ~keys[k].inProgress => requests'[keys[k].id].committed
    BY DEF KeysTrue, KeyOf
  <2>1. keys[k].id \in Requests
    BY DEF Typed, RowsTyped, KeyRow
  <2>2. requests'[keys[k].id].call = requests[keys[k].id].call
        /\ (requests[keys[k].id].committed => requests'[keys[k].id].committed)
        /\ (requests[keys[k].id].pc # "new" => requests'[keys[k].id].pc # "new")
    BY <1>1, <2>1
  <2> QED BY <2>2 DEF RequestsInv, KeysTrue, KeyOf
<1>5. WritesFinal'
  <2> SUFFICES ASSUME NEW w \in writes'
               PROVE  /\ requests'[w.id].pc = "done"
                      /\ w.kind = "complete" => requests'[w.id].committed
    BY DEF WritesFinal
  <2>1. CASE w \in writes
    <3>1. w.id \in Requests /\ requests[w.id].pc = "done"
          /\ (w.kind = "complete" => requests[w.id].committed)
      BY <2>1 DEF Typed, RowsTyped, Write, RequestsInv, WritesFinal
    <3>2. w.id # r
      BY <3>1 DEF Working
    <3> QED BY <1>1, <3>1, <3>2
  <2>2. CASE w \notin writes
    BY <2>2
  <2> QED BY <2>1, <2>2
<1>6. CommittedFiled'
  <2> SUFFICES ASSUME NEW q \in Requests, requests'[q].committed
               PROVE  /\ requests'[q].pc # "new"
                      /\ predictions'[requests'[q].call.user] = requests'[q].call.body
    BY DEF CommittedFiled
  <2>1. CASE q = r
    BY <2>1, <1>1
  <2>2. CASE q # r
    <3>1. requests[q].committed /\ requests[q].pc # "new"
          /\ predictions[requests[q].call.user] = requests[q].call.body
      BY <1>1, <2>2 DEF RequestsInv, CommittedFiled
    <3>2. predictions'[requests[q].call.user] = requests[q].call.body
      BY <3>1, FiledIsBody DEF FiledStays
    <3> QED BY <1>1, <2>2, <3>1, <3>2
  <2> QED BY <2>1, <2>2
<1>7. CreatedCommitted' /\ AnsweredDone'
  BY <1>1 DEF RequestsInv, CreatedCommitted, AnsweredDone
<1>8. SentFirst'
  <2> SUFFICES ASSUME NEW p \in Requests, NEW q \in Requests,
                      requests'[p].pc \in {"send", "commit"}, requests'[q].committed
               PROVE  KeyOf(q) # KeyOf(p)
    BY <1>2 DEF SentFirst
  <2>1. CASE p = r
    BY <2>1
  <2>2. CASE q = r
    BY <2>2
  <2>3. CASE p # r /\ q # r
    BY <1>1, <2>3 DEF RequestsInv, SentFirst
  <2> QED BY <2>1, <2>2, <2>3
<1>9. ReplaysAreTrue'
  <2> SUFFICES ASSUME NEW q \in Requests, requests'[q].answer = "replayed"
               PROVE  /\ \E p \in Requests : requests'[p].committed
                                           /\ requests'[p].call = requests'[q].call
                      /\ predictions'[requests'[q].call.user] = requests'[q].call.body
    BY DEF ReplaysAreTrue
  <2>1. PICK p \in Requests : requests'[p].committed /\ requests'[p].call = requests[q].call
    <3>1. CASE q = r
      BY <3>1
    <3>2. CASE q # r
      <4>1. PICK p \in Requests : requests[p].committed /\ requests[p].call = requests[q].call
        BY <1>1, <3>2 DEF RequestsInv, ReplaysAreTrue
      <4> QED BY <1>1, <4>1
    <3> QED BY <3>1, <3>2
  <2> QED BY <1>1, <1>6, <2>1 DEF CommittedFiled
<1> QED BY <1>3, <1>4, <1>5, <1>6, <1>7, <1>8, <1>9 DEF RequestsInv

LEMMA LookupRequests ==
  ASSUME Typed, RequestsInv, NEW r \in Requests, Lookup(r)
  PROVE  RequestsInv'
<1> DEFINE row == keys[KeyOf(r)]
           answer == IF Replayable(row, requests[r].call.body) THEN "replayed" ELSE "refused"
<1>1. requests[r].pc = "lookup" /\ Answer(r, answer) /\ answer \in {"replayed", "refused"}
      /\ UNCHANGED <<predictions, keys, writes>>
  BY DEF Lookup
<1> HIDE DEF answer
<1>2. /\ requests'[r].pc = "done"
      /\ requests'[r].call = requests[r].call
      /\ requests'[r].committed = requests[r].committed
      /\ requests'[r].answer = answer
      /\ Others(r)
  BY <1>1, AnswerEffect
<1>3. ASSUME answer = "replayed"
      PROVE  \E p \in Requests : requests'[p].committed /\ requests'[p].call = requests[r].call
  <2>1. row # None /\ row.body = requests[r].call.body /\ ~row.inProgress
    BY <1>3 DEF answer, Replayable
  <2>2. KeyOf(r) \in Users \X Keys /\ requests[r].call \in Call
    BY <1>1, FiledIsBody
  <2>3. row.id \in Requests
    BY <2>1, <2>2 DEF Typed, RowsTyped, KeyRow
  <2>4. /\ requests[row.id].pc # "new" /\ KeyOf(row.id) = KeyOf(r)
        /\ requests[row.id].call.body = requests[r].call.body /\ requests[row.id].committed
    BY <2>1, <2>2 DEF RequestsInv, KeysTrue
  <2>5. requests[row.id].call \in Call
    BY <2>3, <2>4, FiledIsBody
  <2>6. requests[row.id].call = requests[r].call
    <3> DEFINE c == requests[r].call
               d == requests[row.id].call
    <3>1. c.user = d.user /\ c.key = d.key /\ c.body = d.body
      BY <2>4 DEF KeyOf
    <3>2. c \in Call /\ d \in Call
      BY <2>2, <2>5
    <3> HIDE DEF c, d
    <3>3. c = d
      BY <3>1, <3>2 DEF Call
    <3> QED BY <3>3 DEF c, d
  <2>7. requests'[row.id].committed /\ requests'[row.id].call = requests[row.id].call
    BY <1>2, <2>3, <2>4 DEF Others
  <2> QED BY <2>3, <2>6, <2>7
<1>4. FiledStays
  BY <1>1 DEF FiledStays
<1>5. /\ \A q \in Requests : requests'[q].committed = requests[q].committed
      /\ requests[r].committed => predictions'[requests[r].call.user] = requests[r].call.body
      /\ \A p, q \in Requests :
           requests'[p].pc \in {"send", "commit"} /\ requests[q].committed => KeyOf(q) # KeyOf(p)
  BY <1>1, <1>2 DEF Others, RequestsInv, CommittedFiled, SentFirst
<1> QED BY <1>1, <1>2, <1>3, <1>4, <1>5, StepRequests DEF Working

(* From the check of the market to the chain and back. *)
LEMMA GotoRequests ==
  ASSUME Typed, RequestsInv, NEW r \in Requests,
         NEW pc \in {"check", "send", "commit", "rejected"}, Goto(r, pc),
         requests[r].pc \in Working, UNCHANGED <<predictions, keys, writes>>,
         pc = "send" => predictions[requests[r].call.user] = None,
         pc = "commit" => requests[r].pc = "send"
  PROVE  RequestsInv'
<1>1. /\ requests'[r].pc = pc
      /\ requests'[r].call = requests[r].call
      /\ requests'[r].committed = requests[r].committed
      /\ requests'[r].answer = requests[r].answer
      /\ Others(r)
  BY GotoEffect DEF Steps, Working
<1>2. requests[r].answer # "replayed"
  BY DEF RequestsInv, AnsweredDone, Working
<1>3. FiledStays
  BY DEF FiledStays
<1>4. /\ \A q \in Requests : requests'[q].committed = requests[q].committed
      /\ requests[r].committed => predictions'[requests[r].call.user] = requests[r].call.body
  BY <1>1 DEF Others, RequestsInv, CommittedFiled
<1>5. ASSUME NEW p \in Requests, NEW q \in Requests,
             requests'[p].pc \in {"send", "commit"}, requests[q].committed
      PROVE  KeyOf(q) # KeyOf(p)
  <2>1. CASE requests[p].pc \in {"send", "commit"}
    BY <1>5, <2>1 DEF RequestsInv, SentFirst
  <2>2. CASE requests[p].pc \notin {"send", "commit"}
    <3>1. p = r /\ pc = "send"
      BY <1>1, <1>5, <2>2 DEF Others
    <3>2. predictions[requests[q].call.user] = requests[q].call.body /\ requests[q].pc # "new"
      BY <1>5 DEF RequestsInv, CommittedFiled
    <3>3. requests[q].call.user # requests[r].call.user
      BY <3>1, <3>2, FiledIsBody
    <3> QED BY <3>1, <3>3 DEF KeyOf
  <2> QED BY <2>1, <2>2
<1> QED BY <1>1, <1>2, <1>3, <1>4, <1>5, StepRequests DEF Working

(* Two requests of a key are never at work together, so nobody else of the  *)
(* key can be on the way.                                                   *)
LEMMA CommitRequests ==
  ASSUME Typed, RequestsInv, NEW r \in Requests, NEW ok \in BOOLEAN, CommitPrediction(r, ok)
  PROVE  RequestsInv'
<1> DEFINE u == requests[r].call.user
           stored == ok /\ predictions[u] = None
<1>1. /\ requests'[r].pc = IF stored THEN "created" ELSE "rejected"
      /\ requests'[r].call = requests[r].call
      /\ requests'[r].committed = stored
      /\ requests'[r].answer = requests[r].answer
      /\ Others(r)
  BY CommitEffect
<1>2. requests[r].pc = "commit" /\ UNCHANGED <<keys, writes>>
  BY DEF CommitPrediction
<1>3. u \in Users /\ KeyOf(r) \in Users \X Keys /\ stored \in BOOLEAN
  BY <1>2, FiledIsBody
<1>4. IF stored THEN predictions' = [predictions EXCEPT ![u] = requests[r].call.body]
                ELSE predictions' = predictions
  BY DEF CommitPrediction
<1>5. predictions \in [Users -> Bodies \cup {None}]
  BY DEF Typed, RowsTyped
<1>6. FiledStays /\ (stored => predictions'[u] = requests[r].call.body)
  BY <1>3, <1>4, <1>5 DEF FiledStays
<1>7. ~requests[r].committed /\ requests[r].answer # "replayed"
  BY <1>2 DEF RequestsInv, SentFirst, AnsweredDone
<1>8. ASSUME NEW q \in Requests, q # r, requests[q].pc \in Working
      PROVE  KeyOf(q) # KeyOf(r)
  BY <1>2, <1>8 DEF RequestsInv, KeysHeld, Working
<1> HIDE DEF stored, u
<1>9. ASSUME NEW q \in Requests, requests'[q].pc \in {"send", "commit"}
      PROVE  KeyOf(q) # KeyOf(r)
  BY <1>1, <1>8, <1>9 DEF Others, Working
<1>10. requests'[r].pc \in {"created", "rejected"} /\ (requests'[r].pc = "created" => stored)
  BY <1>1
<1> QED BY <1>1, <1>2, <1>6, <1>7, <1>9, <1>10, StepRequests DEF Working, u

LEMMA RespondRequests ==
  ASSUME Typed, RequestsInv, NEW r \in Requests, Respond(r)
  PROVE  RequestsInv'
<1>1. /\ requests[r].pc \in {"created", "rejected"}
      /\ UNCHANGED <<predictions, keys>>
  BY DEF Respond
<1>2. PICK answer \in {"created", "refused"}, kind \in {"complete", "release"} :
        /\ Answer(r, answer)
        /\ writes' = writes \cup {[kind |-> kind, id |-> r]}
        /\ kind = "complete" => requests[r].pc = "created"
  BY DEF Respond
<1>3. /\ requests'[r].pc = "done"
      /\ requests'[r].call = requests[r].call
      /\ requests'[r].committed = requests[r].committed
      /\ requests'[r].answer = answer
      /\ Others(r)
  BY <1>1, <1>2, AnswerEffect
<1>4. FiledStays
  BY <1>1 DEF FiledStays
<1>5. /\ \A q \in Requests : requests'[q].committed = requests[q].committed
      /\ requests[r].committed => predictions'[requests[r].call.user] = requests[r].call.body
      /\ \A p, q \in Requests :
           requests'[p].pc \in {"send", "commit"} /\ requests[q].committed => KeyOf(q) # KeyOf(p)
  BY <1>1, <1>3 DEF Others, RequestsInv, CommittedFiled, SentFirst
<1>6. \A w \in writes' \ writes :
        /\ w.id = r
        /\ w.kind = "complete" => requests[r].committed
  BY <1>2 DEF RequestsInv, CreatedCommitted
<1> QED BY <1>1, <1>2, <1>3, <1>4, <1>5, <1>6, StepRequests DEF Working

(* A key is completed, released or dropped only when its request is done.   *)
LEMMA KeyRequests ==
  ASSUME Typed, RequestsInv,
         \/ \E w \in writes : CompleteOrRelease(w)
         \/ \E k \in Users \X Keys : CleanupExpiredKeys(k)
  PROVE  RequestsInv'
<1>1. UNCHANGED <<requests, predictions>> /\ writes' \subseteq writes
  BY DEF CompleteOrRelease, CleanupExpiredKeys
<1>2. keys \in [Users \X Keys -> KeyRow \cup {None}]
  BY DEF Typed, RowsTyped
<1>3. ASSUME NEW k \in Users \X Keys
      PROVE  \/ keys'[k] = keys[k]
             \/ /\ keys[k] # None /\ requests[keys[k].id].pc = "done"
                /\ \/ keys'[k] = None
                   \/ /\ keys'[k].id = keys[k].id /\ keys'[k].body = keys[k].body
                      /\ requests[keys[k].id].committed
  <2>1. ASSUME NEW w \in writes, CompleteOrRelease(w), keys[k] # None, keys[k].id = w.id
        PROVE  /\ requests[keys[k].id].pc = "done"
               /\ \/ keys'[k] = None
                  \/ /\ keys'[k].id = keys[k].id /\ keys'[k].body = keys[k].body
                     /\ requests[keys[k].id].committed
    <3>1. keys[k] \in KeyRow
      BY <1>2, <2>1
    <3>2. keys'[k] = IF w.kind = "complete" THEN [keys[k] EXCEPT !.inProgress = FALSE]
                                            ELSE None
      BY <1>2, <2>1 DEF CompleteOrRelease
    <3> DEFINE completed == [keys[k] EXCEPT !.inProgress = FALSE]
    <3>3. completed.id = keys[k].id /\ completed.body = keys[k].body
      BY <3>1 DEF KeyRow
    <3> HIDE DEF completed
    <3>4. keys'[k] = IF w.kind = "complete" THEN completed ELSE None
      BY <3>2 DEF completed
    <3> QED BY <2>1, <3>3, <3>4 DEF RequestsInv, WritesFinal
  <2>2. ASSUME NEW w \in writes, CompleteOrRelease(w), ~(keys[k] # None /\ keys[k].id = w.id)
        PROVE  keys'[k] = keys[k]
    BY <1>2, <2>2 DEF CompleteOrRelease
  <2>3. ASSUME NEW l \in Users \X Keys, CleanupExpiredKeys(l)
        PROVE  \/ keys'[k] = keys[k]
               \/ keys[k] # None /\ requests[keys[k].id].pc = "done" /\ keys'[k] = None
    <3>1. keys' = [keys EXCEPT ![l] = None] /\ keys[l] # None
          /\ requests[keys[l].id].pc = "done"
      BY <2>3 DEF CleanupExpiredKeys, Expirable
    <3> QED BY <1>2, <3>1
  <2> QED BY <2>1, <2>2, <2>3
<1>4. KeysHeld'
  <2> SUFFICES ASSUME NEW r \in Requests, requests[r].pc \in Working
               PROVE  keys'[KeyOf(r)] # None /\ keys'[KeyOf(r)].id = r
    BY <1>1 DEF KeysHeld, KeyOf
  <2>1. KeyOf(r) \in Users \X Keys /\ keys[KeyOf(r)] # None /\ keys[KeyOf(r)].id = r
    BY FiledIsBody DEF RequestsInv, KeysHeld, Working
  <2>2. keys'[KeyOf(r)] = keys[KeyOf(r)]
    BY <1>3, <2>1 DEF Working
  <2> QED BY <2>1, <2>2
<1>5. KeysTrue'
  <2> SUFFICES ASSUME NEW k \in Users \X Keys, keys'[k] # None
               PROVE  /\ requests[keys'[k].id].pc # "new"
                      /\ <<requests[keys'[k].id].call.user,
                           requests[keys'[k].id].call.key>> = k
                      /\ requests[keys'[k].id].call.body = keys'[k].body
                      /\ ~keys'[k].inProgress => requests[keys'[k].id].committed
    BY <1>1 DEF KeysTrue, KeyOf
  <2>1. keys[k] # None /\ keys'[k].id = keys[k].id /\ keys'[k].body = keys[k].body
        /\ (keys'[k] = keys[k] \/ requests[keys[k].id].committed)
    BY <1>3
  <2> QED BY <2>1 DEF RequestsInv, KeysTrue, KeyOf
<1>6. WritesFinal'
  BY <1>1 DEF RequestsInv, WritesFinal
<1>7. CommittedFiled' /\ CreatedCommitted' /\ AnsweredDone' /\ ReplaysAreTrue'
  BY <1>1 DEF RequestsInv, CommittedFiled, CreatedCommitted, AnsweredDone, ReplaysAreTrue
<1>8. SentFirst'
  BY <1>1 DEF RequestsInv, SentFirst, KeyOf
<1> QED BY <1>4, <1>5, <1>6, <1>7, <1>8 DEF RequestsInv

LEMMA CrashRequests ==
  ASSUME Typed, RequestsInv, Crash
  PROVE  RequestsInv'
<1>1. \A r \in Requests :
        /\ requests'[r].pc = IF requests[r].pc = "new" THEN "new" ELSE "done"
        /\ requests'[r].call = requests[r].call
        /\ requests'[r].committed = requests[r].committed
        /\ requests'[r].answer = requests[r].answer
  BY CrashEffect
<1>2. writes' = {} /\ UNCHANGED <<predictions, keys>>
  BY DEF Crash
<1>3. KeysHeld' /\ WritesFinal' /\ SentFirst' /\ CreatedCommitted'
  BY <1>1, <1>2 DEF KeysHeld, WritesFinal, SentFirst, CreatedCommitted, Working
<1>4. KeysTrue'
  <2> SUFFICES ASSUME NEW k \in Users \X Keys, keys[k] # None
               PROVE  /\ requests'[keys[k].id].pc # "new"
                      /\ <<requests'[keys[k].id].call.user,
                           requests'[keys[k].id].call.key>> = k
                      /\ requests'[keys[k].id].call.body = keys[k].body
                      /\ ~keys[k].inProgress => requests'[keys[k].id].committed
    BY <1>2 DEF KeysTrue, KeyOf
  <2>1. keys[k].id \in Requests
    BY DEF Typed, RowsTyped, KeyRow
  <2> QED BY <1>1, <2>1 DEF RequestsInv, KeysTrue, KeyOf
<1>5. CommittedFiled' /\ AnsweredDone' /\ ReplaysAreTrue'
  BY <1>1, <1>2 DEF RequestsInv, CommittedFiled, AnsweredDone, ReplaysAreTrue
<1> QED BY <1>3, <1>4, <1>5 DEF RequestsInv

LEMMA RequestRequests ==
  ASSUME Typed, RequestsInv, NEW r \in Requests, RequestStep(r)
  PROVE  RequestsInv'
<1>1. ASSUME NEW over \in BOOLEAN, ReadMarket(r, over) PROVE RequestsInv'
  <2>1. PICK pc \in {"check", "rejected"} : Goto(r, pc)
    BY <1>1 DEF ReadMarket
  <2> QED BY <1>1, <2>1, GotoRequests DEF ReadMarket, Working
<1>2. CASE CheckExisting(r)
  <2>1. PICK pc \in {"send", "rejected"} :
          Goto(r, pc) /\ (pc = "send" => predictions[requests[r].call.user] = None)
    BY <1>2 DEF CheckExisting
  <2> QED BY <1>2, <2>1, GotoRequests DEF CheckExisting, Working
<1>3. ASSUME NEW ok \in BOOLEAN, SendToChain(r, ok) PROVE RequestsInv'
  <2>1. PICK pc \in {"commit", "rejected"} : Goto(r, pc)
    BY <1>3 DEF SendToChain
  <2> QED BY <1>3, <2>1, GotoRequests DEF SendToChain, Working
<1> QED BY <1>1, <1>2, <1>3, LookupRequests, CommitRequests, RespondRequests DEF RequestStep

LEMMA RequestsStep ==
  ASSUME Typed, RequestsInv, [SubmissionsNext]_submissionVars
  PROVE  RequestsInv'
<1>1. ASSUME UNCHANGED <<requestVars, predictions>> PROVE RequestsInv'
  BY <1>1, AsideRequests DEF FiledStays
<1>2. ASSUME NEW op \in Operations, NEW over \in BOOLEAN, StartOperation(op, over)
      PROVE  RequestsInv'
  BY <1>1, <1>2 DEF StartOperation
<1>3. ASSUME NEW ok \in BOOLEAN, EndOperation(ok) PROVE RequestsInv'
  BY <1>1, <1>3 DEF EndOperation
<1>4. ASSUME NEW e \in ChainEvents, EmitEvent(e) PROVE RequestsInv'
  BY <1>1, <1>4 DEF EmitEvent
<1>5. CASE (\E u \in Users : SignUp(u)) \/ SaveMarket
  BY <1>1, <1>5 DEF SignUp, SaveMarket
<1>6. CASE InsertPrediction
  <2>1. UNCHANGED requestVars
    BY <1>6 DEF InsertPrediction
  <2>2. FiledStays
    <3> DEFINE u == Head(poll.batch).user
    <3>1. \/ predictions' = predictions
          \/ /\ predictions[u] = None
             /\ predictions' = [predictions EXCEPT ![u] = Head(poll.batch).outcome]
      BY <1>6 DEF InsertPrediction
    <3>2. predictions \in [Users -> Bodies \cup {None}]
      BY DEF Typed, RowsTyped
    <3> HIDE DEF u
    <3> QED BY <3>1, <3>2 DEF FiledStays
  <2> QED BY <2>1, <2>2, AsideRequests
<1>7. CASE ListenerStep /\ ~InsertPrediction
  BY <1>1, <1>7 DEF ListenerStep, FetchEvents, FindMarket, HandleMarketCreated, HandleMarketResolved,
                    FindPrediction, CountPrediction, PersistLastProcessedLedger
<1>8. CASE UNCHANGED submissionVars
  BY <1>1, <1>8 DEF submissionVars, requestVars
<1> QED BY <1>2, <1>3, <1>4, <1>6, <1>7, <1>8, <1>5, AcquireRequests, RequestRequests, KeyRequests,
           CrashRequests DEF SubmissionsNext, SystemStep

-----------------------------------------------------------------------------
(* The count of participants. *)

LEMMA FiledFinite == Cardinality(Filed) \in Nat /\ IsFiniteSet(Filed)
<1>1. Filed \subseteq Users
  BY DEF Filed
<1> QED BY <1>1, SubmissionsAssumption, FS_Subset, FS_CardinalityType DEF SubmissionsAssumption

(* One more prediction on file. *)
LEMMA OneMoreFiled ==
  ASSUME Typed, NEW u \in Users, NEW body \in Bodies, predictions[u] = None,
         predictions' = [predictions EXCEPT ![u] = body]
  PROVE  Cardinality(Filed') = Cardinality(Filed) + 1
<1>1. body # None
  BY SubmissionsAssumption DEF SubmissionsAssumption
<1>2. predictions \in [Users -> Bodies \cup {None}]
  BY DEF Typed, RowsTyped
<1>3. Filed' = Filed \cup {u} /\ u \notin Filed
  BY <1>1, <1>2 DEF Filed
<1> QED BY <1>3, FiledFinite, FS_AddElement

LEMMA CountInit == SubmissionsInit => CountedArePredicted /\ CopiesCounted
<1> SUFFICES ASSUME SubmissionsInit PROVE CountedArePredicted /\ CopiesCounted
  OBVIOUS
<1>1. market.participants = 0 /\ operation = NoOperation /\ poll.stage = "idle"
  BY DEF SubmissionsInit, Idle
<1> QED BY <1>1, FiledFinite DEF CountedArePredicted, CopiesCounted, Filed

LEMMA CommitCount ==
  ASSUME Typed, CountedArePredicted, CopiesCounted,
         NEW r \in Requests, NEW ok \in BOOLEAN, CommitPrediction(r, ok)
  PROVE  CountedArePredicted' /\ CopiesCounted'
<1> DEFINE u == requests[r].call.user
<1>1. UNCHANGED <<operation, poll>> /\ requests[r].pc = "commit"
  BY DEF CommitPrediction, listenerVars
<1>2. u \in Users /\ requests[r].call.body \in Bodies
  BY <1>1, FiledIsBody
<1>3. CASE ok /\ predictions[u] = None
  <2>1. predictions' = [predictions EXCEPT ![u] = requests[r].call.body]
    BY <1>3 DEF CommitPrediction
  <2>2. Cardinality(Filed') = Cardinality(Filed) + 1
    BY <1>2, <1>3, <2>1, OneMoreFiled
  <2>3. market' = [market EXCEPT !.participants = market.participants + 1]
    BY <1>3 DEF CommitPrediction, Committed
  <2>4. market'.participants = market.participants + 1 /\ market.participants \in Nat
    BY <2>3 DEF Typed, RowsTyped, Market
  <2>5. CountedArePredicted'
    BY <2>2, <2>4, FiledFinite DEF CountedArePredicted, Filed
  <2>6. /\ operation # NoOperation => operation.row.participants \in Nat
        /\ poll.stage \notin {"idle", "market"} => poll.row.participants \in Nat
    BY DEF Typed, RowsTyped, PollSound, Market
  <2>7. CopiesCounted'
    BY <1>1, <2>2, <2>6, FiledFinite DEF CopiesCounted
  <2> QED BY <2>5, <2>7
<1>4. CASE ~(ok /\ predictions[u] = None)
  <2>1. predictions' = predictions
    BY <1>4 DEF CommitPrediction
  <2>2. market'.participants = market.participants
    <3>1. \/ market' = market
          \/ market' = [market EXCEPT !.participants = market.participants]
      BY <1>4 DEF CommitPrediction, Committed
    <3> QED BY <3>1 DEF Typed, RowsTyped, Market
  <2> QED BY <1>1, <2>1, <2>2 DEF CountedArePredicted, CopiesCounted, Filed
<1> QED BY <1>3, <1>4

LEMMA OperatorCount ==
  ASSUME Typed, CountedArePredicted, CopiesCounted,
         \/ \E op \in Operations, over \in BOOLEAN : StartOperation(op, over)
         \/ \E ok \in BOOLEAN : EndOperation(ok)
  PROVE  CountedArePredicted' /\ CopiesCounted'
<1>1. UNCHANGED <<predictions, poll>>
  BY DEF StartOperation, EndOperation, listenerVars
<1>2. ASSUME NEW op \in Operations, NEW over \in BOOLEAN, StartOperation(op, over)
      PROVE  market' = market /\ operation'.row = market
  BY <1>2 DEF StartOperation
<1>3. ASSUME NEW ok \in BOOLEAN, EndOperation(ok)
      PROVE  /\ operation' = NoOperation
             /\ \/ market' = market
                \/ market'.participants <= Cardinality(Filed)
  <2>1. operation # NoOperation /\ operation.op \in Operations /\ operation.row \in Market
    BY <1>3 DEF EndOperation, Typed, RowsTyped
  <2>2. Effect(operation.op, operation.row).participants <= Cardinality(Filed)
    BY <2>1, EffectTyped DEF CopiesCounted
  <2> QED BY <1>3, <2>2 DEF EndOperation
<1> QED BY <1>1, <1>2, <1>3 DEF CountedArePredicted, CopiesCounted, Filed

LEMMA ListenerCount ==
  ASSUME Typed, CountedArePredicted, CopiesCounted, ListenerStep
  PROVE  CountedArePredicted' /\ CopiesCounted'
<1> DEFINE Polls == [stage : {"idle", "market", "check", "insert", "count", "resolve",
                              "create"},
                     batch : Seq(ChainEvents), latest : 0..Len(chain),
                     row : Market \cup {None}]
<1>1. UNCHANGED operation
  BY DEF ListenerStep, FetchEvents, FindMarket, HandleMarketCreated, HandleMarketResolved, FindPrediction,
         InsertPrediction, CountPrediction, PersistLastProcessedLedger
<1>2. poll \in Polls /\ market \in Market
      /\ (poll.stage \notin {"idle", "market"} => poll.row \in Market)
  BY DEF Typed, RowsTyped, PollSound
<1>3. NextEvent.stage = "market" /\ Idle.stage = "idle"
  BY <1>2 DEF NextEvent, Idle
<1>4. CASE FetchEvents \/ PersistLastProcessedLedger
  <2>1. UNCHANGED <<market, predictions>> /\ poll'.stage \in {"idle", "market"}
    BY <1>3, <1>4 DEF FetchEvents, PersistLastProcessedLedger
  <2> QED BY <1>1, <2>1 DEF CountedArePredicted, CopiesCounted, Filed
<1>5. CASE FindMarket
  <2>1. \/ poll' = NextEvent
        \/ \E stage \in {"create", "resolve", "check"} :
             poll' = [poll EXCEPT !.row = market, !.stage = stage]
    <3>1. Head(poll.batch) \in ChainEvent
      BY <1>2, <1>5, SubmissionsAssumption DEF FindMarket, SubmissionsAssumption
    <3>2. Head(poll.batch).kind \in {"created", "predicted", "resolved"}
      BY <3>1 DEF ChainEvent
    <3> QED BY <1>5, <3>2 DEF FindMarket
  <2>2. poll'.stage = "market" \/ (poll'.stage # "count" /\ poll'.row = market)
    BY <1>2, <1>3, <2>1
  <2>3. UNCHANGED <<market, predictions>>
    BY <1>5 DEF FindMarket
  <2> QED BY <1>1, <2>2, <2>3 DEF CountedArePredicted, CopiesCounted, Filed
<1>6. CASE HandleMarketResolved
  <2>1. market'.participants = poll.row.participants /\ poll'.stage = "market"
        /\ predictions' = predictions /\ poll.stage = "resolve"
    BY <1>2, <1>3, <1>6 DEF HandleMarketResolved, Market
  <2> QED BY <1>1, <2>1 DEF CountedArePredicted, CopiesCounted, Filed
<1>7. CASE HandleMarketCreated
  <2>1. UNCHANGED <<market, predictions>> /\ poll'.stage \in {"idle", "market"}
    BY <1>3, <1>7 DEF HandleMarketCreated
  <2> QED BY <1>1, <2>1 DEF CountedArePredicted, CopiesCounted, Filed
<1>8. CASE FindPrediction
  <2>1. UNCHANGED <<market, predictions>> /\ poll.stage = "check"
    BY <1>8 DEF FindPrediction
  <2>2. \/ poll'.stage = "insert" /\ poll'.row = poll.row
        \/ poll'.stage = "market"
    BY <1>2, <1>3, <1>8 DEF FindPrediction
  <2> QED BY <1>1, <2>1, <2>2 DEF CountedArePredicted, CopiesCounted, Filed
<1>9. CASE InsertPrediction
  <2> DEFINE e == Head(poll.batch)
  <2>1. e.user \in Users /\ e.outcome \in Bodies
    <3>1. e \in ChainEvent /\ e.kind = "predicted"
      BY <1>2, <1>9, SubmissionsAssumption
         DEF InsertPrediction, Typed, PollSound, SubmissionsAssumption
    <3> QED BY <3>1 DEF ChainEvent
  <2>2. UNCHANGED market /\ poll.stage = "insert"
    BY <1>9 DEF InsertPrediction
  <2>3. CASE predictions[e.user] = None
    <3>1. predictions' = [predictions EXCEPT ![e.user] = e.outcome]
          /\ poll' = [poll EXCEPT !.stage = "count"]
      BY <1>9, <2>3 DEF InsertPrediction
    <3>2. poll'.stage = "count" /\ poll'.row = poll.row
      BY <1>2, <3>1
    <3> HIDE DEF e
    <3>3. Cardinality(Filed') = Cardinality(Filed) + 1
      BY <2>1, <2>3, <3>1, OneMoreFiled
    <3>4. /\ market.participants \in Nat /\ poll.row.participants \in Nat
          /\ operation # NoOperation => operation.row.participants \in Nat
      BY <1>2, <2>2 DEF Typed, RowsTyped, Market
    <3>5. CountedArePredicted'
      BY <2>2, <3>3, <3>4, FiledFinite DEF CountedArePredicted, Filed
    <3>6. CopiesCounted'
      BY <1>1, <2>2, <3>2, <3>3, <3>4, FiledFinite DEF CopiesCounted
    <3> QED BY <3>5, <3>6
  <2>4. CASE predictions[e.user] # None
    <3>1. poll' = Idle /\ predictions' = predictions
      BY <1>9, <2>4 DEF InsertPrediction
    <3> QED BY <1>1, <1>3, <2>2, <3>1 DEF CountedArePredicted, CopiesCounted, Filed
  <2> QED BY <2>3, <2>4
<1>10. CASE CountPrediction
  <2>1. market'.participants = poll.row.participants + 1 /\ poll'.stage = "market"
        /\ predictions' = predictions /\ poll.stage = "count"
    BY <1>2, <1>3, <1>10 DEF CountPrediction, Market
  <2> QED BY <1>1, <2>1 DEF CountedArePredicted, CopiesCounted, Filed
<1> QED BY <1>4, <1>5, <1>6, <1>8, <1>9, <1>10, <1>7 DEF ListenerStep

LEMMA CountStep ==
  ASSUME Typed, CountedArePredicted, CopiesCounted, [SubmissionsNext]_submissionVars
  PROVE  CountedArePredicted' /\ CopiesCounted'
<1>1. ASSUME UNCHANGED <<market, predictions, operation, poll>>
      PROVE  CountedArePredicted' /\ CopiesCounted'
  BY <1>1 DEF CountedArePredicted, CopiesCounted, Filed
<1>2. ASSUME NEW r \in Requests, NEW call \in Calls, Acquire(r, call)
      PROVE  CountedArePredicted' /\ CopiesCounted'
  BY <1>1, <1>2 DEF Acquire, listenerVars
<1>3. ASSUME NEW r \in Requests, RequestStep(r)
      PROVE  CountedArePredicted' /\ CopiesCounted'
  <2>1. ASSUME NEW ok \in BOOLEAN, CommitPrediction(r, ok)
        PROVE  CountedArePredicted' /\ CopiesCounted'
    BY <2>1, CommitCount
  <2>2. CASE Lookup(r) \/ CheckExisting(r) \/ Respond(r)
    BY <1>1, <2>2 DEF Lookup, CheckExisting, Respond, listenerVars
  <2>3. ASSUME NEW over \in BOOLEAN, ReadMarket(r, over)
        PROVE  CountedArePredicted' /\ CopiesCounted'
    BY <1>1, <2>3 DEF ReadMarket, listenerVars
  <2>4. ASSUME NEW ok \in BOOLEAN, SendToChain(r, ok)
        PROVE  CountedArePredicted' /\ CopiesCounted'
    BY <1>1, <2>4 DEF SendToChain, listenerVars
  <2> QED BY <1>3, <2>1, <2>2, <2>3, <2>4 DEF RequestStep
<1>4. ASSUME NEW w \in writes, CompleteOrRelease(w)
      PROVE  CountedArePredicted' /\ CopiesCounted'
  BY <1>1, <1>4 DEF CompleteOrRelease, listenerVars
<1>5. ASSUME NEW k \in Users \X Keys, CleanupExpiredKeys(k)
      PROVE  CountedArePredicted' /\ CopiesCounted'
  BY <1>1, <1>5 DEF CleanupExpiredKeys, listenerVars
<1>6. ASSUME NEW e \in ChainEvents, EmitEvent(e)
      PROVE  CountedArePredicted' /\ CopiesCounted'
  BY <1>1, <1>6 DEF EmitEvent, listenerVars
<1>7. CASE (\E u \in Users : SignUp(u)) \/ SaveMarket
  BY <1>1, <1>7 DEF SignUp, SaveMarket, listenerVars
<1>8. CASE Crash
  <2>1. UNCHANGED <<market, predictions>> /\ operation' = NoOperation /\ poll'.stage = "idle"
    BY <1>8 DEF Crash, Idle
  <2> QED BY <2>1 DEF CountedArePredicted, CopiesCounted, Filed
<1>9. CASE UNCHANGED submissionVars
  BY <1>1, <1>9 DEF submissionVars
<1> QED BY <1>2, <1>3, <1>4, <1>5, <1>6, <1>8, <1>9, <1>7, OperatorCount, ListenerCount
        DEF SubmissionsNext, SystemStep

-----------------------------------------------------------------------------
LEMMA KnownInit == SubmissionsInit => Known
BY SubmissionsAssumption DEF SubmissionsAssumption, SubmissionsInit, Known

LEMMA KnownStep ==
  ASSUME Known, [SubmissionsNext]_submissionVars
  PROVE  Known'
<1>1. ASSUME UNCHANGED knownVars PROVE Known'
  BY <1>1 DEF knownVars, Known
<1>2. ASSUME NEW r \in Requests, RequestStep(r) PROVE Known'
  BY <1>1, <1>2 DEF RequestStep, Lookup, ReadMarket, CheckExisting, SendToChain,
                    CommitPrediction, Respond
<1>3. CASE ListenerStep
  <2>1. CASE HandleMarketCreated
    BY <2>1 DEF HandleMarketCreated, Known
  <2>2. CASE ~HandleMarketCreated
    BY <1>1, <1>3, <2>2 DEF ListenerStep, FetchEvents, FindMarket, HandleMarketResolved,
                            FindPrediction, InsertPrediction, CountPrediction,
                            PersistLastProcessedLedger
  <2> QED BY <2>1, <2>2
<1>4. CASE \/ \E r \in Requests, call \in Calls : Acquire(r, call)
           \/ \E op \in Operations, over \in BOOLEAN : StartOperation(op, over)
           \/ \E ok \in BOOLEAN : EndOperation(ok)
           \/ \E e \in ChainEvents : EmitEvent(e)
           \/ \E w \in writes : CompleteOrRelease(w)
           \/ \E k \in Users \X Keys : CleanupExpiredKeys(k)
           \/ Crash
  BY <1>1, <1>4 DEF Acquire, StartOperation, EndOperation, EmitEvent, CompleteOrRelease,
                    CleanupExpiredKeys, Crash
<1>5. ASSUME NEW u \in Users, SignUp(u) PROVE Known'
  BY <1>5 DEF SignUp, Known
<1>6. CASE SaveMarket
  BY <1>6 DEF SaveMarket, Known
<1>7. CASE UNCHANGED submissionVars
  BY <1>1, <1>7 DEF submissionVars, knownVars
<1> QED BY <1>2, <1>3, <1>4, <1>5, <1>6, <1>7 DEF SubmissionsNext, SystemStep

(* The inductive invariant: the types, requests that own the rows of their  *)
(* keys, and counts that no copy of the market's row exceeds.               *)
THEOREM SubmissionsInvariant == SubmissionsSpec => []SubmissionsInv
<1>1. SubmissionsInit => SubmissionsInv
  BY TypedInit, KnownInit, RequestsInitInv, CountInit DEF SubmissionsInv
<1>2. SubmissionsInv /\ [SubmissionsNext]_submissionVars => SubmissionsInv'
  BY TypedStep, KnownStep, RequestsStep, CountStep DEF SubmissionsInv
<1> QED BY <1>1, <1>2, PTL DEF SubmissionsSpec

(* Every row, key and request keeps its type, for any number of them.       *)
THEOREM SubmissionsTypeCorrect == SubmissionsSpec => []SubmissionsTypeOK
<1>1. SubmissionsInv => SubmissionsTypeOK
  BY DEF SubmissionsInv, Typed, Known, SubmissionsTypeOK
<1> QED BY <1>1, SubmissionsInvariant, PTL

(* A replayed response is that of a request which did store the prediction  *)
(* on file (idempotency.interceptor.ts).                                    *)
THEOREM ReplaysAreTrueAlways == SubmissionsSpec => []ReplaysAreTrue
<1>1. SubmissionsInv => ReplaysAreTrue
  BY DEF SubmissionsInv, RequestsInv
<1> QED BY <1>1, SubmissionsInvariant, PTL

(* The market's row never counts more participants than there are           *)
(* predictions, whoever saves a stale copy of it (soroban.listener.ts,      *)
(* markets.service.ts).                                                     *)
THEOREM CountedArePredictedAlways == SubmissionsSpec => []CountedArePredicted
<1>1. SubmissionsInv => CountedArePredicted
  BY DEF SubmissionsInv
<1> QED BY <1>1, SubmissionsInvariant, PTL

(* Once a request has stored its prediction no other of its key calls the   *)
(* chain (idempotency.service.ts, predictions.service.ts).                  *)
THEOREM NeverStakedAgainAlways == SubmissionsSpec => NeverStakedAgain
<1>1. SubmissionsInv => \A r, q \in Requests :
        requests[r].pc = "send" => ~(requests[q].committed /\ KeyOf(q) = KeyOf(r))
  BY DEF SubmissionsInv, RequestsInv, SentFirst
<1>2. SubmissionsInv /\ [SubmissionsNext]_submissionVars =>
        [\A r, q \in Requests :
           requests[r].pc = "send" /\ requests'[r].pc = "commit" =>
             ~(requests[q].committed /\ KeyOf(q) = KeyOf(r))]_submissionVars
  BY <1>1
<1> QED BY <1>2, SubmissionsInvariant, PTL DEF SubmissionsSpec, NeverStakedAgain
=============================================================================
