----------------------------- MODULE MCIndexer -----------------------------
(* A small instance of Indexer. *)
EXTENDS Indexer, TLC

CONSTANTS m1, u1, r1, r2, t1, t2

Added == <<TypedEvent("EventCreated"), MatchEvent("MatchAdded", m1)>>
Decided ==
  Added \o << [type |-> "UserJoined", user |-> u1],
              [type |-> "PredictionSubmitted", match |-> m1, user |-> u1],
              MatchEvent("MatchResult", m1) >>

(* The backend is started with the contract, or on an event in course.      *)
Start(history, emits, incidents) ==
  [chain |-> history, emits |-> emits, incidents |-> incidents]

SomeStarts == { Start(<<>>, 1, 2), Start(Added, 0, 3), Start(Added, 1, 2),
                Start(Decided, 1, 2) }

Interchangeable == Permutations({r1, r2}) \cup Permutations({t1, t2})

(* Nothing ever fails. *)
QuietStarts == { Start(Added, 0, 0) }
=============================================================================
