--------------------------- MODULE MCSubmissions ---------------------------
(* A small instance of Submissions: two requests under one key, with the    *)
(* same body or not, of alice or of bob, while bob predicts from a wallet   *)
(* and the chain and an operator resolve the market.                        *)
EXTENDS Submissions, TLC

CONSTANTS alice, bob, k1, yes, no

SomeCalls ==
  {[user |-> alice, key |-> k1, body |-> yes],
   [user |-> alice, key |-> k1, body |-> no],
   [user |-> bob, key |-> k1, body |-> yes]}

Created(lacks) == [kind |-> "created", lacks |-> lacks]
Predicted(lacks) ==
  [kind |-> "predicted", user |-> bob, outcome |-> yes, lacks |-> lacks]

SomeEvents ==
  {Created("nothing"), Created("market"), Predicted("nothing"), Predicted("predictor"),
   [kind |-> "resolved", lacks |-> "nothing"]}

Start(users, known, history, bound) ==
  [accounts |-> users, listed |-> known, chain |-> history,
   incidents |-> bound]

Foretold == <<Created("nothing"), Predicted("nothing")>>
Nameless == <<Created("market"), Predicted("nothing")>>

(* Bob predicts on a market the backend knows; before he has an account; on *)
(* one whose creation cannot be read; and while all of it happens.          *)
SomeStarts ==
  {Start({alice, bob}, TRUE, Foretold, 2), Start({alice}, FALSE, Foretold, 2),
   Start({alice, bob}, FALSE, Nameless, 1), Start({alice, bob}, FALSE, <<>>, 0)}
=============================================================================
