------------------------------- MODULE Purses -------------------------------
(***************************************************************************)
(* What the market-maker promises its predictors: although one balance     *)
(* backs every market, each market behaves as a purse of its own.  Stakes  *)
(* go in while the market is open.  They come out either as payouts once   *)
(* it is decided, never to the same predictor twice and never more than    *)
(* the purse holds, or all at once when it is cancelled, to everyone.  A   *)
(* decision may be taken back only as long as nobody was settled.          *)
(***************************************************************************)
EXTENDS Integers

CONSTANTS
  Markets,
  Predictors,
  Amounts      \* what may be staked at once

VARIABLES
  phase,    \* "absent", "open", "decided" or "cancelled"
  purse,    \* what is left of the stakes
  backers,  \* who staked
  settled   \* who was paid or refunded

purseVars == <<phase, purse, backers, settled>>

PursesTypeOK ==
  /\ phase \in [Markets -> {"absent", "open", "decided", "cancelled"}]
  /\ purse \in [Markets -> Nat]
  /\ backers \in [Markets -> SUBSET Predictors]
  /\ settled \in [Markets -> SUBSET Predictors]

PursesInit ==
  /\ phase = [m \in Markets |-> "absent"]
  /\ purse = [m \in Markets |-> 0]
  /\ backers = [m \in Markets |-> {}]
  /\ settled = [m \in Markets |-> {}]

Open(m) ==
  /\ phase[m] = "absent"
  /\ phase' = [phase EXCEPT ![m] = "open"]
  /\ UNCHANGED <<purse, backers, settled>>

Back(m, u, amount) ==
  /\ phase[m] = "open"
  /\ u \notin backers[m]
  /\ backers' = [backers EXCEPT ![m] = @ \cup {u}]
  /\ purse' = [purse EXCEPT ![m] = @ + amount]
  /\ UNCHANGED <<phase, settled>>

(* Deciding one market or none cancels others: its conditional children,   *)
(* or a market and its children when the admin cancels.                    *)
Close(decided, cancelled) ==
  /\ decided \cap cancelled = {}
  /\ \A m \in decided \cup cancelled : phase[m] = "open"
  /\ phase' = [m \in Markets |-> IF m \in decided THEN "decided"
                                 ELSE IF m \in cancelled THEN "cancelled"
                                 ELSE phase[m]]
  /\ purse' = [m \in Markets |-> IF m \in cancelled THEN 0 ELSE purse[m]]
  /\ settled' = [m \in Markets |-> IF m \in cancelled THEN backers[m]
                                   ELSE settled[m]]
  /\ UNCHANGED backers

Reopen(m) ==
  /\ phase[m] = "decided"
  /\ settled[m] = {}
  /\ phase' = [phase EXCEPT ![m] = "open"]
  /\ UNCHANGED <<purse, backers, settled>>

Settle(m, S, left) ==
  /\ phase[m] = "decided"
  /\ S \subseteq backers[m] \ settled[m]
  /\ settled' = [settled EXCEPT ![m] = @ \cup S]
  /\ purse' = [purse EXCEPT ![m] = left]
  /\ UNCHANGED <<phase, backers>>

PursesNext ==
  \/ \E m \in Markets : Open(m) \/ Reopen(m)
  \/ \E m \in Markets, u \in Predictors, amount \in Amounts : Back(m, u, amount)
  \/ \E decided, cancelled \in SUBSET Markets : Close(decided, cancelled)
  \/ \E m \in Markets, S \in SUBSET Predictors :
       \E left \in 0..purse[m] : Settle(m, S, left)

PursesSpec == PursesInit /\ [][PursesNext]_purseVars
=============================================================================
