------------------------------ MODULE Platform ------------------------------
(***************************************************************************)
(* What every entry point of the market-maker contract shares: the ledger  *)
(* clock, the Config entry and the list of registered users.               *)
(*                                                                         *)
(* A Soroban invocation is atomic: an entry point that returns an error    *)
(* leaves no trace.  Each action below is one successful invocation, its   *)
(* guards are the checks the code makes, and a call that fails is a        *)
(* stuttering step.                                                        *)
(***************************************************************************)
EXTENDS Integers, FiniteSets

CONSTANTS
  Users,         \* wallets that create markets, predict and dispute
  Admin,         \* the administrator given to initialize
  Oracle,        \* the oracle address given to initialize
  Contract,      \* the contract's own address, holder of the escrow
  MaxTime,       \* bound: the last ledger timestamp explored
  ProtocolFees,  \* bound: protocol fees, in basis points, the admin sets
  MinStakes,     \* bound: platform stake floors
  PauseValues,   \* bound: values set_paused is called with
  NewAdmins,     \* bound: addresses the admin role is transferred to
  NewOracles     \* bound: addresses the oracle role is transferred to

Accounts == Users \cup NewAdmins \cup NewOracles \cup {Admin, Oracle, Contract}

BPS == 10000           \* 100 % in basis points

MaxCreatorFee == 500   \* Config.max_creator_fee_bps, fixed by initialize

ASSUME PlatformAssumption ==
  /\ IsFiniteSet(Users)
  /\ Contract \notin Users \cup NewAdmins \cup NewOracles \cup {Admin, Oracle}
  /\ MaxTime \in Nat
  /\ ProtocolFees \subseteq 0..BPS
  /\ ProtocolFees # {}
  /\ MinStakes \subseteq Nat \ {0}
  /\ MinStakes # {}
  /\ PauseValues \subseteq BOOLEAN

VARIABLES
  now,       \* env.ledger().timestamp()
  cfg,       \* DataKey::Config
  userList   \* DataKey::UserList, without its order

platformVars == <<now, cfg, userList>>

Config ==
  [admin : Accounts, oracle : Accounts, feeBps : 0..BPS,
   minStake : Nat \ {0}, paused : BOOLEAN]

PlatformTypeOK ==
  /\ now \in Nat
  /\ cfg \in Config
  /\ userList \subseteq Users

(* The state initialize leaves: it runs once, before any other call. *)
PlatformInit ==
  /\ now = 0
  /\ userList = {}
  /\ \E fee \in ProtocolFees, floor \in MinStakes :
       cfg = [admin |-> Admin, oracle |-> Oracle, feeBps |-> fee,
              minStake |-> floor, paused |-> FALSE]

NotPaused == ~cfg.paused

(* Ledgers close at their own pace. *)
Tick ==
  /\ now < MaxTime
  /\ now' = now + 1
  /\ UNCHANGED <<cfg, userList>>

SetPaused(p) ==
  /\ cfg' = [cfg EXCEPT !.paused = p]
  /\ UNCHANGED <<now, userList>>

UpdateProtocolFee(fee) ==
  /\ fee <= BPS
  /\ cfg' = [cfg EXCEPT !.feeBps = fee]
  /\ UNCHANGED <<now, userList>>

TransferAdmin(a) ==
  /\ cfg' = [cfg EXCEPT !.admin = a]
  /\ UNCHANGED <<now, userList>>

UpdateOracle(a) ==
  /\ cfg' = [cfg EXCEPT !.oracle = a]
  /\ UNCHANGED <<now, userList>>

ConfigNext ==
  \/ \E p \in PauseValues : SetPaused(p)
  \/ \E fee \in ProtocolFees : UpdateProtocolFee(fee)
  \/ \E a \in NewAdmins : TransferAdmin(a)
  \/ \E a \in NewOracles : UpdateOracle(a)

(* track_user_profile: the user enters the list once. *)
TrackUsers(S) == userList' = userList \cup S
=============================================================================
