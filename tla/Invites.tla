------------------------------ MODULE Invites ------------------------------
(***************************************************************************)
(* Private markets: the invite codes their creators issue and the          *)
(* allowlists that redeeming a code extends, composed with MarketMaker,    *)
(* whose submit_prediction reads the allowlists.                           *)
(***************************************************************************)
EXTENDS MarketMaker

CONSTANTS
  UseLimits,   \* bound: max_uses given to generate_invite_code
  Lifetimes,   \* bound: expires_in_seconds given to generate_invite_code
  MaxIssued    \* bound: uses granted for one market

ASSUME InviteAssumption ==
  /\ UseLimits \subseteq Nat \ {0}
  /\ Lifetimes \subseteq Nat
  /\ MaxIssued \in Nat

VARIABLES
  invites,   \* DataKey::InviteCode(code)
  issued     \* history: the uses granted by the codes issued for a market

inviteVars == <<invites, issued>>

privateVars == <<vars, inviteVars>>

Codes == MarketIds \X (0..MaxTime)

(* Fault: the ledger is left out of the hash. *)
Code_PerMarket(m) == <<m, 0>>

(* A code is a hash of the market, its creator and the ledger it is made    *)
(* in: a second code of a market in the same ledger is the same symbol.     *)
Code(m) == <<m, now>>

Invite ==
  [creator : Users, maxUses : Nat \ {0}, uses : Nat, expiresAt : Nat,
   active : BOOLEAN]

InvitesTypeOK ==
  /\ TypeOK
  /\ invites \in [Codes -> Invite \cup {None}]
  /\ \A code \in Codes :
       invites[code] # None => invites[code].uses <= invites[code].maxUses
  /\ issued \in [MarketIds -> Nat]

PrivateInit ==
  /\ Init
  /\ invites = [code \in Codes |-> None]
  /\ issued = [m \in MarketIds |-> 0]

-----------------------------------------------------------------------------

(* Whether the code was issued before is not looked at.                     *)
GenerateInvite(c, m, limit, lifetime) ==
  /\ m \in Created
  /\ market[m].creator = c
  /\ ~market[m].isPublic
  /\ issued[m] + limit <= MaxIssued
  /\ invites' = [invites EXCEPT ![Code(m)] =
       [creator |-> c, maxUses |-> limit, uses |-> 0,
        expiresAt |-> now + lifetime, active |-> TRUE]]
  /\ issued' = [issued EXCEPT ![m] = @ + limit]
  /\ UNCHANGED vars

(* Fault: the limit is overrun by one. *)
Redeemable_OffByOne(code) ==
  /\ invites[code] # None
  /\ invites[code].active
  /\ now < invites[code].expiresAt
  /\ invites[code].uses <= invites[code].maxUses

Redeemable(code) ==
  /\ invites[code] # None
  /\ invites[code].active
  /\ now < invites[code].expiresAt
  /\ invites[code].uses < invites[code].maxUses

(* A use is spent also by someone on the list already; a pause does not     *)
(* matter.                                                                  *)
RedeemInvite(u, code) ==
  /\ Redeemable(code)
  /\ allowlist' = [allowlist EXCEPT ![code[1]] = @ \cup {u}]
  /\ invites' = [invites EXCEPT ![code].uses = @ + 1]
  /\ UNCHANGED <<platformVars, marketVars, stakeVars, disputeVars, moneyVars,
                 statVars, historyVars, issued>>

RevokeInvite(c, code) ==
  /\ invites[code] # None
  /\ invites[code].creator = c
  /\ invites' = [invites EXCEPT ![code].active = FALSE]
  /\ UNCHANGED <<vars, issued>>

PrivateNext ==
  \/ Next /\ UNCHANGED inviteVars
  \/ \E c \in Creators, m \in Created, limit \in UseLimits, lifetime \in Lifetimes :
       GenerateInvite(c, m, limit, lifetime)
  \/ \E u \in Users, code \in Codes : RedeemInvite(u, code)
  \/ \E c \in Creators, code \in Codes : RevokeInvite(c, code)

PrivateSpec == PrivateInit /\ [][PrivateNext]_privateVars

-----------------------------------------------------------------------------
(* Nobody stakes on a private market without having been let in, and nobody *)
(* let in is ever put out again: predictors stay on the allowlist.          *)
OnlyInvitedPredict ==
  \A m \in Created :
    ~market[m].isPublic => Range(predictors[m]) \subseteq allowlist[m]

(* A market never admits more people than its creator granted uses for,     *)
(* whatever mix of codes, expiries, revocations and reissues.               *)
AdmittedWithinGrants ==
  \A m \in MarketIds : Cardinality(allowlist[m]) <= issued[m]

(* Once the ledger it was issued in is over, a code that is spent, expired  *)
(* or revoked, or was never issued, admits nobody any more: no later code   *)
(* of the market takes its place.                                           *)
DeadCodesStayDead ==
  [][\A code \in Codes : code[2] < now /\ ~Redeemable(code) => ~Redeemable(code)']_privateVars
=============================================================================
