-------------------------- MODULE Platform_proofs --------------------------
(***************************************************************************)
(* What holds of the parts of the market-maker that share the Config entry *)
(* and the balance without touching a market: governance, liquidity pools  *)
(* and seasons, for any numbers of proposals, voters, markets, providers,  *)
(* seasons and amounts.                                                    *)
(*                                                                         *)
(* Governance: the tallies, the records of who voted and the executions    *)
(* are only inductive together.  An execution is backed by its tally       *)
(* because an executed proposal takes no votes, and happens once because   *)
(* everything enacted is marked executed.                                  *)
(*                                                                         *)
(* Rewards: that a withdrawal never takes the supply below zero rests on   *)
(* what all providers hold together, and that a prize can be paid on what  *)
(* all pools and seasons are owed together.  Both are sums over finite     *)
(* sets: each step moves one term, and Sums says what that does to the     *)
(* sum.                                                                    *)
(***************************************************************************)
EXTENDS Governance, Rewards, Sums

(* The clock, the Config entry and the user list start in their types. *)
LEMMA PlatformInitTyped == PlatformInit => PlatformTypeOK
<1> SUFFICES ASSUME PlatformInit PROVE PlatformTypeOK
  OBVIOUS
<1>1. PICK fee \in ProtocolFees, floor \in MinStakes :
        cfg = [admin |-> Admin, oracle |-> Oracle, feeBps |-> fee,
               minStake |-> floor, paused |-> FALSE]
  BY DEF PlatformInit
<1>2. fee \in 0..BPS /\ floor \in Nat \ {0} /\ Admin \in Accounts /\ Oracle \in Accounts
  BY PlatformAssumption DEF PlatformAssumption, Accounts
<1>3. cfg \in Config
  BY <1>1, <1>2 DEF Config
<1> QED BY <1>3 DEF PlatformInit, PlatformTypeOK

(* Neither the clock nor an admin call takes the Config entry out of its    *)
(* type.                                                                    *)
LEMMA ConfigTyped ==
  ASSUME PlatformTypeOK, Tick \/ ConfigNext
  PROVE  PlatformTypeOK'
<1>1. CASE Tick
  BY <1>1 DEF Tick, PlatformTypeOK
<1>2. ASSUME NEW p \in PauseValues, SetPaused(p) PROVE PlatformTypeOK'
  <2>1. p \in BOOLEAN
    BY PlatformAssumption DEF PlatformAssumption
  <2> QED BY <1>2, <2>1, Zenon DEF SetPaused, PlatformTypeOK, Config
<1>3. ASSUME NEW fee \in ProtocolFees, UpdateProtocolFee(fee) PROVE PlatformTypeOK'
  <2>1. fee \in 0..BPS
    BY PlatformAssumption DEF PlatformAssumption
  <2> QED BY <1>3, <2>1 DEF UpdateProtocolFee, PlatformTypeOK, Config
<1>4. ASSUME NEW a \in NewAdmins, TransferAdmin(a) PROVE PlatformTypeOK'
  BY <1>4 DEF TransferAdmin, PlatformTypeOK, Config, Accounts
<1>5. ASSUME NEW a \in NewOracles, UpdateOracle(a) PROVE PlatformTypeOK'
  BY <1>5 DEF UpdateOracle, PlatformTypeOK, Config, Accounts
<1> QED BY <1>1, <1>2, <1>3, <1>4, <1>5 DEF ConfigNext

-----------------------------------------------------------------------------
(* Governance. *)

(* Nobody has voted on a proposal before it exists. *)
FreshIds == \A i \in Ids : i > Len(proposals) => voted[i] = {}

GovInv ==
  /\ GovTypeOK
  /\ VotesCounted
  /\ FreshIds
  /\ EnactedByMajority
  /\ EnactedOnce

(* Integer division, as every share and fee uses it. *)
LEMMA Division ==
  ASSUME NEW n \in Nat, NEW d \in Nat \ {0}
  PROVE  /\ Floor(n, d) \in Nat
         /\ d * Floor(n, d) <= n
         /\ n < d * Floor(n, d) + d
  BY DEF Floor

(* The quorum is the least number of votes that makes the required part of  *)
(* the users (a tenth), and at least one.                                   *)
LEMMA QuorumIsAPart ==
  ASSUME NEW n \in Nat, NEW votes \in Nat
  PROVE  votes >= Quorum(n) <=> votes > 0 /\ QuorumPart * votes >= n
<1> PICK k : k = QuorumPart
  OBVIOUS
<1>1. k \in Nat \ {0} /\ k * votes \in Nat
  BY GovernanceAssumption DEF GovernanceAssumption
<1>2. CASE n = 0
  BY <1>1, <1>2 DEF Quorum
<1>3. CASE n # 0
  <2> PICK m, q : m = n + k - 1 /\ q = Floor(m, k)
    OBVIOUS
  <2>1. m \in Nat
    BY <1>1
  <2>2. q \in Nat /\ k * q <= m /\ m < k * q + k
    BY <1>1, <2>1, Division
  <2>3. Quorum(n) = q
    BY <1>3 DEF Quorum, Floor
  <2>4. ASSUME votes >= q PROVE votes > 0 /\ k * votes >= n
    <3>1. q # 0
      BY <1>1, <1>3, <2>2
    <3>2. k * votes >= k * q
      BY <1>1, <2>2, <2>4
    <3> QED BY <1>1, <2>2, <2>4, <3>1, <3>2
  <2>5. ASSUME votes < q PROVE k * votes < n
    <3>1. k * (votes + 1) <= k * q
      BY <1>1, <2>2, <2>5
    <3> QED BY <1>1, <2>2, <3>1
  <2> QED BY <1>1, <2>2, <2>3, <2>4, <2>5
<1> QED BY <1>2, <1>3

(* The entry of a proposal that exists, and that of one only cast or tallied. *)
LEMMA ProposalEntry ==
  ASSUME GovInv, NEW i \in DOMAIN proposals
  PROVE  /\ i \in Ids
         /\ proposals[i] \in Proposal
         /\ proposals[i].votesFor \in Nat
         /\ proposals[i].votesAgainst \in Nat
         /\ IsFiniteSet(voted[i])
<1>1. proposals \in Seq(Proposal) /\ Len(proposals) <= MaxProposals
  BY DEF GovInv, GovTypeOK
<1>2. i \in Ids /\ proposals[i] \in Proposal
  BY <1>1, GovernanceAssumption DEF Ids, GovernanceAssumption
<1>3. proposals[i].votesFor \in Nat /\ proposals[i].votesAgainst \in Nat
  BY <1>2 DEF Proposal
<1>4. voted[i] \subseteq Voters
  BY <1>2 DEF GovInv, GovTypeOK
<1>5. IsFiniteSet(voted[i])
  BY <1>4, GovernanceAssumption, FS_Subset DEF GovernanceAssumption
<1> QED BY <1>2, <1>3, <1>5

LEMMA GovInitInv ==
  ASSUME GovInit
  PROVE  GovInv
<1>1. PlatformTypeOK
  BY PlatformInitTyped DEF GovInit
<1>2. proposals = <<>> /\ enacted = <<>> /\ \A i \in Ids : voted[i] = {}
  BY DEF GovInit
<1>3. GovTypeOK
  BY <1>1, <1>2, GovernanceAssumption
  DEF GovInit, GovTypeOK, GovernanceAssumption
<1> QED BY <1>2, <1>3
        DEF GovInv, VotesCounted, FreshIds, EnactedByMajority, EnactedOnce

-----------------------------------------------------------------------------
(* The clock and the Config entry may change freely, within their types. *)
LEMMA PlatformOnly ==
  ASSUME GovInv, PlatformTypeOK', UNCHANGED <<proposals, voted, enacted>>
  PROVE  GovInv'
  BY DEF GovInv, GovTypeOK, VotesCounted, Votes, FreshIds, EnactedByMajority, Backed,
         EnactedOnce

LEMMA CreateProposalInv ==
  ASSUME GovInv, NEW u \in Proposers, NEW change \in Changes,
         NEW duration \in Durations, CreateProposal(u, change, duration)
  PROVE  GovInv'
<1> DEFINE new == [proposer |-> u, change |-> change, votesFor |-> 0,
                   votesAgainst |-> 0, votingEnd |-> now + duration,
                   executed |-> FALSE, cancelled |-> FALSE]
           n == Len(proposals) + 1
<1>1. /\ proposals \in Seq(Proposal)
      /\ Len(proposals) < MaxProposals
      /\ proposals' = Append(proposals, new)
      /\ UNCHANGED <<platformVars, voted, enacted>>
  BY DEF GovInv, GovTypeOK, CreateProposal
<1>2. new \in Proposal
  <2>1. now + duration \in Nat
    BY GovernanceAssumption DEF GovernanceAssumption, GovInv, GovTypeOK, PlatformTypeOK
  <2> QED BY <2>1 DEF Proposal
<1> HIDE DEF new
<1>3. /\ proposals' \in Seq(Proposal)
      /\ Len(proposals') = n
      /\ DOMAIN proposals' = DOMAIN proposals \cup {n}
      /\ \A i \in DOMAIN proposals : proposals'[i] = proposals[i]
      /\ proposals'[n] = new
      /\ n = Len(proposals) + 1
  BY <1>1, <1>2
<1> HIDE DEF n
<1>4. GovTypeOK'
  BY <1>1, <1>3, GovernanceAssumption
  DEF GovInv, GovTypeOK, PlatformTypeOK, platformVars, GovernanceAssumption
<1>5. VotesCounted'
  <2>1. n \in Ids /\ n > Len(proposals)
    BY <1>1, <1>3, GovernanceAssumption DEF Ids, GovernanceAssumption
  <2>2. voted[n] = {} /\ Cardinality({}) = 0
    BY <2>1, FS_EmptySet DEF GovInv, FreshIds
  <2>3. new.votesFor = 0 /\ new.votesAgainst = 0
    BY DEF new
  <2>4. \A i \in DOMAIN proposals :
          proposals[i].votesFor + proposals[i].votesAgainst = Cardinality(voted[i])
    BY DEF GovInv, VotesCounted, Votes
  <2>5. ASSUME NEW i \in DOMAIN proposals'
        PROVE  Votes(i)' = Cardinality(voted'[i])
    <3>1. voted' = voted
      BY <1>1
    <3>2. CASE i = n
      <4>1. Votes(i)' = 0
        BY <1>3, <2>3, <3>2 DEF Votes
      <4> QED BY <2>2, <3>1, <3>2, <4>1
    <3>3. CASE i # n
      BY <1>3, <2>4, <3>1, <3>3 DEF Votes
    <3> QED BY <3>2, <3>3
  <2> QED BY <2>5 DEF VotesCounted
<1>6. FreshIds'
  <2>1. Ids \subseteq Nat /\ Len(proposals) \in Nat
    BY <1>1 DEF Ids
  <2>2. voted' = voted
    BY <1>1
  <2>3. \A i \in Ids : i > Len(proposals) => voted[i] = {}
    BY DEF FreshIds, GovInv
  <2>4. \A i \in Ids : i > Len(proposals') => i > Len(proposals)
    BY <1>3, <2>1
  <2> QED BY <2>2, <2>3, <2>4 DEF FreshIds
<1>7. EnactedByMajority' /\ EnactedOnce'
  BY <1>1, <1>3 DEF GovInv, EnactedByMajority, Backed, EnactedOnce, Votes
<1> QED BY <1>4, <1>5, <1>6, <1>7 DEF GovInv

(* What CancelProposal, Vote and Execute have in common. *)
LEMMA EntryUpdate ==
  ASSUME GovInv, NEW i \in DOMAIN proposals, NEW r \in Proposal,
         proposals' = [proposals EXCEPT ![i] = r]
  PROVE  /\ proposals' \in Seq(Proposal)
         /\ Len(proposals') = Len(proposals)
         /\ DOMAIN proposals' = DOMAIN proposals
         /\ proposals'[i] = r
         /\ \A j \in DOMAIN proposals \ {i} : proposals'[j] = proposals[j]
  BY DEF GovInv, GovTypeOK

LEMMA CancelProposalInv ==
  ASSUME GovInv, NEW u \in Accounts \cup Proposers, NEW i \in DOMAIN proposals,
         CancelProposal(u, i)
  PROVE  GovInv'
<1> DEFINE r == [proposals[i] EXCEPT !.cancelled = TRUE]
<1>1. /\ proposals' = [proposals EXCEPT ![i] = r]
      /\ UNCHANGED <<platformVars, voted, enacted>>
  BY DEF CancelProposal
<1>2. /\ r \in Proposal
      /\ r.votesFor = proposals[i].votesFor
      /\ r.votesAgainst = proposals[i].votesAgainst
      /\ r.executed = proposals[i].executed
  BY ProposalEntry DEF Proposal
<1> HIDE DEF r
<1>3. /\ proposals' \in Seq(Proposal)
      /\ Len(proposals') = Len(proposals)
      /\ DOMAIN proposals' = DOMAIN proposals
      /\ proposals'[i] = r
      /\ \A j \in DOMAIN proposals \ {i} : proposals'[j] = proposals[j]
  BY <1>1, <1>2, EntryUpdate
<1>4. \A j \in DOMAIN proposals : /\ Votes(j)' = Votes(j)
                                  /\ proposals'[j].executed = proposals[j].executed
                                  /\ proposals'[j].votesFor = proposals[j].votesFor
                                  /\ proposals'[j].votesAgainst = proposals[j].votesAgainst
  BY <1>2, <1>3 DEF Votes
<1>5. GovTypeOK'
  BY <1>1, <1>3 DEF GovInv, GovTypeOK, PlatformTypeOK, platformVars
<1>6. VotesCounted' /\ FreshIds'
  BY <1>1, <1>3, <1>4 DEF GovInv, VotesCounted, FreshIds
<1>7. EnactedByMajority' /\ EnactedOnce'
  BY <1>1, <1>3, <1>4 DEF GovInv, EnactedByMajority, Backed, EnactedOnce
<1> QED BY <1>5, <1>6, <1>7 DEF GovInv

LEMMA VoteInv ==
  ASSUME GovInv, NEW u \in Voters, NEW i \in DOMAIN proposals,
         NEW inFavour \in BOOLEAN, Vote(u, i, inFavour)
  PROVE  GovInv'
<1> DEFINE yeas == proposals[i].votesFor + IF inFavour THEN 1 ELSE 0
           nays == proposals[i].votesAgainst + IF inFavour THEN 0 ELSE 1
           r == [proposals[i] EXCEPT !.votesFor = yeas, !.votesAgainst = nays]
<1>1. /\ proposals' = [proposals EXCEPT ![i] = r]
      /\ voted' = [voted EXCEPT ![i] = voted[i] \cup {u}]
      /\ UNCHANGED <<platformVars, enacted>>
      /\ ~proposals[i].executed
      /\ u \notin voted[i]
  BY DEF Vote, VotingOpen, MayVote
<1>2. /\ yeas \in Nat /\ nays \in Nat
      /\ yeas + nays = Votes(i) + 1
  BY ProposalEntry DEF Votes
<1> HIDE DEF yeas, nays
<1>3. r \in Proposal /\ r.votesFor = yeas /\ r.votesAgainst = nays
  BY <1>2, ProposalEntry DEF Proposal
<1> HIDE DEF r
<1>4. /\ proposals' \in Seq(Proposal)
      /\ Len(proposals') = Len(proposals)
      /\ DOMAIN proposals' = DOMAIN proposals
      /\ proposals'[i] = r
      /\ \A j \in DOMAIN proposals \ {i} : proposals'[j] = proposals[j]
  BY <1>1, <1>3, EntryUpdate
<1>5. /\ voted' \in [Ids -> SUBSET Voters]
      /\ voted'[i] = voted[i] \cup {u}
      /\ \A j \in Ids \ {i} : voted'[j] = voted[j]
  BY <1>1, ProposalEntry DEF GovInv, GovTypeOK
<1>6. GovTypeOK'
  BY <1>1, <1>4, <1>5 DEF GovInv, GovTypeOK, PlatformTypeOK, platformVars
<1>7. VotesCounted'
  <2>1. Votes(i)' = Votes(i) + 1
    BY <1>2, <1>3, <1>4 DEF Votes
  <2>2. Cardinality(voted'[i]) = Cardinality(voted[i]) + 1
    BY <1>1, <1>5, ProposalEntry, FS_AddElement
  <2>3. \A j \in DOMAIN proposals \ {i} : Votes(j)' = Votes(j)
    BY <1>4 DEF Votes
  <2>4. \A j \in DOMAIN proposals : Votes(j) = Cardinality(voted[j]) /\ j \in Ids
    BY ProposalEntry DEF GovInv, VotesCounted
  <2> QED BY <1>4, <1>5, <2>1, <2>2, <2>3, <2>4 DEF VotesCounted
<1>8. FreshIds'
  <2>1. i <= Len(proposals) /\ Ids \subseteq Nat /\ Len(proposals) \in Nat
    BY DEF Ids, GovInv, GovTypeOK
  <2> QED BY <1>4, <1>5, <2>1 DEF FreshIds, GovInv
<1>9. EnactedByMajority' /\ EnactedOnce'
  <2>1. \A k \in DOMAIN enacted : enacted[k].id \in DOMAIN proposals \ {i}
    BY <1>1 DEF GovInv, EnactedByMajority, Backed
  <2> QED BY <1>1, <1>4, <2>1 DEF GovInv, EnactedByMajority, Backed, EnactedOnce, Votes
<1> QED BY <1>6, <1>7, <1>8, <1>9 DEF GovInv

(* An executed change keeps the Config entry within its type. *)
LEMMA AppliedTyped ==
  ASSUME PlatformTypeOK, NEW change \in Changes, Lawful(change)
  PROVE  Applied(change) \in Config
<1>1. change \in Change /\ cfg \in Config
  BY GovernanceAssumption DEF GovernanceAssumption, PlatformTypeOK
<1>2. CASE change.kind = "fee"
  <2>1. change.bps \in Nat
    BY <1>1, <1>2 DEF Change
  <2>2. change.bps <= BPS
    BY <1>2 DEF Lawful
  <2>3. \A b \in Nat : b <= BPS => b \in 0..BPS
    BY DEF BPS
  <2>4. change.bps \in 0..BPS
    BY <2>1, <2>2, <2>3, Zenon
  <2>5. Applied(change) = [cfg EXCEPT !.feeBps = change.bps]
    BY <1>2 DEF Applied
  <2> QED BY <1>1, <2>4, <2>5 DEF Config
<1>3. CASE change.kind = "oracle"
  <2>1. change.oracle \in Accounts
    BY <1>1, <1>3 DEF Change
  <2> QED BY <1>1, <1>3, <2>1 DEF Applied, Config
<1>4. CASE change.kind = "minStake"
  <2>1. change.amount \in Nat \ {0}
    BY <1>1, <1>4 DEF Change, Lawful
  <2> QED BY <1>1, <1>4, <2>1 DEF Applied, Config
<1>5. CASE change.kind \notin {"fee", "oracle", "minStake"}
  BY <1>1, <1>5 DEF Applied
<1> QED BY <1>2, <1>3, <1>4, <1>5

LEMMA ExecuteInv ==
  ASSUME GovInv, NEW i \in DOMAIN proposals, Execute(i)
  PROVE  GovInv'
<1> DEFINE r == [proposals[i] EXCEPT !.executed = TRUE]
           users == Cardinality(userList)
           entry == [id |-> i, users |-> users]
           n == Len(enacted) + 1
<1>1. /\ proposals' = [proposals EXCEPT ![i] = r]
      /\ enacted' = Append(enacted, entry)
      /\ cfg' = Applied(proposals[i].change)
      /\ UNCHANGED <<now, userList, voted>>
      /\ ~proposals[i].executed
      /\ Lawful(proposals[i].change)
      /\ proposals[i].votesFor + proposals[i].votesAgainst >= Quorum(users)
      /\ proposals[i].votesFor > proposals[i].votesAgainst
  BY DEF Execute, Executable, Passed
<1>2. users \in Nat
  <2>1. IsFiniteSet(Users) /\ userList \subseteq Users
    BY PlatformAssumption DEF PlatformAssumption, GovInv, GovTypeOK, PlatformTypeOK
  <2> QED BY <2>1, FS_Subset, FS_CardinalityType
<1> HIDE DEF users
<1>3. QuorumPart * Votes(i) >= users
  BY <1>1, <1>2, ProposalEntry, QuorumIsAPart DEF Votes
<1>4. /\ r \in Proposal
      /\ r.votesFor = proposals[i].votesFor
      /\ r.votesAgainst = proposals[i].votesAgainst
      /\ r.executed
  BY ProposalEntry DEF Proposal
<1> HIDE DEF r
<1>5. /\ proposals' \in Seq(Proposal)
      /\ Len(proposals') = Len(proposals)
      /\ DOMAIN proposals' = DOMAIN proposals
      /\ proposals'[i] = r
      /\ \A j \in DOMAIN proposals \ {i} : proposals'[j] = proposals[j]
  BY <1>1, <1>4, EntryUpdate
<1>6. /\ entry \in [id : Ids, users : Nat]
      /\ entry.id = i /\ entry.users = users
  BY <1>2, ProposalEntry
<1> HIDE DEF entry
<1>7. enacted \in Seq([id : Ids, users : Nat])
  BY DEF GovInv, GovTypeOK
<1>8. /\ enacted' \in Seq([id : Ids, users : Nat])
      /\ DOMAIN enacted' = DOMAIN enacted \cup {n}
      /\ enacted'[n] = entry
      /\ \A k \in DOMAIN enacted : k # n /\ enacted'[k] = enacted[k]
  BY <1>1, <1>6, <1>7
<1> HIDE DEF n
<1>9. \A k \in DOMAIN enacted : enacted[k].id \in DOMAIN proposals \ {i}
  BY <1>1 DEF GovInv, EnactedByMajority, Backed
<1>10. \A j \in DOMAIN proposals : Votes(j)' = Votes(j)
  BY <1>4, <1>5 DEF Votes
<1>11. GovTypeOK'
  <2>1. proposals[i].change \in Changes /\ PlatformTypeOK
    BY ProposalEntry DEF Proposal, GovInv, GovTypeOK
  <2>2. cfg' \in Config
    BY <1>1, <2>1, AppliedTyped
  <2> QED BY <1>1, <1>5, <1>8, <2>2 DEF GovInv, GovTypeOK, PlatformTypeOK
<1>12. VotesCounted' /\ FreshIds'
  BY <1>1, <1>5, <1>10 DEF GovInv, VotesCounted, FreshIds
<1>13. EnactedByMajority'
  <2>1. ASSUME NEW k \in DOMAIN enacted
        PROVE  Backed(k)'
    <3>1. /\ enacted'[k] = enacted[k]
          /\ enacted[k].id \in DOMAIN proposals \ {i}
          /\ Backed(k)
      BY <1>8, <1>9 DEF GovInv, EnactedByMajority
    <3>2. /\ proposals'[enacted[k].id] = proposals[enacted[k].id]
          /\ Votes(enacted[k].id)' = Votes(enacted[k].id)
      BY <1>5, <1>10, <3>1
    <3> QED BY <1>5, <3>1, <3>2 DEF Backed, Votes
  <2>2. /\ proposals'[i].executed
        /\ proposals'[i].votesFor > proposals'[i].votesAgainst
        /\ QuorumPart * Votes(i)' >= users
    BY <1>1, <1>3, <1>4, <1>5, <1>10
  <2>3. enacted'[n].id = i /\ enacted'[n].users = users
    BY <1>6, <1>8
  <2>4. ASSUME NEW k \in DOMAIN enacted', k = n
        PROVE  Backed(k)'
    <3>1. enacted'[k].id = i /\ enacted'[k].users = users
      BY <2>3, <2>4
    <3> QED BY <1>5, <2>2, <3>1 DEF Backed, Votes
  <2> QED BY <1>8, <2>1, <2>4 DEF EnactedByMajority
<1>14. EnactedOnce'
  BY <1>6, <1>8, <1>9 DEF GovInv, EnactedOnce
<1> QED BY <1>11, <1>12, <1>13, <1>14 DEF GovInv

LEMMA GovNextInv ==
  ASSUME GovInv, [GovNext]_govVars
  PROVE  GovInv'
<1>1. CASE (Tick \/ ConfigNext) /\ UNCHANGED <<proposals, voted, enacted>>
  BY <1>1, ConfigTyped, PlatformOnly DEF GovInv, GovTypeOK
<1>2. ASSUME NEW u \in Users, Register(u) PROVE GovInv'
  <2>1. PlatformTypeOK' /\ UNCHANGED <<proposals, voted, enacted>>
    BY <1>2 DEF Register, TrackUsers, GovInv, GovTypeOK, PlatformTypeOK
  <2> QED BY <2>1, PlatformOnly
<1>3. CASE UNCHANGED govVars
  <2>1. PlatformTypeOK' /\ UNCHANGED <<proposals, voted, enacted>>
    BY <1>3 DEF govVars, platformVars, GovInv, GovTypeOK, PlatformTypeOK
  <2> QED BY <2>1, PlatformOnly
<1> QED BY <1>1, <1>2, <1>3, CreateProposalInv, VoteInv, ExecuteInv,
           CancelProposalInv DEF GovNext

-----------------------------------------------------------------------------
THEOREM GovInvariant == GovSpec => []GovInv
  BY GovInitInv, GovNextInv, PTL DEF GovSpec

(* No enactment is ever without the majority and the quorum on record, for  *)
(* any number of voters and users: execute_proposal against vote.           *)
THEOREM EnactedByMajorityAlways == GovSpec => []EnactedByMajority
<1>1. GovInv => EnactedByMajority
  BY DEF GovInv
<1> QED BY <1>1, GovInvariant, PTL

(* No proposal is ever executed twice.                                      *)
THEOREM EnactedOnceAlways == GovSpec => []EnactedOnce
<1>1. GovInv => EnactedOnce
  BY DEF GovInv
<1> QED BY <1>1, GovInvariant, PTL

(* The tallies of vote always count the accounts on record as having voted. *)
THEOREM VotesCountedAlways == GovSpec => []VotesCounted
<1>1. GovInv => VotesCounted
  BY DEF GovInv
<1> QED BY <1>1, GovInvariant, PTL

(* No vote, execution or admin call takes the Config entry out of its type. *)
THEOREM GovTypeCorrect == GovSpec => []GovTypeOK
<1>1. GovInv => GovTypeOK
  BY DEF GovInv
<1> QED BY <1>1, GovInvariant, PTL

-----------------------------------------------------------------------------
(* Liquidity: rounding. *)

LEMMA ExactDivision ==
  ASSUME NEW a \in Nat, NEW s \in Nat \ {0}
  PROVE  Floor(a * s, s) = a
<1> DEFINE q == Floor(a * s, s)
<1>1. a * s \in Nat
  OBVIOUS
<1>2. q \in Nat /\ s * q <= a * s /\ a * s < s * q + s
  BY <1>1, Division
<1> HIDE DEF q
<1>3. ASSUME q < a PROVE FALSE
  <2>1. s * (q + 1) <= s * a
    BY <1>2, <1>3
  <2> QED BY <1>2, <2>1
<1>4. ASSUME q > a PROVE FALSE
  <2>1. s * (a + 1) <= s * q
    BY <1>2, <1>4
  <2> QED BY <1>2, <2>1
<1> QED BY <1>2, <1>3, <1>4 DEF q

(* The constant product formula gives no more than keeps the product.       *)
LEMMA ConstantProduct ==
  ASSUME NEW x \in Nat \ {0}, NEW y \in Nat, NEW a \in Nat, NEW out \in Nat,
         (x + a) * out <= a * y
  PROVE  out <= y /\ (x + a) * (y - out) >= x * y
<1>1. (x + a) * (y - out) = x * y + a * y - (x + a) * out
  OBVIOUS
<1>2. (x + a) * (y - out) >= x * y /\ x * y >= 0
  BY <1>1
<1>3. ASSUME out > y PROVE FALSE
  <2>1. (x + a) * (y + 1) <= (x + a) * out
    BY <1>3
  <2>2. (x + a) * (y + 1) = x * y + a * y + x + a
    OBVIOUS
  <2> QED BY <2>1, <2>2
<1> QED BY <1>2, <1>3

(* What a swap gives is covered by the reserve, and the product stays.      *)
LEMMA SwapKeepsProduct ==
  ASSUME NEW amount \in Nat, NEW from \in Nat \ {0}, NEW to \in Nat
  PROVE  /\ SwapOutput(amount, from, to) \in 0..to
         /\ (from + amount) * (to - SwapOutput(amount, from, to)) >= from * to
<1> DEFINE gross == Floor(amount * to, from + amount)
           out == SwapOutput(amount, from, to)
<1>1. amount * to \in Nat /\ from + amount \in Nat \ {0}
  OBVIOUS
<1>2. gross \in Nat /\ (from + amount) * gross <= amount * to
  BY <1>1, Division
<1> HIDE DEF gross
<1>3. BPS - DEFAULT_FEE_BPS = 9970 /\ BPS \in Nat \ {0} /\ BPS = 10000
  BY DEF BPS, DEFAULT_FEE_BPS
<1>4. out = Floor(gross * 9970, BPS) /\ gross * 9970 \in Nat
  BY <1>2, <1>3 DEF SwapOutput, gross
<1>5. out \in Nat /\ 10000 * out <= gross * 9970
  BY <1>3, <1>4, Division
<1> HIDE DEF out
<1>6. out <= gross
  BY <1>2, <1>5
<1>7. (from + amount) * out <= amount * to
  <2>1. (from + amount) * out <= (from + amount) * gross
    BY <1>1, <1>2, <1>5, <1>6
  <2>2. /\ (from + amount) * out \in Nat /\ (from + amount) * gross \in Nat
        /\ amount * to \in Nat
    BY <1>1, <1>2, <1>5
  <2> HIDE DEF out, gross
  <2> QED BY <1>2, <2>1, <2>2
<1>8. out <= to /\ (from + amount) * (to - out) >= from * to
  BY <1>5, <1>7, ConstantProduct
<1> QED BY <1>5, <1>8 DEF out

-----------------------------------------------------------------------------
(* What the providers of a pool have, together. *)

Tok(p) == IF p = None THEN 0 ELSE p.tokens

Fee(p) == IF p = None THEN 0 ELSE p.fees

TokensIn(h) == [u \in Users |-> Tok(h[u])]

FeesIn(h) == [u \in Users |-> Fee(h[u])]

Holding(h) == SumFunctionOnSet(TokensIn(h), Users)

Earned(h) == SumFunctionOnSet(FeesIn(h), Users)

Positions == [Users -> Position \cup {None}]

(* A position on file is a natural number of tokens and of fees. *)
LEMMA PositionFacts ==
  /\ IsFiniteSet(Users)
  /\ \A p \in Position : p # None /\ p.tokens \in Nat /\ p.fees \in Nat
  /\ \A p \in Position \cup {None} : Tok(p) \in Nat /\ Fee(p) \in Nat
<1>1. IsFiniteSet(Users)
  BY PlatformAssumption DEF PlatformAssumption
<1>2. \A p \in Position : p # None /\ p.tokens \in Nat /\ p.fees \in Nat
  BY LiquidityAssumption DEF LiquidityAssumption, Position
<1>3. \A p \in Position \cup {None} : Tok(p) \in Nat /\ Fee(p) \in Nat
  BY <1>2 DEF Tok, Fee
<1> QED BY <1>1, <1>2, <1>3

LEMMA HoldingTyped ==
  ASSUME NEW h \in Positions
  PROVE  /\ Holding(h) \in Nat /\ Earned(h) \in Nat
         /\ \A u \in Users : Tok(h[u]) \in Nat /\ Fee(h[u]) \in Nat /\ Tok(h[u]) <= Holding(h)
<1>1. \A u \in Users : Tok(h[u]) \in Nat /\ Fee(h[u]) \in Nat
  BY PositionFacts DEF Positions
<1>2. \A u \in Users : TokensIn(h)[u] = Tok(h[u]) /\ FeesIn(h)[u] = Fee(h[u])
  BY DEF TokensIn, FeesIn
<1>3. (\A u \in Users : TokensIn(h)[u] \in Nat) /\ (\A u \in Users : FeesIn(h)[u] \in Nat)
  BY <1>1, <1>2
<1>4. Holding(h) \in Nat /\ Earned(h) \in Nat
  BY <1>3, PositionFacts, SumNat DEF Holding, Earned
<1>5. \A u \in Users : TokensIn(h)[u] <= Holding(h)
  BY <1>3, PositionFacts, SumMember DEF Holding
<1> QED BY <1>1, <1>2, <1>4, <1>5

(* One provider's position is stored anew. *)
LEMMA OnePosition ==
  ASSUME NEW h \in Positions, NEW u \in Users, NEW p \in Position \cup {None}, NEW k,
         k = [h EXCEPT ![u] = p]
  PROVE  /\ k \in Positions
         /\ Holding(k) = Holding(h) - Tok(h[u]) + Tok(p)
         /\ Earned(k) = Earned(h) - Fee(h[u]) + Fee(p)
<1>1. k \in Positions /\ k[u] = p /\ \A v \in Users : v # u => k[v] = h[v]
  BY DEF Positions
<1>2. \A v \in Users : /\ Tok(h[v]) \in Nat /\ Fee(h[v]) \in Nat
                       /\ Tok(k[v]) \in Nat /\ Fee(k[v]) \in Nat
  BY <1>1, HoldingTyped
<1>3. \A v \in Users : /\ TokensIn(h)[v] = Tok(h[v]) /\ FeesIn(h)[v] = Fee(h[v])
                       /\ TokensIn(k)[v] = Tok(k[v]) /\ FeesIn(k)[v] = Fee(k[v])
  BY DEF TokensIn, FeesIn
<1>4. \A v \in Users : /\ TokensIn(h)[v] \in Int /\ TokensIn(k)[v] \in Int
                       /\ v # u => TokensIn(k)[v] = TokensIn(h)[v]
  <2>1. \A v \in Users : v # u => Tok(k[v]) = Tok(h[v]) /\ Fee(k[v]) = Fee(h[v])
    BY <1>1, Zenon
  <2> QED BY ONLY <1>2, <1>3, <2>1
<1>5. \A v \in Users : /\ FeesIn(h)[v] \in Int /\ FeesIn(k)[v] \in Int
                       /\ v # u => FeesIn(k)[v] = FeesIn(h)[v]
  <2>1. \A v \in Users : v # u => Tok(k[v]) = Tok(h[v]) /\ Fee(k[v]) = Fee(h[v])
    BY <1>1, Zenon
  <2> QED BY ONLY <1>2, <1>3, <2>1
<1>6. Holding(k) = Holding(h) - TokensIn(h)[u] + TokensIn(k)[u]
  BY ONLY <1>4, PositionFacts, SumChange DEF Holding
<1>7. Earned(k) = Earned(h) - FeesIn(h)[u] + FeesIn(k)[u]
  BY ONLY <1>5, PositionFacts, SumChange DEF Earned
<1> QED BY <1>1, <1>3, <1>6, <1>7

(* No position on file, nothing held. *)
LEMMA NothingHeld ==
  ASSUME NEW h, \A u \in Users : h[u] = None
  PROVE  Holding(h) = 0 /\ Earned(h) = 0
<1>1. (\A u \in Users : TokensIn(h)[u] = 0) /\ (\A u \in Users : FeesIn(h)[u] = 0)
  BY DEF TokensIn, FeesIn, Tok, Fee
<1> QED BY <1>1, PositionFacts, SumOfZeros DEF Holding, Earned

(* When each of some providers earns a share, what is earned rises by no    *)
(* more than the shares of all of them.                                     *)
LEMMA SharesEarned ==
  ASSUME NEW h \in Positions, NEW k \in Positions, NEW list \in SUBSET Users,
         NEW share \in Nat,
         \A u \in Users : /\ Tok(k[u]) = Tok(h[u])
                          /\ Fee(k[u]) <= Fee(h[u]) + (IF u \in list THEN share ELSE 0)
  PROVE  Holding(k) = Holding(h) /\ Earned(k) <= Earned(h) + Cardinality(list) * share
<1> DEFINE gain == [u \in Users |-> IF u \in list THEN share ELSE 0]
           upto == [u \in Users |-> FeesIn(h)[u] + gain[u]]
<1>1. \A u \in Users : /\ Tok(h[u]) \in Nat /\ Fee(h[u]) \in Nat
                       /\ Tok(k[u]) \in Nat /\ Fee(k[u]) \in Nat
  BY HoldingTyped
<1>2. \A u \in Users : /\ TokensIn(h)[u] = Tok(h[u]) /\ FeesIn(h)[u] = Fee(h[u])
                       /\ TokensIn(k)[u] = Tok(k[u]) /\ FeesIn(k)[u] = Fee(k[u])
  BY DEF TokensIn, FeesIn
<1>3. Holding(k) = Holding(h)
  <2>1. \A u \in Users : TokensIn(h)[u] \in Int /\ TokensIn(k)[u] = TokensIn(h)[u]
    BY <1>1, <1>2
  <2> QED BY ONLY <2>1, PositionFacts, SumAgree DEF Holding
<1>4. \A u \in Users : gain[u] \in Int /\ FeesIn(h)[u] \in Int /\ FeesIn(k)[u] \in Int
                       /\ upto[u] = FeesIn(h)[u] + gain[u] /\ upto[u] \in Int
                       /\ FeesIn(k)[u] <= upto[u]
  BY <1>1, <1>2
<1>5. SumFunctionOnSet(gain, Users) = Cardinality(list) * share
  <2>1. (\A u \in Users \ list : gain[u] = 0) /\ (\A u \in list : gain[u] = share)
    OBVIOUS
  <2>2. IsFiniteSet(list)
    BY PositionFacts, FS_Subset
  <2> HIDE DEF gain
  <2>3. SumFunctionOnSet(gain, Users) = SumFunctionOnSet(gain, list)
    BY <1>4, <2>1, PositionFacts, SumElsewhereZero
  <2>4. SumFunctionOnSet(gain, list) = Cardinality(list) * share
    BY <2>1, <2>2, SumConstant
  <2> QED BY <2>3, <2>4
<1> HIDE DEF gain, upto
<1>6. SumFunctionOnSet(upto, Users) = Earned(h) + SumFunctionOnSet(gain, Users)
  BY ONLY <1>4, PositionFacts, SumPlus DEF Earned
<1>7. Earned(k) <= SumFunctionOnSet(upto, Users)
  BY ONLY <1>4, PositionFacts, SumMonotone DEF Earned
<1> QED BY <1>3, <1>5, <1>6, <1>7

-----------------------------------------------------------------------------
(* The pools.  Withdrawals stay possible because the supply is never burnt  *)
(* below what all providers hold together; a second deposit replaces the    *)
(* provider's position, which only lowers what is held.                     *)

Supply(p) == IF p = None THEN 0 ELSE p.supply

Worth(p) == IF p = None THEN 0 ELSE p.total

(* What a pool owes: the deposits, and the fees of its providers. *)
DebtOf(p, h) == Worth(p) + Earned(h)

PoolDebt == [m \in Markets |-> DebtOf(pool[m], position[m])]

PoolSum == SumFunctionOnSet(PoolDebt, Markets)

PoolInv ==
  /\ LiquidityTypeOK
  /\ NoDilution
  /\ \A m \in Markets : Holding(position[m]) <= Supply(pool[m])
  /\ \A m \in Markets : pool[m] # None => providers[m] # {}

(* What a step adds to the debt of the pools it adds to the balance. *)
PoolsPay == PoolSum' - escrow' <= PoolSum - escrow

(* What is on file for one market. *)
LEMMA MarketTyped ==
  ASSUME PoolInv, NEW m \in Markets
  PROVE  /\ pool[m] # None =>
              /\ pool[m] \in Pool /\ pool[m].supply \in Nat
              /\ pool[m].total = pool[m].supply
              /\ pool[m].reserve \in [Outcomes -> Nat]
              /\ Cardinality(providers[m]) \in Nat \ {0}
         /\ \A u \in Users : position[m][u] # None => position[m][u] \in Position
         /\ position[m] \in Positions
         /\ Holding(position[m]) <= Supply(pool[m])
         /\ Supply(pool[m]) \in Nat /\ Worth(pool[m]) = Supply(pool[m])
         /\ DebtOf(pool[m], position[m]) \in Nat
         /\ providers[m] \in SUBSET Users
<1>1. /\ pool[m] \in Pool \cup {None} /\ providers[m] \subseteq Users
      /\ position[m] \in Positions
      /\ Holding(position[m]) <= Supply(pool[m])
  BY DEF PoolInv, LiquidityTypeOK, Positions
<1>2. ASSUME pool[m] # None
      PROVE  /\ pool[m] \in Pool /\ pool[m].supply \in Nat
             /\ pool[m].total = pool[m].supply
             /\ pool[m].reserve \in [Outcomes -> Nat]
  BY <1>1, <1>2 DEF Pool, PoolInv, NoDilution, Pools
<1>3. ASSUME pool[m] # None PROVE Cardinality(providers[m]) \in Nat \ {0}
  <2>1. IsFiniteSet(providers[m])
    BY <1>1, PlatformAssumption, FS_Subset DEF PlatformAssumption
  <2> QED BY <1>3, <2>1, FS_CardinalityType, FS_EmptySet DEF PoolInv
<1>4. Supply(pool[m]) \in Nat /\ Worth(pool[m]) = Supply(pool[m])
  BY <1>2 DEF Supply, Worth
<1>5. DebtOf(pool[m], position[m]) \in Nat
  BY <1>1, <1>4, HoldingTyped DEF DebtOf
<1>6. \A u \in Users : position[m][u] # None => position[m][u] \in Position
  BY <1>1 DEF Positions
<1> QED BY <1>1, <1>2, <1>3, <1>4, <1>5, <1>6

LEMMA PoolSumTyped ==
  ASSUME PoolInv
  PROVE  /\ IsFiniteSet(Markets) /\ PoolSum \in Nat
         /\ \A m \in Markets : PoolDebt[m] \in Nat
<1>1. IsFiniteSet(Markets)
  BY LiquidityAssumption DEF LiquidityAssumption
<1>2. \A m \in Markets : PoolDebt[m] \in Nat
  BY MarketTyped DEF PoolDebt
<1> QED BY <1>1, <1>2, SumNat DEF PoolSum

(* A step that leaves pools and positions alone. *)
LEMMA PoolsUntouched ==
  ASSUME PoolInv, LiquidityTypeOK', UNCHANGED <<pool, position, providers>>
  PROVE  PoolInv' /\ PoolSum' = PoolSum
<1>1. PoolDebt' = PoolDebt
  BY DEF PoolDebt
<1>2. PoolSum' = PoolSum
  BY <1>1 DEF PoolSum
<1> QED BY <1>2 DEF PoolInv, NoDilution, Pools

(* A step that moves one market's pool and positions, and the balance.      *)
LEMMA PoolChanged ==
  ASSUME PoolInv, NEW m \in Markets, NEW p \in Pool \cup {None}, NEW h \in Positions,
         NEW list \in SUBSET Users, NEW balance \in Nat,
         pool' = [pool EXCEPT ![m] = p], position' = [position EXCEPT ![m] = h],
         providers' = [providers EXCEPT ![m] = list],
         escrow' = balance, calls' \in Nat, UNCHANGED <<platformVars, open>>,
         p # None => p.supply = p.total /\ list # {},
         Holding(h) <= Supply(p),
         DebtOf(p, h) - balance <= DebtOf(pool[m], position[m]) - escrow
  PROVE  PoolInv' /\ PoolsPay
<1>1. /\ pool \in [Markets -> Pool \cup {None}]
      /\ position \in [Markets -> [Users -> Position \cup {None}]]
      /\ providers \in [Markets -> SUBSET Users] /\ escrow \in Nat
  BY DEF PoolInv, LiquidityTypeOK
<1>2. LiquidityTypeOK'
  BY <1>1 DEF PoolInv, LiquidityTypeOK, platformVars, PlatformTypeOK, Positions
<1>3. /\ pool'[m] = p /\ position'[m] = h /\ providers'[m] = list
      /\ \A o \in Markets \ {m} : /\ pool'[o] = pool[o] /\ position'[o] = position[o]
                                 /\ providers'[o] = providers[o]
  BY <1>1
<1>4. NoDilution'
  BY <1>3 DEF PoolInv, NoDilution, Pools
<1>5. ASSUME NEW o \in Markets PROVE Holding(position'[o]) <= Supply(pool'[o])
  <2>1. CASE o = m
    BY <1>3, <2>1
  <2>2. CASE o # m
    BY <1>3, <2>2 DEF PoolInv
  <2> QED BY <2>1, <2>2
<1>6. \A o \in Markets : pool'[o] # None => providers'[o] # {}
  BY <1>3 DEF PoolInv
<1>7. PoolInv'
  BY <1>2, <1>4, <1>5, <1>6 DEF PoolInv
<1>8. /\ PoolDebt'[m] = DebtOf(p, h) /\ PoolDebt[m] = DebtOf(pool[m], position[m])
      /\ \A o \in Markets \ {m} : PoolDebt'[o] = PoolDebt[o]
  BY <1>3 DEF PoolDebt
<1>9. PoolSum \in Nat /\ IsFiniteSet(Markets) /\ \A o \in Markets : PoolDebt[o] \in Nat
  BY PoolSumTyped
<1>10. \A o \in Markets : PoolDebt'[o] \in Nat
  <2>1. Worth(p) \in Nat
    BY DEF Worth, Pool
  <2>2. DebtOf(p, h) \in Nat
    BY <2>1, HoldingTyped DEF DebtOf
  <2> QED BY <1>8, <1>9, <2>2
<1>11. PoolSum' = PoolSum - PoolDebt[m] + PoolDebt'[m]
  <2>1. \A o \in Markets : PoolDebt[o] \in Int /\ PoolDebt'[o] \in Int
                           /\ (o # m => PoolDebt'[o] = PoolDebt[o])
    BY <1>8, <1>9, <1>10
  <2>2. PICK f, g : f = PoolDebt /\ g = PoolDebt'
    OBVIOUS
  <2>3. SumFunctionOnSet(g, Markets) = SumFunctionOnSet(f, Markets) - f[m] + g[m]
    BY ONLY <1>9, <2>1, <2>2, m \in Markets, SumChange
  <2> QED BY <2>2, <2>3 DEF PoolSum
<1> QED BY <1>1, <1>7, <1>8, <1>9, <1>10, <1>11 DEF PoolsPay

LEMMA BalanceTyped ==
  ASSUME escrow \in Nat, NEW amount \in Nat, Lock(amount) \/ Pay(amount)
  PROVE  escrow' \in Nat
  BY DEF Lock, Pay

LEMMA CallCounted ==
  ASSUME calls \in Nat, Call
  PROVE  calls' \in Nat
  BY DEF Call

(* Tokens are minted one for one, and the provider's own are replaced.      *)
LEMMA AddLiquidityInv ==
  ASSUME PoolInv, NEW m \in Markets, NEW u \in Users, NEW amount \in Deposits,
         AddLiquidity(u, m, amount)
  PROVE  PoolInv' /\ PoolsPay
<1> DEFINE new == IF pool[m] = None THEN NewPool(amount) ELSE WithDeposit(pool[m], amount)
           pos == [tokens |-> amount, fees |-> 0]
           h == [position[m] EXCEPT ![u] = pos]
<1>1. /\ amount \in Nat /\ escrow' \in Nat /\ calls' \in Nat
      /\ escrow' = escrow + amount /\ escrow \in Nat
      /\ UNCHANGED <<platformVars, open>>
  BY LiquidityAssumption, BalanceTyped, CallCounted
  DEF LiquidityAssumption, AddLiquidity, Lock, PoolInv, LiquidityTypeOK
<1>2. ASSUME pool[m] # None
      PROVE  /\ LpTokens(amount, pool[m]) = amount
             /\ WithDeposit(pool[m], amount) \in Pool
             /\ WithDeposit(pool[m], amount).supply = pool[m].supply + amount
             /\ WithDeposit(pool[m], amount).total = pool[m].total + amount
  <2>1. /\ pool[m] \in Pool /\ pool[m].supply \in Nat
        /\ pool[m].total = pool[m].supply
    BY <1>2, MarketTyped
  <2>2. LpTokens(amount, pool[m]) = amount
    <3>1. CASE pool[m].supply = 0
      BY <3>1 DEF LpTokens
    <3>2. CASE pool[m].supply # 0
      BY <1>1, <2>1, <3>2, ExactDivision DEF LpTokens
    <3> QED BY <3>1, <3>2
  <2>3. WithDeposit(pool[m], amount)
          = [pool[m] EXCEPT !.supply = @ + amount, !.total = @ + amount]
    BY <2>2 DEF WithDeposit
  <2> DEFINE w == WithDeposit(pool[m], amount)
  <2>4. pool[m].supply + amount \in Nat /\ pool[m].total + amount \in Nat
    BY <1>1, <2>1
  <2>5. w \in Pool /\ w.supply = pool[m].supply + amount /\ w.total = pool[m].total + amount
    <3> HIDE DEF w
    <3>1. w = [pool[m] EXCEPT !.supply = @ + amount, !.total = @ + amount]
      BY <2>3 DEF w
    <3> QED BY <2>1, <2>4, <3>1 DEF Pool
  <2> QED BY <2>2, <2>5
<1>3. /\ NewPool(amount) \in Pool
      /\ NewPool(amount).supply = amount /\ NewPool(amount).total = amount
  <2>1. Cardinality(Outcomes) \in Nat \ {0}
    BY LiquidityAssumption, FS_CardinalityType DEF LiquidityAssumption
  <2>2. Floor(amount, Cardinality(Outcomes)) \in Nat
    BY <1>1, <2>1, Division
  <2> QED BY <1>1, <2>2 DEF NewPool, Pool
<1>4. new \in Pool /\ new.supply = Supply(pool[m]) + amount /\ new.total = new.supply
  BY <1>1, <1>2, <1>3, MarketTyped DEF Supply
<1>5. pos \in Position
  BY <1>1 DEF Position
<1>6. /\ pool' = [pool EXCEPT ![m] = new]
      /\ position' = [position EXCEPT ![m] = h]
      /\ providers' = [providers EXCEPT ![m] = providers[m] \cup {u}]
  <2>1. pool' = [pool EXCEPT ![m] = new]
    BY DEF AddLiquidity
  <2>2. (IF pool[m] = None THEN amount ELSE LpTokens(amount, pool[m])) = amount
    BY <1>2
  <2>3. position' = [position EXCEPT ![m][u] = pos]
    BY <2>2 DEF AddLiquidity
  <2> QED BY <2>1, <2>3 DEF AddLiquidity
<1>7. /\ position[m] \in Positions /\ pos \in Position \cup {None}
      /\ Tok(pos) = amount /\ Fee(pos) = 0
  <2>1. pos # None
    BY <1>5, PositionFacts
  <2> QED BY <1>5, <2>1, MarketTyped DEF Tok, Fee
<1> HIDE DEF new, pos
<1>8. /\ h \in Positions
      /\ Holding(h) = Holding(position[m]) - Tok(position[m][u]) + Tok(pos)
      /\ Earned(h) = Earned(position[m]) - Fee(position[m][u]) + Fee(pos)
  BY <1>7, OnePosition
<1>9. /\ Holding(position[m]) \in Nat /\ Earned(position[m]) \in Nat
      /\ Tok(position[m][u]) \in Nat /\ Fee(position[m][u]) \in Nat
      /\ Holding(position[m]) <= Supply(pool[m]) /\ Worth(pool[m]) = Supply(pool[m])
      /\ Supply(pool[m]) \in Nat
  BY <1>7, HoldingTyped, MarketTyped
<1>10. Supply(new) = new.supply /\ Worth(new) = new.supply /\ new # None
  BY <1>4, LiquidityAssumption DEF Supply, Worth, LiquidityAssumption, Pool
<1> HIDE DEF h
<1>11. Holding(h) <= Supply(new)
  BY <1>1, <1>4, <1>7, <1>8, <1>9, <1>10
<1>12. DebtOf(new, h) - escrow' <= DebtOf(pool[m], position[m]) - escrow
  BY <1>1, <1>4, <1>7, <1>8, <1>9, <1>10 DEF DebtOf
<1>13. providers[m] \cup {u} \in SUBSET Users /\ providers[m] \cup {u} # {}
  BY MarketTyped
<1> QED BY <1>1, <1>4, <1>6, <1>8, <1>11, <1>12, <1>13, PoolChanged

(* A withdrawal takes as much of the deposits as of the supply.             *)
LEMMA RemoveLiquidityInv ==
  ASSUME PoolInv, NEW m \in Markets, NEW u \in Users, NEW tokens \in Burns,
         RemoveLiquidity(u, m, tokens)
  PROVE  PoolInv' /\ PoolsPay
<1> DEFINE value == LiquidityValue(tokens, pool[m])
           new == [pool[m] EXCEPT !.supply = @ - tokens, !.total = @ - value]
           left == Remaining(position[m][u], tokens)
           h == [position[m] EXCEPT ![u] = left]
<1>1. /\ pool[m] # None /\ position[m][u] # None /\ tokens \in Nat \ {0}
      /\ tokens <= position[m][u].tokens /\ pool[m].supply > 0
      /\ Pay(value) /\ calls' \in Nat
      /\ UNCHANGED <<platformVars, open, providers>>
  BY LiquidityAssumption, CallCounted
  DEF LiquidityAssumption, RemoveLiquidity, Burnable, PoolInv, LiquidityTypeOK
<1>2. /\ pool[m] \in Pool /\ pool[m].supply \in Nat /\ pool[m].total = pool[m].supply
      /\ position[m][u] \in Position /\ position[m] \in [Users -> Position \cup {None}]
  BY <1>1, MarketTyped DEF Positions
<1>3. value = tokens
  BY <1>1, <1>2, ExactDivision DEF LiquidityValue
<1>4. escrow' = escrow - tokens /\ escrow' \in Nat /\ escrow \in Nat
  BY <1>1, <1>3 DEF PoolInv, LiquidityTypeOK, Pay
<1>5. /\ Supply(pool[m]) = pool[m].supply /\ Worth(pool[m]) = Supply(pool[m])
      /\ Tok(position[m][u]) = position[m][u].tokens
      /\ Fee(position[m][u]) = position[m][u].fees
      /\ Tok(position[m][u]) \in Nat /\ Fee(position[m][u]) \in Nat
      /\ Holding(position[m]) \in Nat /\ Earned(position[m]) \in Nat
      /\ Tok(position[m][u]) <= Holding(position[m])
      /\ Holding(position[m]) <= Supply(pool[m])
  <2>1. /\ position[m] \in Positions /\ Holding(position[m]) <= Supply(pool[m])
        /\ Worth(pool[m]) = Supply(pool[m])
    BY MarketTyped
  <2> QED BY <1>1, <2>1, HoldingTyped DEF Supply, Tok, Fee
<1>6. new \in Pool /\ new.supply = Supply(pool[m]) - tokens /\ new.total = new.supply
  <2>1. new = [pool[m] EXCEPT !.supply = @ - tokens, !.total = @ - tokens]
    BY <1>3
  <2>2. pool[m].supply - tokens \in Nat
    BY <1>1, <1>2, <1>5
  <2> QED BY <1>2, <1>5, <2>1, <2>2 DEF Pool
<1>7. /\ left \in Position \cup {None}
      /\ Tok(left) = Tok(position[m][u]) - tokens
      /\ Fee(left) <= Fee(position[m][u]) /\ Fee(left) \in Nat
  <2>1. CASE position[m][u].tokens = tokens
    <3>1. left = None
      BY <2>1 DEF Remaining
    <3> QED BY <1>1, <1>5, <2>1, <3>1 DEF Tok, Fee
  <2>2. CASE position[m][u].tokens # tokens
    <3>1. left = [position[m][u] EXCEPT !.tokens = @ - tokens]
      BY <2>2 DEF Remaining
    <3>2. position[m][u].tokens - tokens \in Nat
      BY <1>1, <1>2 DEF Position
    <3> HIDE DEF left
    <3>3. /\ left \in Position /\ left.tokens = position[m][u].tokens - tokens
          /\ left.fees = position[m][u].fees
      BY <1>2, <3>1, <3>2 DEF Position
    <3>4. left # None
      BY <3>3, PositionFacts
    <3> QED BY <1>5, <3>3, <3>4 DEF Tok, Fee
  <2> QED BY <2>1, <2>2
<1>8. /\ pool' = [pool EXCEPT ![m] = new]
      /\ position' = [position EXCEPT ![m] = h]
      /\ providers' = [providers EXCEPT ![m] = providers[m]]
  <2>1. providers \in [Markets -> SUBSET Users]
    BY DEF PoolInv, LiquidityTypeOK
  <2>2. pool' = [pool EXCEPT ![m] = new] /\ position' = [position EXCEPT ![m] = h]
    BY DEF RemoveLiquidity
  <2> QED BY <1>1, <2>1, <2>2
<1> HIDE DEF left, value
<1>9. /\ h \in Positions
      /\ Holding(h) = Holding(position[m]) - Tok(position[m][u]) + Tok(left)
      /\ Earned(h) = Earned(position[m]) - Fee(position[m][u]) + Fee(left)
  BY <1>7, MarketTyped, OnePosition
<1> HIDE DEF new, h
<1>10. Supply(new) = new.supply /\ Worth(new) = new.supply
  BY <1>6, LiquidityAssumption DEF Supply, Worth, LiquidityAssumption, Pool
<1>11. Holding(h) <= Supply(new)
  BY <1>1, <1>2, <1>5, <1>6, <1>7, <1>9, <1>10
<1>12. DebtOf(new, h) - escrow' <= DebtOf(pool[m], position[m]) - escrow
  BY <1>1, <1>2, <1>4, <1>5, <1>6, <1>7, <1>9, <1>10 DEF DebtOf
<1>13. providers[m] \in SUBSET Users /\ providers[m] # {}
  BY <1>1, MarketTyped DEF PoolInv
<1> QED BY <1>1, <1>4, <1>6, <1>8, <1>9, <1>11, <1>12, <1>13, PoolChanged

(* Every share of the fee is rounded down, and with one share for each      *)
(* provider on the list they come to no more than what was paid in.         *)
LEMMA FeeSharesPaidFor ==
  ASSUME NEW amount \in Nat, NEW n \in Nat \ {0}
  PROVE  LET share == Floor(Floor(amount * DEFAULT_FEE_BPS, BPS), n)
         IN  share \in Nat /\ n * share <= amount
<1> DEFINE fee == Floor(amount * DEFAULT_FEE_BPS, BPS)
           share == Floor(fee, n)
<1>1. amount * DEFAULT_FEE_BPS \in Nat /\ BPS \in Nat \ {0}
  BY DEF DEFAULT_FEE_BPS, BPS
<1>2. fee \in Nat /\ BPS * fee <= amount * DEFAULT_FEE_BPS
  BY <1>1, Division
<1> HIDE DEF fee
<1>3. fee <= amount
  BY <1>2 DEF DEFAULT_FEE_BPS, BPS
<1>4. share \in Nat /\ n * share <= fee /\ n * share \in Nat
  BY <1>2, Division
<1> HIDE DEF share
<1>5. share \in Nat /\ n * share <= amount
  <2>1. PICK k : k = n * share
    OBVIOUS
  <2> QED BY <1>2, <1>3, <1>4, <2>1
<1> QED BY <1>5 DEF share, fee

(* A swap moves reserves, and fees by whole units.                          *)
LEMMA SwapOutcomeInv ==
  ASSUME PoolInv, NEW m \in Markets, NEW from \in Outcomes, NEW to \in Outcomes,
         NEW amount \in Swaps, NEW minOut, SwapOutcome(m, from, to, amount, minOut)
  PROVE  PoolInv' /\ PoolsPay
<1> DEFINE reserve == pool[m].reserve
           out == SwapOutput(amount, reserve[from], reserve[to])
           moved == Swapped(reserve, from, to, amount)
           new == [pool[m] EXCEPT !.reserve = moved]
           h == [u \in Users |-> IF u \in providers[m]
                                 THEN Earning(position[m][u], FeeShare(amount, m))
                                 ELSE position[m][u]]
<1>1. /\ pool[m] # None /\ amount \in Nat /\ from # to
      /\ reserve[from] > 0 /\ escrow \in Nat /\ escrow' = escrow + amount
      /\ escrow' \in Nat /\ calls' \in Nat
      /\ UNCHANGED <<platformVars, open, providers>>
  BY LiquidityAssumption, BalanceTyped, CallCounted
  DEF LiquidityAssumption, SwapOutcome, Lock, PoolInv, LiquidityTypeOK
<1>2. /\ pool[m] \in Pool /\ pool[m].total = pool[m].supply
      /\ reserve \in [Outcomes -> Nat]
      /\ Cardinality(providers[m]) \in Nat \ {0}
      /\ position[m] \in [Users -> Position \cup {None}]
  BY <1>1, MarketTyped DEF Positions
<1>3. out \in 0..reserve[to]
  <2>1. reserve[from] \in Nat \ {0} /\ reserve[to] \in Nat
    BY <1>1, <1>2
  <2> HIDE DEF reserve
  <2> QED BY <1>1, <2>1, SwapKeepsProduct
<1>4. moved \in [Outcomes -> Nat]
  <2>1. moved = [reserve EXCEPT ![from] = @ + amount, ![to] = @ - out]
    BY DEF Swapped
  <2> HIDE DEF moved, out
  <2> QED BY <1>1, <1>2, <1>3, <2>1
<1> HIDE DEF moved
<1>5. new \in Pool /\ new.supply = Supply(pool[m]) /\ new.total = new.supply
  BY <1>1, <1>2, <1>4 DEF Pool, Supply
<1>6. /\ FeeShare(amount, m) \in Nat
      /\ Cardinality(providers[m]) * FeeShare(amount, m) <= amount
  BY <1>1, <1>2, FeeSharesPaidFor DEF FeeShare
<1> DEFINE share == FeeShare(amount, m)
<1> HIDE DEF share
<1>7. ASSUME NEW u \in Users
      PROVE  /\ h[u] \in Position \cup {None}
             /\ Tok(h[u]) = Tok(position[m][u])
             /\ Fee(h[u]) <= Fee(position[m][u]) + (IF u \in providers[m] THEN share ELSE 0)
  <2>0. Fee(position[m][u]) \in Nat /\ share \in Nat
    BY <1>2, <1>6, HoldingTyped DEF share, Positions
  <2>1. CASE u \in providers[m] /\ position[m][u] # None
    <3>1. position[m][u] \in Position
      BY <1>2, <2>1
    <3>2. h[u] = [position[m][u] EXCEPT !.fees = @ + share]
      BY <2>1 DEF Earning, share
    <3> HIDE DEF h
    <3>3. /\ h[u] \in Position /\ h[u].tokens = position[m][u].tokens
          /\ h[u].fees = position[m][u].fees + share
      BY <2>0, <3>1, <3>2 DEF Position
    <3>4. h[u] # None
      BY <3>3, PositionFacts
    <3>5. Fee(h[u]) = Fee(position[m][u]) + share /\ Tok(h[u]) = Tok(position[m][u])
      BY <2>1, <3>3, <3>4 DEF Tok, Fee
    <3> QED BY <2>0, <2>1, <3>3, <3>5
  <2>2. CASE ~(u \in providers[m] /\ position[m][u] # None)
    <3>1. h[u] = position[m][u]
      BY <2>2 DEF Earning
    <3> HIDE DEF h
    <3> QED BY <1>2, <2>0, <3>1
  <2> QED BY <2>1, <2>2
<1>8. /\ h \in Positions /\ position[m] \in Positions
      /\ Holding(h) = Holding(position[m])
      /\ Earned(h) <= Earned(position[m]) + Cardinality(providers[m]) * share
  <2>1. h \in Positions /\ position[m] \in Positions
    BY <1>2, <1>7 DEF Positions
  <2>2. providers[m] \in SUBSET Users /\ share \in Nat
    BY <1>6, MarketTyped DEF share
  <2> HIDE DEF h
  <2> QED BY <1>7, <2>1, <2>2, SharesEarned
<1>9. /\ pool' = [pool EXCEPT ![m] = new]
      /\ position' = [position EXCEPT ![m] = h]
      /\ providers' = [providers EXCEPT ![m] = providers[m]]
  <2>1. providers \in [Markets -> SUBSET Users]
    BY DEF PoolInv, LiquidityTypeOK
  <2>2. pool' = [pool EXCEPT ![m] = new]
    BY DEF SwapOutcome, moved
  <2>3. position' = [position EXCEPT ![m] = h]
    BY DEF SwapOutcome
  <2> QED BY <1>1, <2>1, <2>2, <2>3
<1> HIDE DEF h, new
<1>10. /\ Supply(new) = Supply(pool[m]) /\ Worth(new) = Worth(pool[m])
       /\ Supply(pool[m]) \in Nat /\ Holding(position[m]) <= Supply(pool[m])
       /\ Earned(h) \in Nat /\ Earned(position[m]) \in Nat /\ Worth(pool[m]) \in Nat
  <2>1. new # None
    BY <1>5, LiquidityAssumption DEF LiquidityAssumption, Pool
  <2> QED BY <1>5, <1>8, <2>1, HoldingTyped, MarketTyped DEF Supply, Worth
<1>11. DebtOf(new, h) - escrow' <= DebtOf(pool[m], position[m]) - escrow
  <2>1. PICK k : k = Cardinality(providers[m]) * share
    OBVIOUS
  <2>2. k \in Nat /\ k <= amount
    BY <1>2, <1>6, <2>1 DEF share
  <2> QED BY <1>1, <1>8, <1>10, <2>1, <2>2 DEF DebtOf
<1>12. providers[m] \in SUBSET Users /\ providers[m] # {}
  BY <1>1, MarketTyped DEF PoolInv
<1> QED BY <1>1, <1>5, <1>8, <1>9, <1>10, <1>11, <1>12, PoolChanged

(* What is collected is no longer owed. *)
LEMMA CollectLpFeesInv ==
  ASSUME PoolInv, NEW m \in Markets, NEW u \in Users, CollectLpFees(u, m)
  PROVE  PoolInv' /\ PoolsPay
<1> DEFINE pos == [position[m][u] EXCEPT !.fees = 0]
           h == [position[m] EXCEPT ![u] = pos]
<1>1. /\ position[m][u] # None /\ position[m] \in [Users -> Position \cup {None}]
      /\ position[m][u] \in Position /\ position[m] \in Positions
  BY MarketTyped DEF CollectLpFees, Positions
<1>2. /\ pos \in Position /\ pos.tokens = position[m][u].tokens /\ pos.fees = 0
      /\ position[m][u].fees \in Nat /\ position[m][u].tokens \in Nat
  BY <1>1 DEF Position
<1>3. pos # None
  BY <1>2, PositionFacts
<1>4. /\ escrow' = escrow - position[m][u].fees /\ escrow' \in Nat /\ escrow \in Nat
      /\ position' = [position EXCEPT ![m][u] = pos]
      /\ calls' \in Nat
      /\ UNCHANGED <<platformVars, open, pool, providers, calls>>
  BY <1>2 DEF CollectLpFees, Pay, PoolInv, LiquidityTypeOK
<1>5. /\ pool' = [pool EXCEPT ![m] = pool[m]]
      /\ position' = [position EXCEPT ![m] = h]
      /\ providers' = [providers EXCEPT ![m] = providers[m]]
      /\ pool[m] \in Pool \cup {None}
  <2>1. pool \in [Markets -> Pool \cup {None}] /\ providers \in [Markets -> SUBSET Users]
    BY DEF PoolInv, LiquidityTypeOK
  <2>2. position' = [position EXCEPT ![m] = h]
    BY <1>4
  <2> QED BY <1>4, <2>1, <2>2
<1>6. /\ Tok(pos) = Tok(position[m][u]) /\ Fee(pos) = 0
      /\ Fee(position[m][u]) = position[m][u].fees /\ Tok(position[m][u]) \in Nat
  BY <1>1, <1>2, <1>3 DEF Tok, Fee
<1> HIDE DEF pos
<1>7. /\ h \in Positions
      /\ Holding(h) = Holding(position[m]) - Tok(position[m][u]) + Tok(pos)
      /\ Earned(h) = Earned(position[m]) - Fee(position[m][u]) + Fee(pos)
  BY <1>1, <1>2, OnePosition
<1>8. /\ Holding(position[m]) \in Nat /\ Earned(position[m]) \in Nat
      /\ Holding(position[m]) <= Supply(pool[m]) /\ Worth(pool[m]) \in Nat
  BY <1>1, HoldingTyped, MarketTyped
<1> HIDE DEF h
<1>9. /\ Holding(h) <= Supply(pool[m])
      /\ DebtOf(pool[m], h) - escrow' <= DebtOf(pool[m], position[m]) - escrow
  <2>1. Holding(h) = Holding(position[m])
    BY <1>6, <1>7, <1>8
  <2>2. Earned(h) = Earned(position[m]) - position[m][u].fees
    BY <1>2, <1>6, <1>7, <1>8
  <2>3. Holding(h) <= Supply(pool[m])
    BY <1>8, <2>1
  <2> QED BY <1>2, <1>4, <1>8, <2>2, <2>3 DEF DebtOf
<1>10. /\ pool[m] # None => pool[m].supply = pool[m].total /\ providers[m] # {}
       /\ providers[m] \in SUBSET Users
  BY MarketTyped DEF PoolInv
<1> QED BY <1>4, <1>5, <1>7, <1>9, <1>10, PoolChanged

LEMMA LiquidityStepInv ==
  ASSUME PoolInv, LiquidityStep
  PROVE  PoolInv' /\ PoolsPay
<1>1. ASSUME NEW m \in Markets, OpenOrClose(m) PROVE PoolInv' /\ PoolsPay
  <2>1. open' \subseteq Markets /\ calls' \in Nat
    BY <1>1, CallCounted DEF OpenOrClose, PoolInv, LiquidityTypeOK
  <2>2. LiquidityTypeOK'
    BY <1>1, <2>1
    DEF OpenOrClose, PoolInv, LiquidityTypeOK, platformVars, PlatformTypeOK
  <2>3. PoolInv' /\ PoolSum' = PoolSum
    BY <1>1, <2>2, PoolsUntouched DEF OpenOrClose
  <2>4. escrow' = escrow /\ escrow \in Nat /\ PoolSum \in Nat
    BY <1>1, PoolSumTyped DEF OpenOrClose, PoolInv, LiquidityTypeOK
  <2> QED BY <2>3, <2>4 DEF PoolsPay
<1> QED BY <1>1, AddLiquidityInv, RemoveLiquidityInv, SwapOutcomeInv, CollectLpFeesInv
        DEF LiquidityStep

LEMMA LiquidityInitInv == LiquidityInit => PoolInv /\ PoolSum = 0
<1> SUFFICES ASSUME LiquidityInit PROVE PoolInv /\ PoolSum = 0
  OBVIOUS
<1>1. LiquidityTypeOK
  BY PlatformInitTyped DEF LiquidityInit, LiquidityTypeOK
<1>2. ASSUME NEW m \in Markets
      PROVE  /\ pool[m] = None /\ Supply(pool[m]) = 0 /\ Worth(pool[m]) = 0
             /\ Holding(position[m]) = 0 /\ Earned(position[m]) = 0
  <2>1. pool[m] = None /\ \A u \in Users : position[m][u] = None
    BY DEF LiquidityInit
  <2> QED BY <2>1, NothingHeld DEF Supply, Worth
<1>3. PoolInv
  BY <1>1, <1>2 DEF PoolInv, NoDilution, Pools
<1>4. \A m \in Markets : PoolDebt[m] = 0
  BY <1>2 DEF PoolDebt, DebtOf
<1> QED BY <1>3, <1>4, PoolSumTyped, SumOfZeros DEF PoolSum

-----------------------------------------------------------------------------
(* Sharing out a prize. *)

(* The ranks paid are the first ten, and those paid by points run from the  *)
(* first or the fourth of them to the last.                                 *)
LEMMA RanksFromTo ==
  ASSUME NEW a \in Nat, NEW b \in Nat, a <= b
  PROVE  /\ Min(a..b) = a /\ Max(a..b) = b
         /\ a \in a..b /\ b \in a..b /\ IsFiniteSet(a..b)
<1>1. a \in a..b /\ b \in a..b /\ \A x \in a..b : x \in Int /\ a <= x /\ x <= b
  OBVIOUS
<1>2. Max(a..b) \in a..b /\ \A y \in a..b : Max(a..b) >= y
  <2>1. \E x \in a..b : \A y \in a..b : x >= y
    BY <1>1
  <2> QED BY <2>1 DEF Max
<1>3. Min(a..b) \in a..b /\ \A y \in a..b : Min(a..b) =< y
  <2>1. \E x \in a..b : \A y \in a..b : x =< y
    BY <1>1
  <2> QED BY <2>1 DEF Min
<1>4. Max(a..b) = b /\ Min(a..b) = a
  <2>1. PICK x, y : x = Max(a..b) /\ y = Min(a..b)
    OBVIOUS
  <2>2. x \in Int /\ x >= b /\ x <= b /\ y \in Int /\ y <= a /\ a <= y
    BY <1>1, <1>2, <1>3, <2>1
  <2> QED BY <2>1, <2>2
<1> QED BY <1>1, <1>4, FS_Interval

LEMMA PaidRanks ==
  ASSUME NEW board \in Seq(Standing), board # <<>>
  PROVE  LET paid == DOMAIN board \cap (1..10)
             lower == paid \ DOMAIN PodiumShare
             ranks == IF lower = {} THEN paid ELSE lower
         IN  /\ IsFiniteSet(paid) /\ IsFiniteSet(ranks) /\ ranks \in SUBSET paid
             /\ Min(ranks) \in ranks /\ Max(ranks) \in ranks
             /\ \A r \in paid : board[r].points \in Nat
<1> DEFINE paid == DOMAIN board \cap (1..10)
           lower == paid \ DOMAIN PodiumShare
           ranks == IF lower = {} THEN paid ELSE lower
           n == IF Len(board) <= 10 THEN Len(board) ELSE 10
<1>1. DOMAIN board = 1..Len(board) /\ Len(board) \in Nat /\ Len(board) # 0
  OBVIOUS
<1>2. paid = 1..n /\ n \in Nat /\ 1 <= n
  BY <1>1
<1>3. DOMAIN PodiumShare = 1..3
  BY DEF PodiumShare
<1>4. lower = 4..n
  BY <1>2, <1>3
<1>5. \A r \in paid : board[r].points \in Nat
  <2>1. \A r \in DOMAIN board : board[r] \in Standing
    OBVIOUS
  <2> QED BY <2>1 DEF Standing
<1>6. (ranks = 1..n /\ 1 <= n) \/ (ranks = 4..n /\ 4 <= n)
  <2>1. CASE lower = {}
    BY <1>2, <2>1
  <2>2. CASE lower # {}
    <3>1. 4 <= n
      BY <1>2, <1>4, <2>2
    <3> QED BY <1>4, <2>2, <3>1
  <2> QED BY <2>1, <2>2
<1>7. ranks \in SUBSET paid
  OBVIOUS
<1> HIDE DEF n, ranks, lower
<1>8. Min(ranks) \in ranks /\ Max(ranks) \in ranks /\ IsFiniteSet(ranks)
  <2>1. CASE ranks = 1..n /\ 1 <= n
    BY ONLY <1>2, <2>1, RanksFromTo
  <2>2. CASE ranks = 4..n /\ 4 <= n
    BY ONLY <1>2, <2>2, RanksFromTo
  <2> QED BY <1>6, <2>1, <2>2
<1> HIDE DEF paid
<1>9. IsFiniteSet(paid)
  BY ONLY <1>2, FS_Interval
<1>10. /\ IsFiniteSet(paid) /\ IsFiniteSet(ranks) /\ ranks \in SUBSET paid
       /\ Min(ranks) \in ranks /\ Max(ranks) \in ranks
       /\ \A r \in paid : board[r].points \in Nat
  BY <1>5, <1>7, <1>8, <1>9
<1> QED BY <1>10 DEF paid, lower, ranks

(* Rounded shares and what the last one takes add up to all there is.       *)
LEMMA AllSharedOut ==
  ASSUME NEW board, NEW ranks, IsFiniteSet(ranks), NEW rest \in Int,
         Min(ranks) \in ranks, Max(ranks) \in ranks,
         \A r \in ranks : board[r].points \in Nat
  PROVE  LET prop == [r \in ranks |-> Proportional(board, ranks, rest, r)]
         IN  /\ \A r \in ranks : Proportional(board, ranks, rest, r) \in Int
             /\ SumFunctionOnSet(prop, ranks) = rest
<1> DEFINE prop == [r \in ranks |-> Proportional(board, ranks, rest, r)]
           score == [r \in ranks |-> board[r].points]
           points == SumFunction(score)
           share(r) == Floor(rest * board[r].points, points)
           shares(S) == [r \in S |-> share(r)]
           top == Max(ranks)
           low == Min(ranks)
<1>1. points \in Nat
  <2>1. points = SumFunctionOnSet(score, ranks)
    BY DEF SumFunction
  <2>2. \A r \in ranks : score[r] \in Nat
    OBVIOUS
  <2> HIDE DEF score, points
  <2> QED BY <2>1, <2>2, SumNat
<1>2. CASE points = 0
  <2>1. \A r \in ranks : prop[r] = IF r = low THEN rest ELSE 0
    BY <1>2 DEF Proportional
  <2>2. \A r \in ranks : prop[r] \in Int
    BY <2>1
  <2>3. \A r \in ranks : prop[r] = Proportional(board, ranks, rest, r)
    OBVIOUS
  <2> HIDE DEF prop, low
  <2>4. low \in ranks
    BY DEF low
  <2>5. SumFunctionOnSet(prop, ranks) = SumFunctionOnSet(prop, {low})
    BY <2>1, <2>2, <2>4, SumElsewhereZero
  <2>6. SumFunctionOnSet(prop, {low}) = rest
    BY <2>1, <2>2, <2>4, SumOne
  <2> QED BY <2>2, <2>3, <2>5, <2>6 DEF prop
<1>3. CASE points # 0
  <2> DEFINE others == ranks \ {top}
             given == SumFunctionOnSet(shares(others), others)
  <2>1. \A r \in ranks : share(r) \in Int
    <3>1. \A r \in ranks : rest * board[r].points \in Int
      OBVIOUS
    <3>2. \A k \in Int : Floor(k, points) \in Int
      <4> HIDE DEF points
      <4> QED BY <1>1, <1>3 DEF Floor
    <3> QED BY <3>1, <3>2
  <2>2. IsFiniteSet(others)
    BY FS_Subset
  <2>3. SumFunction(shares(others)) = given
    BY DEF SumFunction
  <2>4. \A r \in ranks : Proportional(board, ranks, rest, r) =
          IF r = top THEN rest - SumFunction([q \in ranks \ {r} |-> share(q)]) ELSE share(r)
    BY <1>3 DEF Proportional
  <2>5. prop[top] = rest - given
    BY <2>3, <2>4
  <2>6. \A r \in others : prop[r] = shares(others)[r] /\ shares(others)[r] = share(r)
    BY <2>4
  <2>7. given \in Int
    <3>1. \A r \in others : shares(others)[r] \in Int
      BY <2>1, <2>6
    <3> HIDE DEF shares, others
    <3> QED BY <2>2, <3>1, SumType
  <2>8. SumFunctionOnSet(prop, others) = given
    <3>1. \A r \in others : shares(others)[r] \in Int /\ prop[r] = shares(others)[r]
      BY <2>1, <2>6
    <3> HIDE DEF shares, others, prop
    <3> QED BY ONLY <2>2, <3>1, SumAgree DEF given
  <2>9. \A r \in ranks : prop[r] \in Int
    <3>1. \A r \in ranks : r = top \/ r \in others
      OBVIOUS
    <3>2. \A r \in others : prop[r] \in Int
      BY <2>1, <2>6
    <3>3. prop[top] \in Int
      <4> HIDE DEF given, prop
      <4> QED BY <2>5, <2>7
    <3> HIDE DEF prop, others, top
    <3> QED BY <3>1, <3>2, <3>3
  <2>10. \A r \in ranks : prop[r] = Proportional(board, ranks, rest, r)
    OBVIOUS
  <2> HIDE DEF prop, shares, share, given
  <2>11. SumFunctionOnSet(prop, ranks) = prop[top] + SumFunctionOnSet(prop, others)
    BY <2>9, SumRemove
  <2>12. SumFunctionOnSet(prop, ranks) = rest
    BY ONLY <2>5, <2>7, <2>8, <2>11, rest \in Int
  <2> QED BY <2>9, <2>10, <2>12 DEF prop
<1> QED BY <1>2, <1>3

(* However the standings look, what is paid out is the prize. *)
LEMMA PrizePaidOut ==
  ASSUME NEW board \in Seq(Standing), board # <<>>, NEW prize \in Nat
  PROVE  PaidOut(board, prize) = prize
<1> DEFINE paid == DOMAIN board \cap (1..10)
           lower == paid \ DOMAIN PodiumShare
           ranks == IF lower = {} THEN paid ELSE lower
           fixed == [r \in paid |-> Fixed(board, prize, r)]
           rest == prize - SumFunction(fixed)
           prop == [r \in paid |-> Proportional(board, ranks, rest, r)]
           part == [r \in ranks |-> Proportional(board, ranks, rest, r)]
           payouts == [r \in paid |-> Payout(board, prize, r)]
<1>1. /\ IsFiniteSet(paid) /\ IsFiniteSet(ranks) /\ ranks \in SUBSET paid
      /\ Min(ranks) \in ranks /\ Max(ranks) \in ranks
      /\ \A r \in paid : board[r].points \in Nat
  BY PaidRanks
<1>2. \A r \in paid : fixed[r] \in Int
  <2>1. \A r \in DOMAIN PodiumShare : PodiumShare[r] \in Nat
    BY DEF PodiumShare
  <2>2. ASSUME NEW r \in DOMAIN PodiumShare
        PROVE  Floor(prize * PodiumShare[r], BPS) \in Int
    <3>1. prize * PodiumShare[r] \in Nat /\ BPS \in Nat \ {0}
      BY <2>1 DEF BPS
    <3> QED BY <3>1, Division
  <2>3. \A r \in paid : Fixed(board, prize, r) \in Int
    BY <2>2 DEF Fixed
  <2> QED BY <2>3
<1>3. SumFunction(fixed) = SumFunctionOnSet(fixed, paid)
  BY DEF SumFunction
<1>4. \A r \in paid : payouts[r] = fixed[r] + prop[r]
  BY DEF Payout, Paid, Rest, Sharing
<1>5. PaidOut(board, prize) = SumFunctionOnSet(payouts, paid)
  BY DEF PaidOut, Paid, SumFunction
<1>6. (\A r \in ranks : part[r] = prop[r]) /\ (\A r \in paid \ ranks : prop[r] = 0)
  BY <1>1 DEF Proportional
<1>7. \A r \in ranks : part[r] = Proportional(board, ranks, rest, r)
  OBVIOUS
<1> HIDE DEF fixed, payouts
<1>8. SumFunctionOnSet(fixed, paid) \in Int
  BY <1>1, <1>2, SumType
<1>9. rest \in Int
  <2> HIDE DEF paid
  <2> QED BY <1>3, <1>8
<1> HIDE DEF rest, lower, ranks, paid
<1>10. (\A r \in ranks : part[r] \in Int) /\ SumFunctionOnSet(part, ranks) = rest
  BY <1>1, <1>7, <1>9, AllSharedOut
<1> HIDE DEF prop, part
<1>11. \A r \in paid : prop[r] \in Int
  BY <1>6, <1>10
<1>12. SumFunctionOnSet(prop, ranks) = rest
  BY <1>1, <1>6, <1>10, SumAgree
<1>13. SumFunctionOnSet(prop, paid) = SumFunctionOnSet(prop, ranks)
  BY <1>1, <1>6, <1>11, SumElsewhereZero
<1>14. SumFunctionOnSet(payouts, paid)
         = SumFunctionOnSet(fixed, paid) + SumFunctionOnSet(prop, paid)
  BY ONLY <1>1, <1>2, <1>4, <1>11, SumPlus
<1>15. SumFunctionOnSet(fixed, paid) + rest = prize
  BY <1>3, <1>8 DEF rest
<1> QED BY <1>5, <1>12, <1>13, <1>14, <1>15

-----------------------------------------------------------------------------
(* The seasons. *)

SeasonInv == SeasonsTypeOK /\ SeasonsDisjoint

(* What is still owed of each season's prize. *)
PrizeDebt == [i \in SeasonIds |-> IF seasons[i].finalized THEN 0 ELSE seasons[i].prize]

PrizeSum == SumFunctionOnSet(PrizeDebt, SeasonIds)

(* What a step adds to the prizes owed it adds to the balance. *)
SeasonsPay == PrizeSum' - escrow' <= PrizeSum - escrow

(* What every change of an entry but a new one leaves as it was.            *)
SameTerm(s, r) ==
  r.start = s.start /\ r.end = s.end /\ r.prize = s.prize /\ (~r.finalized => ~s.finalized)

LEMMA SeasonFacts ==
  ASSUME SeasonInv
  PROVE  /\ PlatformTypeOK /\ escrow \in Nat /\ activeSeason \in Nat
         /\ scorers \subseteq userList
         /\ seasons \in Seq(Season)
         /\ \A i \in SeasonIds : i \in Nat /\ seasons[i] \in Season
  BY DEF SeasonInv, SeasonsTypeOK, SeasonIds

LEMMA PrizeSumTyped ==
  ASSUME SeasonInv
  PROVE  /\ IsFiniteSet(SeasonIds) /\ PrizeSum \in Nat
         /\ \A i \in SeasonIds : PrizeDebt[i] \in Nat /\ PrizeDebt[i] <= PrizeSum
<1>1. IsFiniteSet(SeasonIds)
  <2>1. SeasonIds = 1..Len(seasons) /\ Len(seasons) \in Nat
    BY SeasonFacts DEF SeasonIds
  <2> QED BY <2>1, FS_Interval
<1>2. \A i \in SeasonIds : PrizeDebt[i] \in Nat
  BY SeasonFacts DEF PrizeDebt, Season
<1> QED BY <1>1, <1>2, SumNat, SumMember DEF PrizeSum

(* Entries that change keep their terms; a prize once given is not owed.    *)
LEMMA EntriesChanged ==
  ASSUME SeasonInv, SeasonsTypeOK', DOMAIN seasons' = DOMAIN seasons,
         \A i \in SeasonIds : SameTerm(seasons[i], seasons'[i])
  PROVE  SeasonInv' /\ PrizeSum' \in Int /\ PrizeSum' <= PrizeSum
<1>1. SeasonInv'
  BY DEF SeasonInv, SeasonsDisjoint, SameTerm, SeasonIds
<1>2. \A i \in SeasonIds : seasons[i] \in Season /\ seasons'[i] \in Season
  BY SeasonFacts DEF SeasonsTypeOK, SeasonIds
<1>3. SeasonIds' = SeasonIds
  BY DEF SeasonIds
<1>4. \A i \in SeasonIds :
        /\ PrizeDebt[i] = IF seasons[i].finalized THEN 0 ELSE seasons[i].prize
        /\ PrizeDebt'[i] = IF seasons'[i].finalized THEN 0 ELSE seasons'[i].prize
  BY <1>3 DEF PrizeDebt
<1>5. \A i \in SeasonIds : PrizeDebt[i] \in Int /\ PrizeDebt'[i] \in Int
                           /\ PrizeDebt'[i] <= PrizeDebt[i]
  BY <1>2, <1>4 DEF Season, SameTerm
<1>6. PICK f, g : f = PrizeDebt /\ g = PrizeDebt'
  OBVIOUS
<1>7. SumFunctionOnSet(g, SeasonIds) <= SumFunctionOnSet(f, SeasonIds)
  BY ONLY <1>5, <1>6, PrizeSumTyped, SeasonInv, SumMonotone
<1>8. SumFunctionOnSet(g, SeasonIds) \in Int
  BY ONLY <1>5, <1>6, PrizeSumTyped, SeasonInv, SumType
<1> QED BY <1>1, <1>3, <1>6, <1>7, <1>8 DEF PrizeSum

LEMMA CreateSeasonInv ==
  ASSUME SeasonInv, NEW term \in Terms, NEW prize \in Prizes, CreateSeason(term, prize)
  PROVE  SeasonInv' /\ SeasonsPay
<1> DEFINE new == [start |-> term.start, end |-> term.end, prize |-> prize,
                   participants |-> 0, active |-> term.start <= now /\ now < term.end,
                   finalized |-> FALSE, board |-> <<>>]
           n == Len(seasons) + 1
<1>1. /\ prize \in Nat /\ term.start \in Nat /\ term.end \in Nat
      /\ seasons' = Append(seasons, new) /\ Lock(prize)
      /\ UNCHANGED <<platformVars, activeSeason, scorers>>
      /\ \A i \in SeasonIds : ~seasons[i].finalized => ~Overlaps(seasons[i], term)
  BY SeasonAssumption DEF SeasonAssumption, CreateSeason
<1>2. escrow' \in Nat /\ escrow' = escrow + prize /\ escrow \in Nat
  BY <1>1, SeasonFacts DEF Lock
<1>3. /\ new \in Season /\ new.start = term.start /\ new.end = term.end
      /\ new.prize = prize /\ ~new.finalized
  BY <1>1 DEF Season
<1> HIDE DEF new
<1>4. /\ seasons' \in Seq(Season) /\ DOMAIN seasons' = DOMAIN seasons \cup {n}
      /\ seasons'[n] = new
      /\ \A i \in DOMAIN seasons : i # n /\ seasons'[i] = seasons[i] /\ seasons[i] \in Season
  BY <1>1, <1>3, SeasonFacts
<1> HIDE DEF n
<1>5. SeasonsTypeOK'
  BY <1>1, <1>2, <1>4, SeasonFacts DEF SeasonsTypeOK, platformVars, PlatformTypeOK
<1>6. ASSUME NEW i \in DOMAIN seasons, ~seasons[i].finalized
      PROVE  new.end <= seasons[i].start \/ seasons[i].end <= new.start
  <2>1. seasons[i].start \in Nat /\ seasons[i].end \in Nat
    BY <1>4 DEF Season
  <2>2. ~(seasons[i].start < term.end /\ term.start < seasons[i].end)
    BY <1>1, <1>6 DEF Overlaps, SeasonIds
  <2> QED BY <1>1, <1>3, <2>1, <2>2
<1>7. SeasonsDisjoint'
  BY <1>4, <1>6 DEF SeasonInv, SeasonsDisjoint, SeasonIds
<1>8. SeasonIds' = SeasonIds \cup {n} /\ n \notin SeasonIds
  BY <1>4 DEF SeasonIds
<1>9. /\ PrizeDebt'[n] = prize
      /\ \A i \in SeasonIds : PrizeDebt'[i] = PrizeDebt[i]
  <2>1. \A i \in SeasonIds \cup {n} :
          PrizeDebt'[i] = IF seasons'[i].finalized THEN 0 ELSE seasons'[i].prize
    BY <1>8 DEF PrizeDebt
  <2>2. \A i \in SeasonIds : seasons'[i] = seasons[i]
    BY <1>4 DEF SeasonIds
  <2>3. \A i \in SeasonIds : PrizeDebt'[i] = PrizeDebt[i]
    BY <2>1, <2>2 DEF PrizeDebt
  <2> QED BY <1>3, <1>4, <2>1, <2>3
<1>10. PrizeSum' = PrizeSum + prize
  <2>1. PICK f, g : f = PrizeDebt /\ g = PrizeDebt'
    OBVIOUS
  <2>2. /\ IsFiniteSet(SeasonIds) /\ \A i \in SeasonIds : f[i] \in Int /\ g[i] = f[i]
        /\ \A i \in SeasonIds \cup {n} : g[i] \in Int
        /\ g[n] = prize
    BY <1>1, <1>9, <2>1, PrizeSumTyped
  <2>3. SumFunctionOnSet(g, SeasonIds \cup {n}) = SumFunctionOnSet(g, SeasonIds) + g[n]
    BY ONLY <1>8, <2>2, SumAdd
  <2>4. SumFunctionOnSet(f, SeasonIds) = SumFunctionOnSet(g, SeasonIds)
    BY ONLY <2>2, SumAgree
  <2> QED BY <1>8, <2>1, <2>2, <2>3, <2>4 DEF PrizeSum
<1> QED BY <1>1, <1>2, <1>5, <1>7, <1>10, PrizeSumTyped DEF SeasonInv, SeasonsPay

(* Refreshing flags. *)
LEMMA RefreshedTyped ==
  ASSUME SeasonInv
  PROVE  /\ DOMAIN Refreshed = DOMAIN seasons
         /\ \A i \in SeasonIds : Refreshed[i] \in Season /\ SameTerm(seasons[i], Refreshed[i])
<1>1. ASSUME NEW i \in SeasonIds
      PROVE  Refreshed[i] \in Season /\ SameTerm(seasons[i], Refreshed[i])
  <2>1. seasons[i] \in Season /\ Running(seasons[i]) \in BOOLEAN
    BY SeasonFacts DEF Running
  <2>2. Refreshed[i] = [seasons[i] EXCEPT !.active = Running(seasons[i])]
        \/ Refreshed[i] = seasons[i]
    BY DEF Refreshed
  <2> QED BY <2>1, <2>2 DEF Season, SameTerm
<1> QED BY <1>1 DEF Refreshed, SeasonIds

(* A step that rewrites entries one by one, and no more.                    *)
LEMMA EntriesOnly ==
  ASSUME SeasonInv, PlatformTypeOK', escrow' \in Nat, activeSeason' \in Nat,
         scorers' \subseteq userList', NEW f,
         seasons' = [i \in SeasonIds |-> f[i]],
         \A i \in SeasonIds : f[i] \in Season /\ SameTerm(seasons[i], f[i])
  PROVE  SeasonInv' /\ PrizeSum' \in Int /\ PrizeSum' <= PrizeSum
<1>1. SeasonIds = 1..Len(seasons) /\ Len(seasons) \in Nat
  BY SeasonFacts DEF SeasonIds
<1>2. seasons' \in Seq(Season) /\ DOMAIN seasons' = DOMAIN seasons
  BY <1>1 DEF SeasonIds
<1>3. SeasonsTypeOK'
  BY <1>2 DEF SeasonsTypeOK
<1> QED BY <1>2, <1>3, EntriesChanged

(* The prize given is no longer owed. *)
LEMMA GivenPrize ==
  ASSUME SeasonInv, NEW i \in SeasonIds, FinalizeSeason(i)
  PROVE  SeasonsPay
<1>1. /\ ~seasons[i].finalized /\ escrow' = escrow - seasons[i].prize
      /\ seasons' = [seasons EXCEPT ![i].finalized = TRUE, ![i].active = FALSE]
  BY DEF FinalizeSeason, Finalizable, Due, Pay
<1>2. /\ IsFiniteSet(SeasonIds) /\ PrizeSum \in Nat /\ escrow \in Nat
      /\ \A j \in SeasonIds : PrizeDebt[j] \in Nat
      /\ seasons[i] \in Season /\ seasons[i].prize \in Nat
  BY PrizeSumTyped, SeasonFacts DEF Season
<1>3. SeasonIds' = SeasonIds
  BY <1>1 DEF SeasonIds
<1>4. seasons'[i].finalized /\ \A j \in SeasonIds : j # i => seasons'[j] = seasons[j]
  BY <1>1, <1>2 DEF SeasonIds, Season
<1>5. /\ PrizeDebt[i] = seasons[i].prize /\ PrizeDebt'[i] = 0
      /\ \A j \in SeasonIds : j # i => PrizeDebt'[j] = PrizeDebt[j]
  <2>1. \A j \in SeasonIds :
          /\ PrizeDebt[j] = IF seasons[j].finalized THEN 0 ELSE seasons[j].prize
          /\ PrizeDebt'[j] = IF seasons'[j].finalized THEN 0 ELSE seasons'[j].prize
    BY <1>3 DEF PrizeDebt
  <2>2. ~seasons[i].finalized
    BY <1>1
  <2>3. PrizeDebt[i] = seasons[i].prize
    BY ONLY i \in SeasonIds, <2>1, <2>2
  <2>4. PrizeDebt'[i] = 0
    BY ONLY i \in SeasonIds, <1>4, <2>1
  <2>5. \A j \in SeasonIds : j # i => PrizeDebt'[j] = PrizeDebt[j]
    BY ONLY <1>4, <2>1
  <2> QED BY <2>3, <2>4, <2>5
<1>6. PICK f, g : f = PrizeDebt /\ g = PrizeDebt'
  OBVIOUS
<1>7. \A j \in SeasonIds : f[j] \in Int /\ g[j] \in Int /\ (j # i => g[j] = f[j])
  BY <1>2, <1>5, <1>6
<1>8. SumFunctionOnSet(g, SeasonIds) = SumFunctionOnSet(f, SeasonIds) - f[i] + g[i]
  BY ONLY <1>2, <1>7, i \in SeasonIds, SumChange
<1>9. PrizeSum' = PrizeSum - seasons[i].prize
  BY <1>2, <1>3, <1>5, <1>6, <1>8 DEF PrizeSum
<1> QED BY <1>1, <1>2, <1>9 DEF SeasonsPay

LEMMA SeasonStepInv ==
  ASSUME SeasonInv, SeasonStep
  PROVE  SeasonInv' /\ SeasonsPay
<1>0. ASSUME SeasonInv', PrizeSum' \in Int, PrizeSum' <= PrizeSum, escrow' = escrow
      PROVE  SeasonInv' /\ SeasonsPay
  <2>1. PrizeSum \in Nat /\ escrow \in Nat
    BY PrizeSumTyped, SeasonFacts
  <2>2. PrizeSum' \in Int /\ PrizeSum' <= PrizeSum
    BY <1>0
  <2>3. PrizeSum \in Int /\ escrow \in Nat
    BY <2>1
  <2>4. \A a, b \in Int, c \in Nat : a <= b => a - c <= b - c
    OBVIOUS
  <2>5. PrizeSum' - escrow <= PrizeSum - escrow
    BY <2>2, <2>3, <2>4
  <2>6. SeasonsPay
    BY <1>0, <2>5 DEF SeasonsPay
  <2> QED BY <1>0, <2>6
<1>1. CASE GetActiveSeason
  <2>1. /\ PlatformTypeOK' /\ escrow' \in Nat /\ activeSeason' \in Nat
        /\ scorers' \subseteq userList'
    BY <1>1, SeasonFacts DEF GetActiveSeason, platformVars, PlatformTypeOK
  <2>2. seasons' = [i \in SeasonIds |-> Refreshed[i]]
    BY <1>1 DEF GetActiveSeason, Refreshed
  <2>3. SeasonInv' /\ PrizeSum' \in Int /\ PrizeSum' <= PrizeSum
    BY <2>1, <2>2, RefreshedTyped, EntriesOnly
  <2> QED BY <1>0, <1>1, <2>3 DEF GetActiveSeason
<1>2. ASSUME NEW u \in Predictors, NEW predicted \in BOOLEAN, TrackUserProfile(u, predicted)
      PROVE  SeasonInv' /\ SeasonsPay
  <2> DEFINE running == {i \in SeasonIds : Running(seasons[i])}
             counted(i) == IF i \in running /\ \A j \in running : i <= j
                           THEN [Refreshed[i] EXCEPT !.participants = @ + 1]
                           ELSE Refreshed[i]
             f == [i \in SeasonIds |-> IF ~predicted THEN seasons[i] ELSE counted(i)]
  <2>1. /\ PlatformTypeOK' /\ escrow' \in Nat /\ activeSeason' \in Nat
        /\ scorers' \subseteq userList'
    BY <1>2, SeasonFacts, SeasonAssumption
    DEF TrackUserProfile, TrackUsers, PlatformTypeOK, SeasonAssumption
  <2>2. seasons' = f
    <3>1. CASE ~predicted
      BY <1>2, <3>1, SeasonFacts DEF TrackUserProfile, SeasonIds
    <3>2. CASE predicted
      BY <1>2, <3>2 DEF TrackUserProfile
    <3> QED BY <3>1, <3>2
  <2>3. ASSUME NEW i \in SeasonIds PROVE f[i] \in Season /\ SameTerm(seasons[i], f[i])
    <3>1. Refreshed[i] \in Season /\ SameTerm(seasons[i], Refreshed[i]) /\ seasons[i] \in Season
      BY RefreshedTyped, SeasonFacts
    <3>2. \/ f[i] = seasons[i]
          \/ f[i] = Refreshed[i]
          \/ f[i] = [Refreshed[i] EXCEPT !.participants = @ + 1]
      OBVIOUS
    <3> HIDE DEF f
    <3>3. ASSUME NEW r \in Season
          PROVE  LET more == [r EXCEPT !.participants = @ + 1]
                 IN  more \in Season /\ SameTerm(r, more)
      BY DEF Season, SameTerm
    <3>4. SameTerm(seasons[i], seasons[i])
      BY DEF SameTerm
    <3>5. CASE f[i] = [Refreshed[i] EXCEPT !.participants = @ + 1]
      <4>1. f[i] \in Season /\ SameTerm(Refreshed[i], f[i])
        BY <3>1, <3>3, <3>5
      <4> QED BY <3>1, <4>1 DEF SameTerm
    <3> QED BY <3>1, <3>2, <3>4, <3>5
  <2>4. seasons' = [i \in SeasonIds |-> f[i]]
    BY <2>2
  <2> HIDE DEF f
  <2>5. SeasonInv' /\ PrizeSum' \in Int /\ PrizeSum' <= PrizeSum
    BY <2>1, <2>3, <2>4, EntriesOnly
  <2> QED BY <1>0, <1>2, <2>5 DEF TrackUserProfile
<1>3. ASSUME NEW u \in Predictors, EarnPoints(u) PROVE SeasonInv' /\ SeasonsPay
  <2>1. SeasonsTypeOK'
    BY <1>3, SeasonFacts DEF EarnPoints, SeasonsTypeOK, platformVars, PlatformTypeOK
  <2>2. SeasonInv' /\ PrizeSum' \in Int /\ PrizeSum' <= PrizeSum
    BY <1>3, <2>1, EntriesChanged DEF EarnPoints, SameTerm
  <2> QED BY <1>0, <1>3, <2>2 DEF EarnPoints
<1>4. ASSUME NEW i \in SeasonIds, FinalizeSeason(i) PROVE SeasonInv' /\ SeasonsPay
  <2> DEFINE r == [seasons[i] EXCEPT !.finalized = TRUE, !.active = FALSE]
             f == [seasons EXCEPT ![i] = r]
  <2>1. seasons[i] \in Season /\ seasons[i].prize \in Nat
    BY SeasonFacts DEF Season
  <2>2. r \in Season /\ SameTerm(seasons[i], r) /\ r.finalized
    BY <2>1 DEF Season, SameTerm
  <2>3. /\ PlatformTypeOK' /\ escrow' \in Nat /\ activeSeason' \in Nat
        /\ scorers' \subseteq userList'
    BY <1>4, <2>1, BalanceTyped, SeasonFacts DEF FinalizeSeason, platformVars, PlatformTypeOK
  <2>4. seasons' = f
    BY <1>4 DEF FinalizeSeason
  <2> HIDE DEF r
  <2>5. \A j \in SeasonIds : f[j] \in Season /\ SameTerm(seasons[j], f[j])
    BY <2>2, SeasonFacts DEF SameTerm, SeasonIds
  <2>6. seasons' = [j \in SeasonIds |-> f[j]]
    BY <2>4, SeasonFacts DEF SeasonIds
  <2> HIDE DEF f
  <2>7. SeasonInv' /\ PrizeSum' \in Int /\ PrizeSum' <= PrizeSum
    BY <2>3, <2>5, <2>6, EntriesOnly
  <2>8. SeasonsPay
    BY <1>4, GivenPrize
  <2> QED BY <2>7, <2>8
<1>5. ASSUME NEW i \in SeasonIds, ResetSeasonPoints(i) PROVE SeasonInv' /\ SeasonsPay
  <2> DEFINE f == [j \in SeasonIds |-> [seasons[j] EXCEPT !.active = j = i]]
  <2>1. /\ PlatformTypeOK' /\ escrow' \in Nat /\ activeSeason' \in Nat
        /\ scorers' \subseteq userList'
    BY <1>5, SeasonFacts DEF ResetSeasonPoints, platformVars, PlatformTypeOK
  <2>2. \A j \in SeasonIds : f[j] \in Season /\ SameTerm(seasons[j], f[j])
    BY SeasonFacts DEF Season, SameTerm
  <2>3. seasons' = [j \in SeasonIds |-> f[j]]
    BY <1>5 DEF ResetSeasonPoints
  <2> HIDE DEF f
  <2>4. SeasonInv' /\ PrizeSum' \in Int /\ PrizeSum' <= PrizeSum
    BY <2>1, <2>2, <2>3, EntriesOnly
  <2> QED BY <1>0, <1>5, <2>4 DEF ResetSeasonPoints
<1>6. ASSUME NEW i \in SeasonIds, NEW board \in Boards, UpdateLeaderboard(i, board)
      PROVE  SeasonInv' /\ SeasonsPay
  <2> DEFINE r == [seasons[i] EXCEPT !.board = board]
             f == [seasons EXCEPT ![i] = r]
  <2>1. seasons[i] \in Season /\ board \in Seq(Standing)
    BY SeasonFacts, SeasonAssumption DEF SeasonAssumption
  <2>2. r \in Season /\ SameTerm(seasons[i], r)
    BY <2>1 DEF Season, SameTerm
  <2>3. /\ PlatformTypeOK' /\ escrow' \in Nat /\ activeSeason' \in Nat
        /\ scorers' \subseteq userList'
    BY <1>6, SeasonFacts DEF UpdateLeaderboard, platformVars, PlatformTypeOK
  <2>4. seasons' = f
    BY <1>6 DEF UpdateLeaderboard
  <2> HIDE DEF r
  <2>5. \A j \in SeasonIds : f[j] \in Season /\ SameTerm(seasons[j], f[j])
    BY <2>2, SeasonFacts DEF SameTerm, SeasonIds
  <2>6. seasons' = [j \in SeasonIds |-> f[j]]
    BY <2>4, SeasonFacts DEF SeasonIds
  <2> HIDE DEF f
  <2>7. SeasonInv' /\ PrizeSum' \in Int /\ PrizeSum' <= PrizeSum
    BY <2>3, <2>5, <2>6, EntriesOnly
  <2> QED BY <1>0, <1>6, <2>7 DEF UpdateLeaderboard
<1> QED BY <1>1, <1>2, <1>3, <1>4, <1>5, <1>6, CreateSeasonInv DEF SeasonStep

LEMMA SeasonsInitInv == SeasonsInit => SeasonInv /\ PrizeSum = 0
<1> SUFFICES ASSUME SeasonsInit PROVE SeasonInv /\ PrizeSum = 0
  OBVIOUS
<1>1. SeasonsTypeOK
  BY PlatformInitTyped DEF SeasonsInit, SeasonsTypeOK
<1>2. SeasonIds = {}
  BY DEF SeasonsInit, SeasonIds
<1>3. PrizeSum = 0
  BY <1>2, SumEmpty DEF PrizeSum
<1> QED BY <1>1, <1>2, <1>3 DEF SeasonInv, SeasonsDisjoint

-----------------------------------------------------------------------------
(* Pools and seasons over one balance. *)

(* The balance covers what both owe. *)
CoverInv == PoolSum + PrizeSum <= escrow

RewardsInv == PoolInv /\ SeasonInv /\ CoverInv

SumTypes == PoolSum \in Nat /\ PrizeSum \in Nat /\ escrow \in Nat

LEMMA SumsTyped == PoolInv /\ SeasonInv => SumTypes
BY PoolSumTyped, PrizeSumTyped, SeasonFacts DEF SumTypes

LEMMA PlatformLeft ==
  ASSUME LiquidityStep
  PROVE  UNCHANGED platformVars
<1>1. ASSUME NEW m \in Markets, NEW u \in Users, NEW amount \in Deposits,
             AddLiquidity(u, m, amount)
      PROVE  UNCHANGED platformVars
  BY <1>1 DEF AddLiquidity
<1>2. ASSUME NEW m \in Markets, NEW u \in Users, NEW tokens \in Burns,
             RemoveLiquidity(u, m, tokens)
      PROVE  UNCHANGED platformVars
  BY <1>2 DEF RemoveLiquidity
<1>3. ASSUME NEW m \in Markets, NEW from \in Outcomes, NEW to \in Outcomes,
             NEW amount \in Swaps, NEW minOut \in MinOuts,
             SwapOutcome(m, from, to, amount, minOut)
      PROVE  UNCHANGED platformVars
  BY <1>3 DEF SwapOutcome
<1>4. ASSUME NEW m \in Markets, OpenOrClose(m) PROVE UNCHANGED platformVars
  BY <1>4 DEF OpenOrClose
<1>5. ASSUME NEW m \in Markets, NEW u \in Users, CollectLpFees(u, m)
      PROVE  UNCHANGED platformVars
  BY <1>5 DEF CollectLpFees
<1> QED BY <1>1, <1>2, <1>3, <1>4, <1>5 DEF LiquidityStep

(* Pools alone change no season. *)
LEMMA SeasonsLeft ==
  ASSUME SeasonInv, SeasonsTypeOK', UNCHANGED seasonVars
  PROVE  SeasonInv' /\ PrizeSum' = PrizeSum
<1>1. seasons' = seasons
  BY DEF seasonVars
<1>2. PrizeDebt' = PrizeDebt /\ SeasonIds' = SeasonIds
  BY <1>1 DEF PrizeDebt, SeasonIds
<1>3. PrizeSum' = PrizeSum
  BY <1>2 DEF PrizeSum
<1>4. SeasonInv'
  BY <1>1 DEF SeasonInv, SeasonsDisjoint, SeasonIds
<1> QED BY <1>3, <1>4

(* Each half pays for what it comes to owe, and leaves the debt of the      *)
(* other.                                                                   *)
LEMMA StaysCovered ==
  ASSUME RewardsInv, PoolInv', SeasonInv',
         \/ PoolsPay /\ PrizeSum' = PrizeSum
         \/ SeasonsPay /\ PoolSum' = PoolSum
         \/ PoolSum' = PoolSum /\ PrizeSum' = PrizeSum /\ escrow' = escrow
  PROVE  RewardsInv'
<1>1. PoolSum \in Nat /\ PrizeSum \in Nat /\ escrow \in Nat
  BY SumsTyped DEF RewardsInv, SumTypes
<1>2. PoolSum' \in Nat /\ PrizeSum' \in Nat /\ escrow' \in Nat
  <2>1. SumTypes'
    BY SumsTyped, PTL
  <2> QED BY <2>1 DEF SumTypes
<1>3. PoolSum + PrizeSum <= escrow
  BY DEF RewardsInv, CoverInv
<1>4. \/ PoolSum' - escrow' <= PoolSum - escrow /\ PrizeSum' = PrizeSum
      \/ PrizeSum' - escrow' <= PrizeSum - escrow /\ PoolSum' = PoolSum
      \/ PoolSum' = PoolSum /\ PrizeSum' = PrizeSum /\ escrow' = escrow
  BY DEF PoolsPay, SeasonsPay
<1>5. PoolSum' + PrizeSum' <= escrow'
  <2>1. \A p, q, e, a, b, f \in Nat :
          /\ p + q <= e
          /\ \/ a - f <= p - e /\ b = q
             \/ b - f <= q - e /\ a = p
             \/ a = p /\ b = q /\ f = e
          => a + b <= f
    OBVIOUS
  <2> QED BY ONLY <1>1, <1>2, <1>3, <1>4, <2>1
<1> QED BY <1>5 DEF RewardsInv, CoverInv

LEMMA RewardsStepInv ==
  ASSUME RewardsInv, [RewardsNext]_rewardsVars
  PROVE  RewardsInv'
<1>0. PoolInv /\ SeasonInv
  BY DEF RewardsInv
<1>1. CASE LiquidityStep /\ UNCHANGED seasonVars
  <2>1. PoolInv' /\ PoolsPay
    BY <1>0, <1>1, LiquidityStepInv
  <2>2. UNCHANGED platformVars
    BY <1>1, PlatformLeft
  <2>3. SeasonsTypeOK'
    BY <1>0, <1>1, <2>1, <2>2, SeasonFacts
    DEF PoolInv, LiquidityTypeOK, SeasonsTypeOK, seasonVars, platformVars
  <2>4. SeasonInv' /\ PrizeSum' = PrizeSum
    BY <1>0, <1>1, <2>3, SeasonsLeft
  <2> QED BY <2>1, <2>4, StaysCovered
<1>2. CASE SeasonStep /\ UNCHANGED poolVars
  <2>1. SeasonInv' /\ SeasonsPay
    BY <1>0, <1>2, SeasonStepInv
  <2>2. LiquidityTypeOK'
    BY <1>0, <1>2, <2>1 DEF SeasonInv, SeasonsTypeOK, PoolInv, LiquidityTypeOK, poolVars
  <2>3. PoolInv' /\ PoolSum' = PoolSum
    BY <1>0, <1>2, <2>2, PoolsUntouched DEF poolVars
  <2> QED BY <2>1, <2>3, StaysCovered
<1>3. CASE (Tick \/ ConfigNext) /\ UNCHANGED <<escrow, poolVars, seasonVars>>
  <2>1. PlatformTypeOK'
    BY <1>0, <1>3, ConfigTyped DEF PoolInv, LiquidityTypeOK
  <2>2. UNCHANGED userList
    BY <1>3 DEF Tick, ConfigNext, SetPaused, UpdateProtocolFee, TransferAdmin, UpdateOracle
  <2>3. LiquidityTypeOK' /\ SeasonsTypeOK'
    BY <1>0, <1>3, <2>1, <2>2, SeasonFacts
    DEF PoolInv, LiquidityTypeOK, SeasonsTypeOK, poolVars, seasonVars
  <2>4. PoolInv' /\ PoolSum' = PoolSum
    BY <1>0, <1>3, <2>3, PoolsUntouched DEF poolVars
  <2>5. SeasonInv' /\ PrizeSum' = PrizeSum
    BY <1>0, <1>3, <2>3, SeasonsLeft
  <2> QED BY <1>3, <2>4, <2>5, StaysCovered
<1>4. CASE UNCHANGED rewardsVars
  <2>1. LiquidityTypeOK' /\ SeasonsTypeOK'
    BY <1>0, <1>4, SeasonFacts
    DEF PoolInv, LiquidityTypeOK, SeasonsTypeOK, rewardsVars, platformVars, poolVars,
        seasonVars, PlatformTypeOK
  <2>2. PoolInv' /\ PoolSum' = PoolSum
    BY <1>0, <1>4, <2>1, PoolsUntouched DEF rewardsVars, poolVars
  <2>3. SeasonInv' /\ PrizeSum' = PrizeSum
    BY <1>0, <1>4, <2>1, SeasonsLeft DEF rewardsVars
  <2> QED BY <1>4, <2>2, <2>3, StaysCovered DEF rewardsVars
<1> QED BY <1>1, <1>2, <1>3, <1>4 DEF RewardsNext

(* Pools and seasons keep their invariants however their calls interleave   *)
(* over the one balance, and neither eats into what the other owes.         *)
THEOREM RewardsInvariant == RewardsSpec => []RewardsInv
<1>1. ASSUME RewardsInit PROVE RewardsInv
  <2>1. PoolInv /\ PoolSum = 0 /\ SeasonInv /\ PrizeSum = 0
    BY <1>1, LiquidityInitInv, SeasonsInitInv DEF RewardsInit
  <2>2. escrow = 0
    BY <1>1 DEF RewardsInit, LiquidityInit
  <2> QED BY <2>1, <2>2 DEF RewardsInv, CoverInv
<1>2. RewardsInv /\ [RewardsNext]_rewardsVars => RewardsInv'
  BY RewardsStepInv
<1> QED BY <1>1, <1>2, PTL DEF RewardsSpec

(* Every entry keeps its type: no reserve, position, prize or balance is    *)
(* ever driven below zero.                                                  *)
THEOREM RewardsTypeCorrect == RewardsSpec => []RewardsTypeOK
<1>1. RewardsInv => RewardsTypeOK
  BY DEF RewardsInv, PoolInv, SeasonInv, RewardsTypeOK
<1> QED BY <1>1, RewardsInvariant, PTL

(* An LP token stays worth one unit of deposit, for any providers, amounts  *)
(* and rounding.                                                            *)
THEOREM NoDilutionAlways == RewardsSpec => []NoDilution
<1>1. RewardsInv => NoDilution
  BY DEF RewardsInv, PoolInv
<1> QED BY <1>1, RewardsInvariant, PTL

(* Two seasons to be paid never overlap, for any terms and prizes.          *)
THEOREM SeasonsDisjointAlways == RewardsSpec => []SeasonsDisjoint
<1>1. RewardsInv => SeasonsDisjoint
  BY DEF RewardsInv, SeasonInv
<1> QED BY <1>1, RewardsInvariant, PTL

-----------------------------------------------------------------------------
(* The provider's positions, added up as the property does: over those on   *)
(* file only.                                                               *)
LEMMA HoldersOnly ==
  ASSUME PoolInv, NEW m \in Markets
  PROVE  /\ Tokens(m) = Holding(position[m])
         /\ SumFunction([u \in Holders(m) |-> position[m][u].fees]) = Earned(position[m])
<1> DEFINE tokens == [u \in Holders(m) |-> position[m][u].tokens]
           fees == [u \in Holders(m) |-> position[m][u].fees]
           h == position[m]
<1>1. /\ h \in Positions /\ IsFiniteSet(Users) /\ IsFiniteSet(Holders(m))
      /\ Holders(m) \in SUBSET Users
      /\ \A u \in Users : u \in Holders(m) <=> h[u] # None
  BY MarketTyped, PositionFacts, FS_Subset DEF Holders
<1>2. \A u \in Users : /\ TokensIn(h)[u] = Tok(h[u]) /\ FeesIn(h)[u] = Fee(h[u])
                       /\ Tok(h[u]) \in Nat /\ Fee(h[u]) \in Nat
  BY <1>1, HoldingTyped DEF TokensIn, FeesIn
<1>3. \A u \in Users \ Holders(m) : TokensIn(h)[u] = 0 /\ FeesIn(h)[u] = 0
  BY <1>1, <1>2 DEF Tok, Fee
<1>4. \A u \in Holders(m) : tokens[u] = TokensIn(h)[u] /\ fees[u] = FeesIn(h)[u]
  BY <1>1, <1>2 DEF Tok, Fee
<1>5. /\ Tokens(m) = SumFunctionOnSet(tokens, Holders(m))
      /\ SumFunction(fees) = SumFunctionOnSet(fees, Holders(m))
  BY DEF Tokens, SumFunction
<1> HIDE DEF tokens, fees, h
<1>6. SumFunctionOnSet(tokens, Holders(m)) = Holding(h)
  <2>1. /\ \A u \in Users : TokensIn(h)[u] \in Int
        /\ \A u \in Users \ Holders(m) : TokensIn(h)[u] = 0
        /\ \A u \in Holders(m) : TokensIn(h)[u] \in Int /\ tokens[u] = TokensIn(h)[u]
    BY <1>1, <1>2, <1>3, <1>4
  <2>2. SumFunctionOnSet(TokensIn(h), Users) = SumFunctionOnSet(TokensIn(h), Holders(m))
    BY ONLY <1>1, <2>1, SumElsewhereZero
  <2>3. SumFunctionOnSet(TokensIn(h), Holders(m)) = SumFunctionOnSet(tokens, Holders(m))
    BY ONLY <1>1, <2>1, SumAgree
  <2> QED BY <2>2, <2>3 DEF Holding
<1>7. SumFunctionOnSet(fees, Holders(m)) = Earned(h)
  <2>1. /\ \A u \in Users : FeesIn(h)[u] \in Int
        /\ \A u \in Users \ Holders(m) : FeesIn(h)[u] = 0
        /\ \A u \in Holders(m) : FeesIn(h)[u] \in Int /\ fees[u] = FeesIn(h)[u]
    BY <1>1, <1>2, <1>3, <1>4
  <2>2. SumFunctionOnSet(FeesIn(h), Users) = SumFunctionOnSet(FeesIn(h), Holders(m))
    BY ONLY <1>1, <2>1, SumElsewhereZero
  <2>3. SumFunctionOnSet(FeesIn(h), Holders(m)) = SumFunctionOnSet(fees, Holders(m))
    BY ONLY <1>1, <2>1, SumAgree
  <2> QED BY <2>2, <2>3 DEF Earned
<1> QED BY <1>5, <1>6, <1>7 DEF h, fees

(* The tokens of all positions of a pool stay within its supply, for any    *)
(* number of providers and deposits: whoever wants to leave can.            *)
THEOREM TokensAlwaysMinted == RewardsSpec => []TokensMinted
<1>1. ASSUME RewardsInv PROVE TokensMinted
  <2>1. ASSUME NEW m \in Pools PROVE Tokens(m) <= pool[m].supply
    <3>1. m \in Markets /\ pool[m] # None /\ PoolInv
      BY <1>1 DEF Pools, RewardsInv
    <3>2. Tokens(m) = Holding(position[m]) /\ Holding(position[m]) <= Supply(pool[m])
      BY <3>1, HoldersOnly, MarketTyped
    <3> QED BY <3>1, <3>2 DEF Supply
  <2> QED BY <2>1 DEF TokensMinted
<1> QED BY <1>1, RewardsInvariant, PTL

(* The contract's balance covers every deposit, fee and prize still owed,   *)
(* for any mix of calls on any number of pools and seasons.                 *)
THEOREM RewardsAlwaysCovered == RewardsSpec => []RewardsCovered
<1>1. ASSUME RewardsInv PROVE RewardsCovered
  <2>1. PoolInv /\ SeasonInv /\ PoolSum + PrizeSum <= escrow /\ SumTypes
    BY <1>1, SumsTyped DEF RewardsInv, CoverInv
  <2>2. LiquidityOwed = PoolSum
    <3> DEFINE owed == [m \in Markets |->
                          (IF pool[m] = None THEN 0 ELSE pool[m].total)
                            + SumFunction([u \in Holders(m) |-> position[m][u].fees])]
    <3>1. \A m \in Markets : owed[m] = PoolDebt[m]
      BY <2>1, HoldersOnly DEF PoolDebt, DebtOf, Worth
    <3>2. LiquidityOwed = SumFunctionOnSet(owed, Markets)
      BY DEF LiquidityOwed, SumFunction
    <3> HIDE DEF owed
    <3>3. IsFiniteSet(Markets) /\ \A m \in Markets : PoolDebt[m] \in Int
      BY <2>1, PoolSumTyped
    <3> QED BY <3>1, <3>2, <3>3, SumAgree DEF PoolSum
  <2>3. SeasonsOwed = PrizeSum
    <3> DEFINE due == {j \in SeasonIds : ~seasons[j].finalized}
               owed == [i \in due |-> seasons[i].prize]
    <3>1. /\ \A i \in due : owed[i] = PrizeDebt[i]
          /\ \A i \in SeasonIds \ due : PrizeDebt[i] = 0
      BY DEF PrizeDebt
    <3>2. SeasonsOwed = SumFunctionOnSet(owed, due)
      BY DEF SeasonsOwed, SumFunction
    <3>3. due \in SUBSET SeasonIds
      OBVIOUS
    <3> HIDE DEF due, owed
    <3>4. /\ IsFiniteSet(SeasonIds) /\ IsFiniteSet(due)
          /\ \A i \in SeasonIds : PrizeDebt[i] \in Int
      BY <2>1, <3>3, PrizeSumTyped, FS_Subset
    <3>5. SumFunctionOnSet(PrizeDebt, SeasonIds) = SumFunctionOnSet(PrizeDebt, due)
      BY <3>1, <3>3, <3>4, SumElsewhereZero
    <3>6. SumFunctionOnSet(PrizeDebt, due) = SumFunctionOnSet(owed, due)
      BY <3>1, <3>3, <3>4, SumAgree
    <3> QED BY <3>2, <3>5, <3>6 DEF PrizeSum
  <2> QED BY <2>1, <2>2, <2>3 DEF RewardsCovered, SumTypes
<1> QED BY <1>1, RewardsInvariant, PTL

(* A season that is over can be paid whatever the standings: the rounded    *)
(* shares of any board add up to the prize, and the balance holds it.       *)
THEOREM DueSeasonsAlwaysPayable == RewardsSpec => []DueSeasonsPayable
<1>1. ASSUME RewardsInv PROVE DueSeasonsPayable
  <2>1. PoolInv /\ SeasonInv /\ PoolSum + PrizeSum <= escrow /\ SumTypes
    BY <1>1, SumsTyped DEF RewardsInv, CoverInv
  <2>2. ASSUME NEW i \in SeasonIds, Due(i), seasons[i].board # <<>>
        PROVE  /\ PaidOut(seasons[i].board, seasons[i].prize) = seasons[i].prize
               /\ seasons[i].prize <= escrow
    <3>1. seasons[i].board \in Seq(Standing) /\ seasons[i].prize \in Nat
      BY <2>1, SeasonFacts DEF Season
    <3>2. PaidOut(seasons[i].board, seasons[i].prize) = seasons[i].prize
      BY <2>2, <3>1, PrizePaidOut
    <3>3. PrizeDebt[i] = seasons[i].prize /\ PrizeDebt[i] <= PrizeSum
      BY <2>1, <2>2, PrizeSumTyped DEF PrizeDebt, Due
    <3>4. seasons[i].prize <= escrow
      BY <2>1, <3>1, <3>3 DEF SumTypes
    <3> QED BY <3>2, <3>4
  <2> QED BY <2>2 DEF DueSeasonsPayable
<1> QED BY <1>1, RewardsInvariant, PTL

-----------------------------------------------------------------------------
(* What a swap does to two reserves of a pool. *)
Kept(m) ==
  \A o, p \in Outcomes :
    /\ pool[m] # None
    /\ pool'[m].reserve[o] # pool[m].reserve[o]
    /\ pool'[m].reserve[p] # pool[m].reserve[p]
    /\ o # p
    => pool'[m].reserve[o] * pool'[m].reserve[p]
         >= pool[m].reserve[o] * pool[m].reserve[p]

(* Where no reserve of an existing pool moves there is nothing to keep.     *)
LEMMA ReservesLeft ==
  ASSUME \A m \in Markets : pool[m] # None => pool'[m].reserve = pool[m].reserve
  PROVE  \A m \in Markets : Kept(m)
  BY DEF Kept

LEMMA SwapKept ==
  ASSUME PoolInv, NEW m \in Markets, NEW from \in Outcomes, NEW to \in Outcomes,
         NEW amount \in Swaps, NEW minOut \in MinOuts,
         SwapOutcome(m, from, to, amount, minOut)
  PROVE  \A o \in Markets : Kept(o)
<1> DEFINE reserve == pool[m].reserve
           out == SwapOutput(amount, reserve[from], reserve[to])
           moved == pool'[m].reserve
<1>1. /\ amount \in Nat /\ from # to /\ pool[m] # None /\ reserve[from] > 0
      /\ pool' = [pool EXCEPT ![m].reserve = Swapped(reserve, from, to, amount)]
  BY LiquidityAssumption DEF LiquidityAssumption, SwapOutcome
<1>2. pool[m] \in Pool /\ reserve \in [Outcomes -> Nat]
  BY <1>1, MarketTyped
<1>3. reserve[from] \in Nat \ {0} /\ reserve[to] \in Nat
  BY <1>1, <1>2
<1>4. pool \in [Markets -> Pool \cup {None}]
  BY DEF PoolInv, LiquidityTypeOK
<1>5. /\ moved = Swapped(reserve, from, to, amount)
      /\ \A o \in Markets \ {m} : pool'[o] = pool[o]
  BY <1>1, <1>2, <1>4 DEF Pool
<1> HIDE DEF moved, reserve
<1>6. /\ out \in 0..reserve[to]
      /\ (reserve[from] + amount) * (reserve[to] - out) >= reserve[from] * reserve[to]
  BY <1>1, <1>3, SwapKeepsProduct
<1>7. moved = [reserve EXCEPT ![from] = @ + amount, ![to] = @ - out]
  BY <1>5 DEF Swapped
<1> HIDE DEF out
<1>8. /\ moved[from] = reserve[from] + amount /\ moved[to] = reserve[to] - out
      /\ \A o \in Outcomes \ {from, to} : moved[o] = reserve[o]
  BY <1>1, <1>2, <1>7
<1>9. /\ moved[from] * moved[to] >= reserve[from] * reserve[to]
      /\ moved[to] * moved[from] >= reserve[to] * reserve[from]
  BY <1>1, <1>3, <1>6, <1>8
<1>10. ASSUME NEW o \in Outcomes, NEW p \in Outcomes,
              moved[o] # reserve[o], moved[p] # reserve[p], o # p
       PROVE  moved[o] * moved[p] >= reserve[o] * reserve[p]
  <2>1. (o = from /\ p = to) \/ (o = to /\ p = from)
    BY <1>8, <1>10
  <2> QED BY <1>9, <2>1
<1>11. Kept(m)
  BY <1>10 DEF Kept, moved, reserve
<1>12. \A o \in Markets \ {m} : Kept(o)
  BY <1>5 DEF Kept
<1> QED BY <1>11, <1>12

LEMMA StepKept ==
  ASSUME PoolInv, RewardsNext
  PROVE  \A m \in Markets : Kept(m)
<1>1. ASSUME UNCHANGED pool PROVE \A m \in Markets : Kept(m)
  BY <1>1, ReservesLeft
<1>2. pool \in [Markets -> Pool \cup {None}]
  BY DEF PoolInv, LiquidityTypeOK
<1>3. CASE LiquidityStep
  <2>1. ASSUME NEW m \in Markets, OpenOrClose(m) PROVE \A o \in Markets : Kept(o)
    BY <1>1, <2>1 DEF OpenOrClose
  <2>2. ASSUME NEW m \in Markets, NEW u \in Users, CollectLpFees(u, m)
        PROVE  \A o \in Markets : Kept(o)
    BY <1>1, <2>2 DEF CollectLpFees
  <2>3. ASSUME NEW m \in Markets, NEW u \in Users, NEW amount \in Deposits,
               AddLiquidity(u, m, amount)
        PROVE  \A o \in Markets : Kept(o)
    <3>1. \A o \in Markets \ {m} : pool'[o] = pool[o]
      BY <1>2, <2>3 DEF AddLiquidity
    <3>2. ASSUME pool[m] # None PROVE pool'[m].reserve = pool[m].reserve
      <4>1. pool'[m] = WithDeposit(pool[m], amount) /\ pool[m] \in Pool
        BY <1>2, <2>3, <3>2 DEF AddLiquidity
      <4> QED BY <4>1 DEF WithDeposit, Pool
    <3> QED BY <3>1, <3>2, ReservesLeft
  <2>4. ASSUME NEW m \in Markets, NEW u \in Users, NEW tokens \in Burns,
               RemoveLiquidity(u, m, tokens)
        PROVE  \A o \in Markets : Kept(o)
    <3> DEFINE value == LiquidityValue(tokens, pool[m])
    <3>1. pool[m] # None
          /\ pool' = [pool EXCEPT ![m].supply = @ - tokens, ![m].total = @ - value]
      BY <2>4 DEF RemoveLiquidity
    <3> HIDE DEF value
    <3>2. pool[m] \in Pool
      BY <1>2, <3>1
    <3>3. \A o \in Markets : pool'[o].reserve = pool[o].reserve
      BY <1>2, <3>1, <3>2 DEF Pool
    <3> QED BY <3>3, ReservesLeft
  <2> QED BY <1>3, <2>1, <2>2, <2>3, <2>4, SwapKept DEF LiquidityStep
<1>4. CASE ~LiquidityStep
  BY <1>1, <1>4 DEF RewardsNext, poolVars
<1> QED BY <1>3, <1>4

(* No swap of any amount between any two outcomes lowers the product of     *)
(* their reserves, and nothing else moves a reserve.                        *)
THEOREM ProductNeverFallsAlways == RewardsSpec => ProductNeverFalls
<1> DEFINE body == \A m \in Markets, o, p \in Outcomes :
                     /\ pool[m] # None
                     /\ pool'[m].reserve[o] # pool[m].reserve[o]
                     /\ pool'[m].reserve[p] # pool[m].reserve[p]
                     /\ o # p
                     => pool'[m].reserve[o] * pool'[m].reserve[p]
                          >= pool[m].reserve[o] * pool[m].reserve[p]
<1>1. ASSUME \A m \in Markets : Kept(m) PROVE body
  BY <1>1 DEF Kept
<1>2. RewardsInv /\ [RewardsNext]_rewardsVars => [body]_pool
  <2> HIDE DEF body
  <2> QED BY <1>1, StepKept DEF RewardsInv, rewardsVars, poolVars
<1> QED BY <1>2, RewardsInvariant, PTL DEF RewardsSpec, ProductNeverFalls
=============================================================================
