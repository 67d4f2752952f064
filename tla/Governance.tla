----------------------------- MODULE Governance -----------------------------
(***************************************************************************)
(* Proposals that change the Config entry of the market-maker by vote.     *)
(* Registered users, whom market and prediction calls add to UserList,     *)
(* only count for the quorum: anyone may propose, vote and execute.        *)
(***************************************************************************)
EXTENDS Platform, Sequences

CONSTANTS
  Voters,         \* bound: accounts that vote
  Proposers,      \* bound: accounts that propose
  Changes,        \* bound: changes proposed
  Durations,      \* bound: voting_duration given to create_proposal
  QuorumPart,     \* one vote per so many users is a quorum: 10, fewer in a run
  MaxProposals    \* bound: proposals ever created

VARIABLES
  proposals,   \* DataKey::Proposal(id), for the ids up to ProposalCount
  voted,       \* DataKey::ProposalVote(id, voter)
  enacted      \* history: the executions, with the users registered then

govVars == <<platformVars, proposals, voted, enacted>>

(* ProposalType; AddSupportedCategory changes nothing the contract's other  *)
(* guards in these modules read.                                            *)
Change ==
  [kind : {"fee"}, bps : Nat] \cup [kind : {"oracle"}, oracle : Accounts]
    \cup [kind : {"minStake"}, amount : Int] \cup [kind : {"category"}]

ASSUME GovernanceAssumption ==
  /\ IsFiniteSet(Voters)
  /\ Changes \subseteq Change
  /\ Durations \subseteq Nat
  /\ MaxProposals \in Nat
  /\ QuorumPart \in Nat \ {0}

Proposal ==
  [proposer : Proposers, change : Changes, votesFor : Nat, votesAgainst : Nat,
   votingEnd : Nat, executed : BOOLEAN, cancelled : BOOLEAN]

Ids == 1..MaxProposals

GovTypeOK ==
  /\ PlatformTypeOK
  /\ proposals \in Seq(Proposal)
  /\ Len(proposals) <= MaxProposals
  /\ voted \in [Ids -> SUBSET Voters]
  /\ enacted \in Seq([id : Ids, users : Nat])

GovInit ==
  /\ PlatformInit
  /\ proposals = <<>>
  /\ voted = [i \in Ids |-> {}]
  /\ enacted = <<>>

-----------------------------------------------------------------------------

CreateProposal(u, change, duration) ==
  /\ NotPaused
  /\ duration > 0
  /\ Len(proposals) < MaxProposals
  /\ proposals' = Append(proposals,
       [proposer |-> u, change |-> change, votesFor |-> 0, votesAgainst |-> 0,
        votingEnd |-> now + duration, executed |-> FALSE, cancelled |-> FALSE])
  /\ UNCHANGED <<platformVars, voted, enacted>>

(* Fault: an executed proposal goes on taking votes. *)
VotingOpen_Executed(i) == now <= proposals[i].votingEnd

(* A cancelled proposal goes on taking votes, as the code has it. *)
VotingOpen(i) == ~proposals[i].executed /\ now <= proposals[i].votingEnd

(* Fault: who voted before is not looked at. *)
MayVote_Again(u, i) == TRUE

MayVote(u, i) == u \notin voted[i]

Vote(u, i, inFavour) ==
  /\ NotPaused
  /\ VotingOpen(i)
  /\ MayVote(u, i)
  /\ proposals' = [proposals EXCEPT
       ![i].votesFor     = @ + IF inFavour THEN 1 ELSE 0,
       ![i].votesAgainst = @ + IF inFavour THEN 0 ELSE 1]
  /\ voted' = [voted EXCEPT ![i] = @ \cup {u}]
  /\ UNCHANGED <<platformVars, enacted>>

(* proposal_quorum: a tenth of the users, rounded up, and at least one. *)
Quorum(users) ==
  IF users = 0 THEN 1 ELSE (users + QuorumPart - 1) \div QuorumPart

Passed(i) ==
  /\ proposals[i].votesFor + proposals[i].votesAgainst
       >= Quorum(Cardinality(userList))
  /\ proposals[i].votesFor > proposals[i].votesAgainst

(* Fault: the proposed fee and stake floor are taken as they are. *)
Lawful_Anything(change) == TRUE

Lawful(change) ==
  /\ change.kind = "fee" => change.bps <= BPS
  /\ change.kind = "minStake" => change.amount > 0

Applied(change) ==
  CASE change.kind = "fee"      -> [cfg EXCEPT !.feeBps = change.bps]
    [] change.kind = "oracle"   -> [cfg EXCEPT !.oracle = change.oracle]
    [] change.kind = "minStake" -> [cfg EXCEPT !.minStake = change.amount]
    [] OTHER                    -> cfg

(* Fault: a proposal may be executed over and over. *)
Executable_Again(i) == now >= proposals[i].votingEnd

(* Voting is still open in the ledger in which execution becomes possible,  *)
(* and a cancelled proposal is executed like any other.                     *)
Executable(i) == ~proposals[i].executed /\ now >= proposals[i].votingEnd

Execute(i) ==
  /\ NotPaused
  /\ Executable(i)
  /\ Passed(i)
  /\ Lawful(proposals[i].change)
  /\ cfg' = Applied(proposals[i].change)
  /\ proposals' = [proposals EXCEPT ![i].executed = TRUE]
  /\ enacted' = Append(enacted, [id |-> i, users |-> Cardinality(userList)])
  /\ UNCHANGED <<now, userList, voted>>

(* The one call that a pause does not stop. *)
CancelProposal(u, i) ==
  /\ ~proposals[i].executed
  /\ ~proposals[i].cancelled
  /\ u \in {proposals[i].proposer, cfg.admin}
  /\ proposals' = [proposals EXCEPT ![i].cancelled = TRUE]
  /\ UNCHANGED <<platformVars, voted, enacted>>

(* A market, a prediction or a payout registers a user. *)
Register(u) ==
  /\ NotPaused
  /\ TrackUsers({u})
  /\ UNCHANGED <<now, cfg, proposals, voted, enacted>>

GovNext ==
  \/ (Tick \/ ConfigNext) /\ UNCHANGED <<proposals, voted, enacted>>
  \/ \E u \in Proposers, change \in Changes, duration \in Durations :
       CreateProposal(u, change, duration)
  \/ \E u \in Voters, i \in DOMAIN proposals, inFavour \in BOOLEAN :
       Vote(u, i, inFavour)
  \/ \E i \in DOMAIN proposals : Execute(i)
  \/ \E u \in Accounts \cup Proposers, i \in DOMAIN proposals : CancelProposal(u, i)
  \/ \E u \in Users : Register(u)

GovSpec == GovInit /\ [][GovNext]_govVars

-----------------------------------------------------------------------------
(* The votes cast on a proposal. *)
Votes(i) == proposals[i].votesFor + proposals[i].votesAgainst

(* The tallies of a proposal count exactly the accounts that voted on it.   *)
VotesCounted ==
  \A i \in DOMAIN proposals : Votes(i) = Cardinality(voted[i])

(* The k-th execution was that of a proposal with a majority and a quorum. *)
Backed(k) ==
  LET i == enacted[k].id
  IN  /\ i \in DOMAIN proposals
      /\ proposals[i].executed
      /\ proposals[i].votesFor > proposals[i].votesAgainst
      /\ QuorumPart * Votes(i) >= enacted[k].users

(* Whatever took effect did so with the majority and the quorum it still    *)
(* has on record: although voting and execution overlap in the ledger the   *)
(* voting ends in, no vote comes in behind an execution.                    *)
EnactedByMajority == \A k \in DOMAIN enacted : Backed(k)

(* No proposal takes effect twice: what the admin or a later proposal set   *)
(* meanwhile is not undone by executing an old one again.                   *)
EnactedOnce ==
  \A k, l \in DOMAIN enacted : enacted[k].id = enacted[l].id => k = l
=============================================================================
