------------------------------ MODULE Seasons ------------------------------
(***************************************************************************)
(* Seasons of the market-maker: the admin funds a prize, posts the         *)
(* standings and, after the end, has the prize shared out.  Which season   *)
(* is running is kept twice, as a flag that reads refresh and as the entry *)
(* reset_season_points writes.                                             *)
(***************************************************************************)
EXTENDS Vault, SequencesExt

CONSTANTS
  Terms,       \* bound: start and end given to create_season
  Prizes,      \* bound: reward pools
  Boards,      \* bound: standings posted
  Predictors,  \* bound: users who register and win points
  MaxSeasons,  \* bound: seasons ever created
  MaxPoints    \* u32::MAX, smaller in a run

Standing == [user : Users, points : 0..MaxPoints]

ASSUME SeasonAssumption ==
  /\ Terms \subseteq [start : Nat, end : Nat]
  /\ Prizes \subseteq Nat
  /\ Boards \subseteq Seq(Standing)
  /\ Predictors \subseteq Users
  /\ {MaxSeasons, MaxPoints} \subseteq Nat

VARIABLES
  seasons,       \* DataKey::Season(id) and Leaderboard(id), up to SeasonCount
  activeSeason,  \* DataKey::ActiveSeason, or 0
  scorers        \* registered users with season points

seasonVars == <<seasons, activeSeason, scorers>>
seasonsVars == <<platformVars, escrow, seasonVars>>

Season ==
  [start : Nat, end : Nat, prize : Nat, participants : Nat, active : BOOLEAN,
   finalized : BOOLEAN, board : Seq(Standing)]

SeasonIds == DOMAIN seasons

SeasonsTypeOK ==
  /\ PlatformTypeOK
  /\ escrow \in Nat
  /\ seasons \in Seq(Season)
  /\ activeSeason \in Nat
  /\ scorers \subseteq userList

SeasonsInit ==
  /\ PlatformInit
  /\ escrow = 0
  /\ seasons = <<>>
  /\ activeSeason = 0
  /\ scorers = {}

Running(s) == ~s.finalized /\ s.start <= now /\ now < s.end

(* Fault: only the ends of the new season are looked at. *)
Overlaps_EndsOnly(s, term) ==
  (s.start <= term.start /\ term.start < s.end) \/ (s.start < term.end /\ term.end <= s.end)

Overlaps(s, term) == s.start < term.end /\ term.start < s.end

CreateSeason(term, prize) ==
  /\ Len(seasons) < MaxSeasons
  /\ term.start < term.end
  /\ \A i \in SeasonIds : ~seasons[i].finalized => ~Overlaps(seasons[i], term)
  /\ Lock(prize)
  /\ seasons' = Append(seasons,
       [start |-> term.start, end |-> term.end, prize |-> prize, participants |-> 0,
        active |-> term.start <= now /\ now < term.end, finalized |-> FALSE,
        board |-> <<>>])
  /\ UNCHANGED <<platformVars, activeSeason, scorers>>

(* get_active_season stores the flags it finds out of date, and stops at    *)
(* the first season that runs.                                              *)
Refreshed ==
  LET running == {i \in SeasonIds : Running(seasons[i])}
  IN  [i \in SeasonIds |->
         IF \A j \in running : i <= j
         THEN [seasons[i] EXCEPT !.active = Running(seasons[i])]
         ELSE seasons[i]]

GetActiveSeason ==
  /\ seasons' = Refreshed
  /\ UNCHANGED <<platformVars, escrow, activeSeason, scorers>>

(* track_user_profile: a user seen for the first time is a participant of   *)
(* the running season if the call was a prediction.                         *)
TrackUserProfile(u, predicted) ==
  /\ u \notin userList
  /\ TrackUsers({u})
  /\ LET running == {i \in SeasonIds : Running(seasons[i])}
     IN  seasons' = IF ~predicted THEN seasons
                    ELSE [i \in SeasonIds |->
                            IF i \in running /\ \A j \in running : i <= j
                            THEN [Refreshed[i] EXCEPT !.participants = @ + 1]
                            ELSE Refreshed[i]]
  /\ UNCHANGED <<now, cfg, escrow, activeSeason, scorers>>

(* A winner's claim adds to season_points. *)
EarnPoints(u) ==
  /\ u \in userList
  /\ scorers' = scorers \cup {u}
  /\ UNCHANGED <<platformVars, escrow, seasons, activeSeason>>

UpdateLeaderboard(i, board) ==
  /\ NotPaused
  /\ ~seasons[i].finalized
  /\ Len(board) <= 100
  /\ seasons' = [seasons EXCEPT ![i].board = board]
  /\ UNCHANGED <<platformVars, escrow, activeSeason, scorers>>

-----------------------------------------------------------------------------
(* compute_reward_payouts: the podium has fixed shares; the rest goes, by   *)
(* points, to ranks 4 to 10, or to the podium when nobody ranks lower.      *)

PodiumShare == <<4000, 2000, 1000>>

Fixed(board, prize, rank) ==
  IF rank \in DOMAIN board \cap DOMAIN PodiumShare
  THEN Floor(prize * PodiumShare[rank], BPS) ELSE 0

(* Fault: the last one is paid by points like the others. *)
Proportional_NoRemainder(board, ranks, rest, rank) ==
  LET points == SumFunction([r \in ranks |-> board[r].points])
  IN  IF rank \notin ranks THEN 0
      ELSE IF points = 0 THEN IF rank = Min(ranks) THEN rest ELSE 0
      ELSE Floor(rest * board[rank].points, points)

(* distribute_proportional_pool: rounded down, the last one takes what is   *)
(* left; without any points the first takes all.                            *)
Proportional(board, ranks, rest, rank) ==
  LET points == SumFunction([r \in ranks |-> board[r].points])
      share(r) == Floor(rest * board[r].points, points)
  IN  IF rank \notin ranks THEN 0
      ELSE IF points = 0 THEN IF rank = Min(ranks) THEN rest ELSE 0
      ELSE IF rank = Max(ranks)
           THEN rest - SumFunction([r \in ranks \ {rank} |-> share(r)])
           ELSE share(rank)

Paid(board) == DOMAIN board \cap (1..10)

Rest(board, prize) ==
  prize - SumFunction([r \in Paid(board) |-> Fixed(board, prize, r)])

(* The ranks that share the rest by points. *)
Sharing(board) ==
  LET lower == Paid(board) \ DOMAIN PodiumShare
  IN  IF lower = {} THEN Paid(board) ELSE lower

(* The points of those ranks are added up as a u32, with a check. *)
PointsFit(board, prize) ==
  \/ Rest(board, prize) = 0
  \/ SumFunction([r \in Sharing(board) |-> board[r].points]) <= MaxPoints

(* The amount of one rank; merging those of a user changes no sum.          *)
Payout(board, prize, rank) ==
  Fixed(board, prize, rank)
    + Proportional(board, Sharing(board), Rest(board, prize), rank)

PaidOut(board, prize) ==
  SumFunction([r \in Paid(board) |-> Payout(board, prize, r)])

Due(i) == ~seasons[i].finalized /\ now >= seasons[i].end

(* Fault: a season is paid again when its end has passed. *)
Finalizable_Again(i) == now >= seasons[i].end /\ seasons[i].board # <<>>

Finalizable(i) == Due(i) /\ seasons[i].board # <<>>

FinalizeSeason(i) ==
  /\ Finalizable(i)
  /\ LET s == seasons[i]
     IN  /\ PointsFit(s.board, s.prize)
         /\ PaidOut(s.board, s.prize) = s.prize
         /\ Pay(s.prize)
  /\ seasons' = [seasons EXCEPT ![i].finalized = TRUE, ![i].active = FALSE]
  /\ UNCHANGED <<platformVars, activeSeason, scorers>>

ResetSeasonPoints(i) ==
  /\ ~seasons[i].finalized
  /\ seasons' = [j \in SeasonIds |-> [seasons[j] EXCEPT !.active = j = i]]
  /\ activeSeason' = i
  /\ scorers' = {}
  /\ UNCHANGED <<platformVars, escrow>>

SeasonStep ==
  \/ \E term \in Terms, prize \in Prizes : CreateSeason(term, prize)
  \/ GetActiveSeason
  \/ \E u \in Predictors :
       EarnPoints(u) \/ \E predicted \in BOOLEAN : TrackUserProfile(u, predicted)
  \/ \E i \in SeasonIds :
       \/ FinalizeSeason(i)
       \/ ResetSeasonPoints(i)
       \/ \E board \in Boards : UpdateLeaderboard(i, board)

SeasonsNext ==
  \/ SeasonStep
  \/ (Tick \/ ConfigNext) /\ UNCHANGED <<escrow, seasonVars>>

SeasonsSpec == SeasonsInit /\ [][SeasonsNext]_seasonsVars

-----------------------------------------------------------------------------
(* However seasons are created, finalized and reset, two that are still to  *)
(* be paid never overlap: at most one season runs at a time, whatever the   *)
(* flags say, so a user counts for one season only.                         *)
SeasonsDisjoint ==
  \A i, j \in SeasonIds :
    i # j /\ ~seasons[i].finalized /\ ~seasons[j].finalized =>
      seasons[i].end <= seasons[j].start \/ seasons[j].end <= seasons[i].start

(* A season that is over and has standings whose points do not overflow can *)
(* be paid: the shares, rounded and merged, add up to the prize exactly,    *)
(* and the balance, which pools and other seasons draw on, covers it.       *)
DueSeasonsPayable ==
  \A i \in SeasonIds :
    Due(i) /\ seasons[i].board # <<>> /\ PointsFit(seasons[i].board, seasons[i].prize) =>
      /\ PaidOut(seasons[i].board, seasons[i].prize) = seasons[i].prize
      /\ seasons[i].prize <= escrow

(* What unfinished seasons are owed. *)
SeasonsOwed ==
  SumFunction([i \in {j \in SeasonIds : ~seasons[j].finalized} |-> seasons[i].prize])
=============================================================================
