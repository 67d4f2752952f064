# A verification project for Paya

Paya is a prediction-market platform: two Soroban smart contracts written in Rust (`contracts/market-maker`,
`contracts/users`), a NestJS backend that mirrors the contracts into a database and drives them, and a Next.js
frontend. This directory holds TLA+ models of the contracts and of the parts of the backend that run beside one
another, the TLC configurations that check them on small instances, and TLAPS proofs of the results that matter
most for every instance. The source is the reference: each definition translates code, and `PROJECT.json` ("map")
names the lines.

## The system

### Components, their state and operations

| component | state | operations | what makes it correct |
|---|---|---|---|
| market-maker, configuration (`config.rs`) | `Config`: admin, oracle, protocol fee, stake floor, pause | `initialize`, `update_protocol_fee`, `set_paused`, `transfer_admin`, `update_oracle` | a pause protects wallets |
| market-maker, markets (`market.rs`) | `Market`, `ConditionalMarket`, parent and children lists | create, create conditional, close, edit fee and deadline, cancel, resolve; the cascade to children | a result stands unless disputed; activation follows the result; a cancelled tree takes no stakes |
| market-maker, predictions (`prediction.rs`) | `Prediction` in persistent, then temporary storage; `PredictorList`; profiles | submit, claim, batch payout; expiry of a claimed record | one record per prediction, nobody paid twice, payouts within the pool |
| market-maker, escrow (`escrow.rs`) | one token balance, `Treasury` | lock, refund, release, withdraw treasury, solvency audit | the balance covers stakes, payouts, bonds and the treasury |
| market-maker, disputes (`dispute.rs`) | `Dispute`, list, counter | raise, resolve (uphold or reject) | the three agree; a dispute is about the resolution in force |
| market-maker, reputation (`reputation.rs`) | `CreatorStats` | updated by the calls above, reset by the admin | counters only |
| market-maker, invites (`invite.rs`) | `InviteCode`, `MarketAllowlist` | generate, redeem, revoke | only the invited stake; no more admissions than granted |
| market-maker, governance (`governance.rs`) | `Proposal`, `ProposalVote` | create, vote, execute, cancel | a majority and a quorum, once |
| market-maker, seasons (`season.rs`) | `Season`, snapshots, `ActiveSeason` | create, update leaderboard, finalize, reset | rewards add up, one season active |
| market-maker, liquidity (`liquidity.rs`) | pools, positions, swap history | add, remove, swap, collect fees | positions are backed by the escrow |
| users contract, admin and fees (`admin.rs`, `fee.rs`, `token.rs`) | settings, pause | setters, pause, withdraw fees | a pause stops everything that moves tokens |
| users contract, events (`event.rs`, `match.rs`, `oracle.rs`, `prediction.rs`) | `Event`, `Match`, `Prediction` and indexes | create, cancel, join, schedule, predict, submit result | every prediction graded once by the result; pools accounted |
| users contract, payout (`leaderboard.rs`, `finalize.rs`) | `EventPayouts` | finalize | the best are paid, the pool is exhausted, the table stays |
| users contract, verification and views | whitelist | admin calls, reads | nothing depends on it |
| backend indexer (`indexer.service.ts`) | checkpoint, `contract_events`, the rows of creator events, matches, predictions, payouts | poll, retry of failed events, re-indexing | the mirror is never ahead of the chain, nothing is counted twice |
| backend reconciler (`reconciliation.service.ts`) | the second checkpoint, back-filled rows | a cron | the same |
| backend finalizer (`creator-event-finalizer.service.ts`) | `is_finalized` of events | a cron | only what the chain finalized is marked |
| backend listener (`soroban.listener.ts`) | a cursor in `system_state`, rows of markets and predictions | a cron that reads a page of events | a stake made on the chain that it can read and place comes to be on file |
| backend idempotency (`common/idempotency`) | keys | acquire, replay, complete, release, clean-up | a request is handled once per key, replays tell the truth |
| backend predictions and markets (`predictions.service.ts`, `markets.service.ts`, `admin.service.ts`) | database rows | check, chain call, transaction; read a row, chain call, save the row | the mirror follows the chain |
| backend webhooks (`webhooks/services`) | endpoints, delivery logs | emit, ticks with retries and back-off, edit, delete | delivered or given up for a reason, and in the end |
| backend, the rest (disputes, oracle, competitions, seasons, achievements ...) | database rows | HTTP handlers | not modelled |
| frontend | none of its own | presentation | not in scope |

The components of a contract share storage, and all money of a contract is one balance of one token. An entry
point runs alone and atomically: if it returns an error, nothing it did remains. What is hard is therefore the
order of calls by many parties, guards that look at some flags and not at others, state kept twice, money kept
once for many purposes, time boundaries, and rounding. The backend adds real concurrency: requests and crons that
overlap, a poller and a reconciler on the same row, saves of rows read some statements earlier, failures between two
writes, and restarts between a chain call and the database.
`PROJECT.json` lists the hazards, each at its line, with the properties that watch it.

### How a contract becomes a specification

* One action is one successful invocation. Its guards are the checks on every path of the code, including those
  of the functions it calls; its updates are all of theirs. A failing call is a stutter.
* `require_auth` and role checks are quantification over who may call: an action of the admin or of the oracle
  carries no caller, since only that account can take it, and no property depends on which account it is.
* Time is `now`, which `Tick` advances; any number of calls happen between two ticks.
* Amounts are natural numbers, with the integer divisions of the code. The contracts use checked 128-bit
  arithmetic: an overflow is a failing call, hence a stutter.
* Names, titles, categories, event emission and the extension of storage lifetimes are left out. The one expiry a
  handler causes on purpose, that of a claimed prediction moved to temporary storage, is `ExpireClaimed`.

### How the backend becomes a specification

* One action is one database statement or transaction, one RPC call or one HTTP exchange, with the reads just before
  it. Whatever the code keeps in a local variable across an `await` is a variable of the model: a program counter and
  the copies in hand.
* A TypeORM `save` of an entity writes the row as it was read, changed; the columns others changed in the meantime
  are written back. `update` and `increment` touch their columns only. Unique constraints and foreign keys with
  `ON DELETE CASCADE` come from the entities and migrations.
* A cron that may start while its last run is going on has several processes; one behind a flag has one. `Crash`
  forgets everything in memory and keeps the tables and the chain.
* An RPC call or a statement that may throw has a disjunct for it, which goes where the `catch` goes.

## Modules

Contracts:

* **`Platform`** - the clock, `Config`, the list of registered users and the administrator's setters. `NotPaused`
  is `ensure_not_paused`.
* **`MarketMaker`** - markets, conditional markets, stakes, payouts, disputes, treasury, statistics. Variables are
  the storage keys of `storage_types.rs`, plus `bank`, the balances of the token, and two history variables:
  `settlements` counts transfers to a user for one prediction, `paidOut` adds up what was charged to a pool.
  `CancelMarket` and `ResolveMarket` include the whole cascade; `BestEffort` is the loop of
  `deactivate_conditional_market`, whose errors its callers discard, so that it may stop half way: of the refunds of a
  market, in the order of its list, exactly those before the first that the balance cannot bear are done.
  `PayOut` is what a claim and a batch share; the two differ in how they find the winning stakes, and the model
  keeps that difference.
* **`Purses`** - the abstract promise: each market is a purse of its own, settled once per backer, emptied to
  everyone when cancelled, reopened only while nobody has been settled.
* **`DisciplinedMarket`** - `MarketMaker` under an operator who keeps five rules the code does not enforce: not to
  resolve a cancelled market (`DecideOnce`), fees that fit (`FeesFit`), a batch only when one batch pays everybody
  (`BatchIsComplete`), claims before the records of earlier claims expire (`EveryoneClaimed`), a dispute upheld
  only while nobody was paid (`MayReopen`). Under these rules the contract implements `Purses`
  (`MarketsAreSeparatePurses`, a refinement checked as a property). Each rule is necessary; dropping the first is
  the run `insolvent`.
* **`Invites`** - codes and allowlists, composed with the whole of `MarketMaker`. A code is a hash of market, creator
  and ledger; the model keeps that as the pair of market and time. A 32-bit collision across ledgers is left out.
* **`Governance`** - proposals and votes, composed with `Platform`. Registration of users, which market calls cause,
  is an action of its own here because it moves the quorum. The quorum is one `QuorumPart`th of the users; the code has a
  tenth.
* **`Vault`, `Liquidity`, `Seasons`, `Rewards`** - liquidity pools (deposits, LP tokens, constant-product swaps, fees)
  and seasons (prize, standings, shares, the flag and the entry that say which season is active) over the one balance
  `escrow`, each usable alone and composed in `Rewards`. Markets are only open or not here. The points of those who share
  the rest of a prize are added up in 32 bits: `PointsFit` guards `FinalizeSeason`, with `MaxPoints` for `u32::MAX`.
* **`CreatorEvents`** - the users contract: events, participants, matches, predictions, results, ranking, payout,
  settings, pause.

Backend:

* **`Indexer`** - the mirror of one creator event. `chain` is what the contract emitted, one event per ledger.
  `poll` fetches a page, stores each event, handles it (`Read`, `FirstWrite`, `SecondWrite`, `Succeed` or `Throw`) and
  moves one checkpoint and then the other (`SaveCheckpoint`, `AdvanceCheckpoint`), either of which may fail. The workers
  in `Retriers` are calls of `retryFailedEvents`, of which any number run at once and handle rows outside the poll; the
  reconciler back-fills rows and saves the other checkpoint. The finalizer has no flag that keeps its runs apart: each
  of `Ticks` looks for events, checks the matches, calls the chain and saves the row it read. The chain may accept a call
  whose confirmation never comes (`accepted`, `heard`). `FromLedger` is what adding one to a string of digits does: the
  driver returns `bigint` columns as strings.
* **`Submissions`** - one market and the predictions on it from four sides: POST requests behind idempotency keys
  (`Acquire`, the chain call, the transaction, the write of the key that nobody waits for); the listener, which meets the
  creation, predictions made from wallets and the resolution; operators whose requests save the whole market row; and the
  requests that make a row for a user (`SignUp`) or for the market (`SaveMarket`), which may come before or after the
  listener meets the event. What the listener cannot read or place it passes over: an event without a ledger or a value
  (`lacks` is "value"), without the id of its market or without its predictor, or one whose market or user has no
  row. A page of events may leave some behind. In all these cases the cursor moves past them.
* **`Webhooks`** - endpoints, delivery rows and overlapping ticks. `posts` is what the receivers saw. A tick none of
  whose rows is ready does nothing, and is a stutter.

`MC...` modules hold the parameters of the instances below. The theorems are in `MarketMaker_proofs` (`MarketMaker` and
`Invites`), `DisciplinedMarket_proofs` (with the refinement of `Purses`), `Platform_proofs` (`Governance` and `Rewards`,
with the parts of `Rewards`), `CreatorEvents_proofs`, `Webhooks_proofs`, `Submissions_proofs` and `Indexer_proofs`. `Sums`
holds the lemmas about sums over finite sets that the first four share.

Definitions named `X_Something` under a comment "Fault" are not part of the specification. Each is a plausible
mistake in the definition that follows it; replacing `X` by it makes the property named in `PROJECT.json` ("mutants")
fail, which shows that the property depends on that piece of code.

## Runs

`tlc -config <run>.cfg <module>`; the module is in `PROJECT.json`. Deadlock is not checked: the clock and the incidents
are bounded, a contract may simply not be called any more, and a backend at rest has nothing to do.

| run | instance | states | what it shows |
|---|---|---|---|
| `lifecycle` | one market, two users, times 0-3, two stakes, two disputes | 215,302 | whatever operators do, dispute index, records, totals and statistics agree and a result is only withdrawn by a dispute |
| `escrow` | one market, three users, protocol fee of 50 % or 100 %, batches of two | 882,406 | under the five rules the balance covers stakes, payouts, bonds and treasury; nobody is settled twice; payouts stay within the pool |
| `purses` | a parent and a child, two users | 493,653 | the refinement of `Purses`; a cancelled market has refunded everyone; children follow the result that stands |
| `private` | a private market, two users, the admin's calls | 227,288 | only the invited stake, never more than granted; dead codes stay dead |
| `governance` | two proposals, two voters, six changes, a user who registers and moves the quorum | 2,701,312 | what is enacted had a majority and a quorum, once |
| `events` | two events, two matches that count once or three times, two users, four offers | 6,587,864 | pools are covered, predictions of events not cancelled graded, the top of the table is paid and stays on top |
| `rewards` | one market, two providers, two seasons, three tables, four pool calls, times 0-2 | 2,662,614 | an LP token keeps its worth, swaps never lower the product, seasons do not overlap and can be paid if their points add up, the balance covers both |
| `indexer` | one match, one user, two retries, two runs of the finalizer, four starts, each with a few events and incidents to come | 2,841,095 | the mirror says nothing the chain did not, and counts no match twice, whatever fails, restarts or overlaps |
| `submissions` | two requests under one key, two users, pages of two, four starts with up to two incidents among an operator's resolution, a restart and a new account | 764,710 | no request of a key calls the chain again once one has stored its prediction; replays are true; keys drain; a stake made from a wallet that the listener can read and place reaches the database |
| `webhooks` | one endpoint, two overlapping ticks, two rows, two attempts, batches of one, a restart | 782,598 | a row is settled for a reason; deleted endpoints stay deleted; every delivery ends |
| `insolvent` | as `lifecycle` | violation | a cancelled, refunded market can be resolved and then owes more than there is (README.md:148) |
| `runaway` | the poll and nothing that fails | violation | the ledger recorded as indexed runs away from the chain (chain-sync-checkpoint.entity.ts:18) |

The type invariants of `lifecycle` and `governance` are in their cfgs. Those of the other modules (`InvitesTypeOK`,
`EventsTypeOK`, `RewardsTypeOK`, `IndexerTypeOK`, `SubmissionsTypeOK`, `WebhooksTypeOK`) hold on the same instances when
added as an INVARIANT, and the cfgs leave them out for time; all of them but `IndexerTypeOK` are also proved, by
themselves or as a part of an inductive invariant.

**Why the bounds are enough.** A hazard of the contracts involves one market and its parent or child, one balance, two
parties with different interests, and a second resolution. Two users and two outcomes give a winner and a loser, and a
dispute by either; the third user of `escrow` makes two winners with different stakes, without which shares do not
round and a batch cannot be incomplete. Two markets are needed for money to move between markets. Four instants
separate before the end, the resolution, the last second of the dispute window and after it. Two disputes against a
creator allow the second resolution. Stakes of 2 and 3 do not divide one another, and a fee of 100 % on top of the
creator's exceeds the gross. In `events` two matches are needed for one to lack its result, two events for one pool to
be paid from another, and multipliers of one and three so that equal points can come from different numbers of exact
scores, as the code counts them: the tie-breaker decides. Two of the four offers are refused by the validation;
accepted, they would be a violation. In `rewards` a deposit of 1001 is the least that leaves a provider something
above the locked minimum, the amounts do not divide one another, a prize of 101 has shares that round, one of the
boards goes on below the podium, and one has points that add up to more than `MaxPoints`, here 8. In `governance`
every user counts for the quorum (`QuorumPart` is 1), so that one registration between the votes and the execution
decides; the theorems hold for any `QuorumPart`.

A hazard of the backend involves two processes and one row, and one thing that goes wrong at the worst time. Two ticks
make every stale save; a batch of one leaves a row waiting; two attempts are a retry and the last. Two requests under
one key are one that waits and one that works, and three kinds of call make the same, another body and another user. A
restart between any two steps is included, a second one finds the same rows. The four starts of `submissions` are a
market and a user the backend knows, a prediction that came before its user's account, one on a market whose creation
cannot be read, and an empty chain on which the creation, a prediction and the resolution come while the listener
runs, readable or not; three events and pages of two make some come after a page. The only operation is `resolve`, by
one operator at a time; the theorems are for all six. The four starts of `indexer` are a backend started with the
contract, on an event under way, and on an event with everything on file; each has room for a new chain event or for
two or three incidents, which is a failure with its retry while the reconciler works, or two overlapping runs of the
finalizer. `MaxDisputes`, `MaxIssued`, `MaxProposals`, `MaxEvents`, `MaxMatches`, `MaxMarkets`, `MaxTime`, `MaxCalls`,
`MaxSeasons`, `MaxRows`, `MaxRequests`, `MaxLogs`, `MaxCrashes` and the budgets of `Starts` cap what the code leaves
unbounded. Symmetry is used over users, outcomes, retries and finalizer runs where no action names one of them, and
only for safety.

**Fairness.** The contracts run only when called and promise nothing that must happen; no fairness is assumed of them,
nor of `Indexer`, all of whose properties are safety. `Webhooks` assumes that the cron keeps starting ticks (`Fetch`),
that a tick gets to its next step (`TickStep`: a POST times out after `WEBHOOK_TIMEOUT_MS`, every other step is a
statement), and that the back-off of a row runs out (`Ripen`). Nothing is assumed of requests, receivers or restarts:
a receiver may refuse for ever. `Submissions` assumes only that a backend with something to do does something
(`SystemStep` as a whole): a single event loop runs what is ready, the listener's cron and the clean-up come round, and
an RPC call times out. Which of the processes goes first is left open.

## Proofs

`tlapm <module>_proofs.tla`. They assume the named assumptions on the constants only (`PlatformAssumption`,
`MarketAssumption`, `InviteAssumption`, `GovernanceAssumption`, `LiquidityAssumption`, `SeasonAssumption`,
`EventsAssumption`, `WebhooksAssumption`, `SubmissionsAssumption`, `IndexerAssumption`), which TLC evaluates in every run.
Every invariant and every action property a run checks, and the refinement, is a theorem; the liveness properties are not.

**Sums.** Money is added up over users, markets, providers and seasons with `SumFunction` of the community modules, a fold
that chooses one element after the other. The induction theorems of the library take an operator as a parameter and cannot
be used here; `Sums` argues with a set in its place. `SubsetInduction` takes the *set* of those subsets of which a fact
holds; a least counterexample exists because the strict subsets of a finite set are well-founded. From it come the
existence and uniqueness of the function the fold defines (`SumsExist`, `SumsAgree`), that the order of choice does not
matter (`SumRemove`), and what the proofs need: a sum changes with its one changed term (`SumChange`), splits
(`SumUnion`, `SumPlus`), is monotone (`SumMonotone`, `SumPart`), scales, and is bounded by the sum over the places its
terms are put in (`SumPlaced`). A step of a contract changes one or two terms, so each invariant below that adds up
amounts is kept by one of these lemmas and the guard of the step.

**MarketMaker: lifecycle.** `Spec => []LifecycleInv`, where `LifecycleInv` is `LifecycleTypeOK`, `Bookkeeping`,
`DisputeIndexConsistent`, `DisputedIsResolved` and `OneRecord`. None of the last three is inductive alone.
That a dispute lies in the window of the resolution in force needs that resolutions lie in the past; that a
claimant never gets a second record needs that claims happen only after the end of a market, that an ended market
takes no stakes, and that the end of an ended market cannot be moved: `Bookkeeping` says so. The proof has a
type lemma for every action, then reduces every step to a `Frame` (time and ends of markets; results) from which
`Bookkeeping` and the dispute facts follow; only raising and resolving disputes, staking and paying need more.
Corollaries: `TypeCorrect`, `DisputeIndexAlwaysConsistent`, `DisputedAlwaysResolved`, `OneRecordAlways`.

**MarketMaker: records and statistics.** `RecordsInv` says of every market that its list names everyone once, that whoever
has a record is on it, and, as long as everybody on it has a record (a claimed one expires), that the pool is the sum of
their stakes; it is inductive because a market that still takes stakes has all its records in persistent storage. From it
`PoolAlwaysMatchesPredictions`. `StatsInv` equates two sums: what the profiles of all users say, and what the entries of all
markets say. Both sides change by the same stake, and a claim moves a user's record out of what `Held` counts, which bounds
how many predictions are credited as correct: `StatisticsAlwaysAgree`. `MoneyTypes` needs more than types: a refund that
would overdraw the balance is not made (`BestEffort`), which takes an argument about the order of the list
(`Latest`, `RefundsCovered`). With it `TypesCorrect`: every variable has its type, and no balance falls below zero.

**MarketMaker: results and families.** Every step is one of few kinds as to the fate of markets (`KindsOfFates`): it leaves
all as they are, creates one, cancels a set, resolves one and cancels a set, or reopens one. `ResultsStand` is immediate
from this. `FamilyInv` adds to `ChildrenFollowResolution` that a child is younger than its parent and that a child whose
condition failed is cancelled or past its end: not taking stakes at the moment would not be enough, since it must also not
take any later. `ChildrenAlwaysFollow` holds for any number of children and generations.

**Invites.** `PrivateSpec => []PrivateInv`. `AdmittedWithinGrants` is not inductive: codes can still admit people. `Granted`
adds to those on the list the uses all codes of the market still have (`Outstanding`, a sum over codes), which stays within
what was issued: redeeming moves a use from one side to the other at most, and a code made anew in its ledger drops
what it had left. `OnlyInvitedAlways`, `AdmittedAlwaysWithinGrants`, the action theorem `DeadCodesAlwaysDead` (only the
ledger that issued a code can issue it again) and `PrivateTypesCorrect`.

**DisciplinedMarket.** `DisciplinedSpec => [](Facts /\ PurseInv)`, with `Facts` the invariants above. `Backed` makes the one
balance three: the treasury, the bonds of open disputes, and for each market a purse, its pool less what was charged to it;
the code keeps no account of the last. `Sound` says of every market that its history fits its records: a cancelled one has
settled every predictor once with its whole pool; otherwise those whose record was claimed are settled, nobody before a
result, and what was charged and what is still due fit into the pool. What is due is a sum of rounded shares of the stakes
of unpaid winners over those of all winners, and it needs the rules: after a claim it falls by the share paid
because the stakes of claimed winners are still found, after a batch because everybody was paid. `EscrowAlwaysCovers`,
`AlwaysSettledOnce`, `PayoutsAlwaysWithinPool` and `CancelledAlwaysRefunded` follow, for any number of markets, users,
stakes and fees. The refinement `MarketsStaySeparate` shows of each action which step of `Purses` it is: staking backs one
purse, a claim or a batch settles one, a cancellation or a resolution closes one with the children of the cascade, an upheld
dispute reopens one, and everything else leaves all purses alone.

**Governance.** `GovSpec => []GovInv`: the types (so that neither a fee above 100 % nor a stake floor of zero is ever
enacted), `VotesCounted`, `FreshIds` (nobody has voted on a proposal to come), `EnactedByMajority`, `EnactedOnce`.
An execution stays backed because an executed proposal takes no more votes; it is the only one because
everything on the list of executions is marked executed. `QuorumIsAPart` says of the quorum formula that it is a tenth of
the users, or whatever `QuorumPart` says, rounded up, and at least one. Corollaries: `EnactedByMajorityAlways`, `EnactedOnceAlways`, `VotesCountedAlways`, `GovTypeCorrect`.

**Rewards.** `RewardsSpec => []RewardsInv`, for any number of markets, outcomes, providers, seasons and amounts. `PoolInv`
has what all providers of a pool hold within its supply, so that no withdrawal divides by zero or drives a reserve below
zero; `NoDilution` makes the value of a withdrawal exact. `SeasonInv` keeps `SeasonsDisjoint` because every call but the
creation, which checks for overlaps, only ends seasons. `CoverInv` bounds what all pools and all unfinished seasons are owed
by the balance: each call is shown to add to the balance at least what it adds to the debts. `PrizePaidOut` shows that the
rounded shares of any board, merged by user, add up to the prize, so that `finalize_season` never fails for a sum that is off; the points may still overflow.
Theorems: `TokensAlwaysMinted`, `RewardsAlwaysCovered`, `DueSeasonsAlwaysPayable`, `NoDilutionAlways`,
`SeasonsDisjointAlways`, `RewardsTypeCorrect`. `ConstantProduct` and `SwapKeepsProduct` are the arithmetic of
a swap with its rounding; `ProductNeverFallsAlways` is the action theorem.

**CreatorEvents.** `EventsSpec => []EventsInv`: the types but for the balances, `Graded`, and two facts it rests on.
`Graded` says of every event what `GradesComplete` says of those not cancelled; the code grades the others too. `Timetable`: a match begins before its event ends and has a result only once it has begun, so no prediction slips in
between. `FinalizedOver`: an event is paid out only when it is over and its matches are decided, so no match, prediction
or result can come later. `EventsTypeCorrect`, `GradesCompleteAlways` and the action theorem `StandingsSettledAlways`
follow. `TableInv` adds that only participants predict and are paid; those who join after the payout have no points, and so
do not overtake anybody who was paid (`TopScorersAlwaysPaid`). `MoneyInv` has the sum of the open pools within the
balance: an event is paid at most its own pool, since the percentages of a split are at most a hundred and shares
round down (`PoolsAlwaysEscrowed`); with it every balance stays a number (`EventsTyped`).

**Webhooks.** `WebhooksSpec => []WebhooksInv`. What it says of a row on file it must say of every copy in a tick's
hands, since a tick saves what it read long before: every copy is one whose attempts the posts of its row have
reached, and since posts only grow, an honest copy stays honest. With the foreign key (`RowsOwned`) this gives
`SettledHonestlyAlways` and the action theorem `DeletedStaysDeletedAlways`, for any number of overlapping ticks.

**Submissions.** `SubmissionsSpec => []SubmissionsInv`. Why a key protects the chain: a request that works owns the row
of its key (`KeysHeld`), the row says whose it is and is completed only after a commit (`KeysTrue`), and the write nobody
waits for comes from a request that is done (`WritesFinal`); so two requests of one key never work together, and one that
reaches the chain is the first of its key (`SentFirst`). Why the count is not too high: besides the market's row, every
copy of it that may yet be saved counts no more participants than there are predictions, with room for one more where
the listener is about to add one (`CopiesCounted`). Theorems: `ReplaysAreTrueAlways`, `CountedArePredictedAlways`, the
action theorem `NeverStakedAgainAlways`, for any number of users, keys, requests, restarts and events, and for any
events the listener cannot read or place: whether a market or user has a row (`Known`) is all a skipped event turns on.

**Indexer.** `IndexerSpec => []IndexerInv`. Handlers, retries and the finalizer save rows they read some statements
earlier, so what `MirrorSound` and `MatchesCounted` say of the row on file is also said of every copy in their hands
(`Honest`, `TaskSound`, `TickSound`), for every retry and every run of the finalizer (`AtTick`). Every step is shown to be a `Growth`: the chain only gets longer, what is listed or
decided stays so; under it a copy that was honest when it was read is honest when it is saved. A copy about to be saved
with one match more has room for it, since the match was listed after the copy was read. Theorems: `MirrorSoundAlways`
and `MatchesCountedAlways`, for any number of matches, users, chain events, failures and restarts.

**Only model-checked:** the liveness properties (`DeliveriesEnd`, `KeysDrain`, `StakesReachTheBase`): fairness and ENABLED
are out of the provers' reach. That each operation of the models can be taken at all is what the coverage of the runs shows.
The two properties that fail, `PayoutsCovered` and `IndexedIsOnChain`, are TLC counterexamples.

## Findings

The two violation runs, described in `PROJECT.json` with the line of the code and of the text it disagrees with.
Other disagreements met while reading, without a run of their own.

Contracts:

* Cancelling a market deactivates the children of the market and, through `deactivate_conditional_market`, one
  generation only (`market-maker/src/market.rs:651`, 990-1031); `market.rs:644` says that no orphaned markets remain.
* Generating a code twice in one ledger stores it anew, with its uses reset (`invite.rs:78`); `storage_types.rs:526-527`
  says of the uses "never decremented".
* A cancelled proposal that had its majority can still be executed: `governance.rs:184` looks at the votes, the time and
  `executed`; `governance.rs:238` says "cancel a proposal before it is executed".
* An entry fee paid after the payout stays behind (`users/src/prediction.rs:94`); `users/src/finalize.rs:51-52` says the
  pool is exhausted.
* A second `add_liquidity` of a provider replaces the position, and the tokens and fees it had are lost
  (`liquidity.rs:235`); a swap moves reserves and never pays the trader.
* After `reset_season_points` and a read of `get_active_season` two seasons can be flagged active.
* `update_leaderboard` accepts points whose sum does not fit into 32 bits (`season.rs:240`): the season cannot be finalized
  until other standings are posted.
* `withdraw_treasury` of `escrow.rs:290` has no caller; the entry point of that name calls `transfer_fee`.
* `users/docs/USER_GUIDE.md:268` says predictions of a cancelled event are preserved but not scored; `submit_match_result`
  grades them. `GradesComplete` therefore speaks of events that were not cancelled.
* `users/src/leaderboard.rs:108-118` counts exact scores by four points, so that those of matches with a multiplier are
  missed; `oracle.rs:208-210` calls its own count multiplier-agnostic.
* `market-maker/ARCHITECTURE.md:197` has the pause checked in `redeem_invite_code`; the code does not check it.
* `market.rs:758` says a conditional market only becomes active when its parent resolves; `submit_prediction` does not
  ask. `MAX_CONDITIONALS_PER_PARENT` (market.rs:756) is never enforced.

Backend:

* The payouts of a finalized event are saved one by one with errors swallowed, and the event is skipped once any is on
  file; `indexer.service.ts:1009-1012` takes one payout as proof of all.
* Back-filled rows have the status PENDING and the type 'unknown'; nothing processes them. A retry of `UserJoined`
  counts the participant again. The poll and the listener go past a page they did not read to its end.
* The listener passes over a prediction whose market or user has no row yet (`soroban.listener.ts:223-226`, 236-244), as
  it does over events `normalizeEvent` cannot read (`soroban.service.ts:654-678`), and its cursor moves on: signing up later
  does not bring the prediction back. `StakesReachTheBase` says which predictions are safe from this, and when.
* The contract publishes a prediction as a tuple `(market_id, predictor, outcome, amount)` (`market-maker/src/prediction.rs:49-52`),
  and `getEvents` decodes nothing. The listener looks for the fields by name; unless the RPC node renders the value as an
  object with those names, every event takes one of the ways that pass over it. What the node delivers is outside `src`, and
  `lacks` stands for all that the code tells apart.
* Between the chain call and the transaction that stores the prediction (`predictions.service.ts:87-94`) a failure leaves a
  stake on the chain, and the same key may stake again once it is released or expired.
* Saves of rows read earlier undo what others did: a tick re-activates a deactivated webhook endpoint, `update` of a
  market's title undoes a resolution, a handler of the indexer undoes `is_finalized`.
* `updateSubmissionRecord` (`oracle/webhook.service.ts:277-279`) never finds the record it looks for.

## Not modelled, and the plan

Done, in this order: `Platform`, `MarketMaker` (lifecycle, then conditional markets, then money), `Purses` and
`DisciplinedMarket`, `Invites`, `Governance`, `CreatorEvents`, their first proofs; then `Rewards` and its parts,
`Webhooks`, `Submissions`, `Indexer` and their proofs; then `Sums` and the proofs about money: records and statistics,
conditional families, invites, the purses and their refinement, pools and seasons over one balance, creator events.

Left to do, in order:

1. Proofs: `IndexerTypeOK` in full; `LiquiditySpec` and `SeasonsSpec` as specifications of their own.
2. `Indexer`: the handlers of fee changes and address verification, the figures for dashboards, the finalizer's limit
   of twenty events a tick. `Submissions`: payouts claimed as the listener meets them, its
   advance of the reconciliation checkpoint, and a property about every stake, once lost events are read again.
3. The backend's disputes and oracle services, which repeat the pattern of `Submissions` (chain call, then a save of the
   row), and competitions, where two requests can take the last place.

Left out for good: read-only views and listings, categories, address verification in the users contract (nothing reads
it), storage rent, contract events as output, HTTP handling, authentication, caching, search, analytics, achievements
and notifications of the backend, and the frontend: they hold no state the properties are about, or are pure input and
output.
