# LearnVault: a TLA+ development

LearnVault is a learn-and-earn platform on Soroban (Stellar): donors fund a
treasury, scholars submit scholarship proposals, holders of the GOV token vote,
approved scholarships are paid in tranches against milestones, and disputes go
to a pool of jurors.  The logic that moves money and votes is in the Rust
contracts under `contracts/`; an Express server indexes contract events, keeps
its own books in PostgreSQL and calls the contracts on behalf of
administrators; a React frontend reads both.

This directory holds TLA+ models of that system, the TLC runs that check them
on small instances, and TLAPS proofs for every value of the constants.  Paths
below are relative to the repository's root.

## 1. Inventory

Contract calls are atomic transactions: a call that panics changes nothing, and
two calls never interleave inside.  What interleaves are the calls, made by
donors, voters, scholars, administrators and strangers in any order.  The
server is different: its handlers await queries and remote calls, run
concurrently and may crash between any two of them.

| Component | State | Operations | Hard behaviour | What makes it correct |
|---|---|---|---|---|
| `scholarship_treasury` | USDC total, disbursed, commitment counter, strategy principal and yield, parameters, proposals, votes, objections, stored statuses, pause | deposit, disburse, submit, vote, finalize, object, veto, cancel, execute, set parameters and strategy, harvest, emergency withdraw | calls in unforeseen orders; parameters changed mid-way; running counters; returns smaller than asked | books equal tokens; paid once, after a window, on a frozen tally; commitments exact; investment leaves what is owed |
| `governance_token` | balances, supply, allowances, delegates, delegated amounts, pause, own proposals | mint, burn, admin burn, transfer, approve, transfer_from, delegate, undelegate, create / mark / execute proposal | delegation as a running book through all balance changes, cycles of delegates | supply and delegation books exact; a token votes once at a time |
| `strategy_lending` | principal, reserve, interest, pause of withdrawals | deposit, withdraw, accrue, write off | rounding of interest, unbacked interest | owner can withdraw principal while the venue is solvent |
| `milestone_escrow` | escrow records (total, tranches, released), arbitration address and its pending change, used disputes | create, release, release by ruling, reclaim for inactivity, change the arbitration contract | release against reclaim; remainder of the last tranche; replayed rulings | paid + reclaimed = released, never more than the total; a ruling pays once |
| `milestone_arbitration` | juror pool with stakes, disputes with commits and reveals | join, leave, open, commit, reveal, resolve | boundaries of windows, ties, quorum failure, slashing while selected | stakes conserved; one resolution; every dispute resolvable |
| `course_milestone`, `learn_token` | milestone status per learner, rewards, oracle votes, appeals; soulbound balances | submit, verify, approve, reject, appeal, resolve, batch | status paths that bypass each other | a milestone is rewarded once |
| `lrn_staking` | stakes with lock end and weight | stake, extend, unstake, emergency exit | boundary of the lock, revived locks | stake returned exactly once |
| `scholarship_claim` | awards with deadlines | create, claim, reclaim, extend | claim against reclaim | paid or reclaimed, never both |
| `upgrade_timelock_vault` | queued upgrades | queue, cancel, execute, set duration | changed durations | no upgrade before its time |
| LRN balance projection (`server/src/services/scholar-balance-indexer.service.ts`, `server/src/db/scholar-balance-store.ts`, `server/src/workers/event-poller.ts`, `server/scripts/backfill-scholar-balances.ts`) | journal of events, balances, checkpoint | poll tick, replay, rebuild, peer review reward | overlapping ticks, crashes between pages, replays, a node that forgets | every event counted once, none passed over, all counted in the end |
| escrow timeout (`server/src/services/escrow-timeout.service.ts`, circuit breaker in `server/src/services/stellar-contract.service.ts`) | `escrow_timeouts` rows, breaker | track, mark activity, remind, reclaim | rows read before and written after awaits; one breaker for everything | booked means reclaimed, reminded means warned, overdue escrows are reclaimed |
| milestone review (`server/src/controllers/admin-milestones.controller.ts`, `milestone-submit`, `-resubmit` and `-appeal` controllers, `server/src/db/milestone-store.ts`) | report rows, audit log, escrow and referral rows | submit, resubmit, approve, reject, batches, appeal, resolve | check-then-act around contract calls that may be refused, lost or overtaken | what is approved was rewarded, decisions are audited, one tranche, one bonus |
| event indexer (`server/src/services/event-indexer.service.ts`) | event rows, cursor, escrow rows | poll, webhook | duplicates, swallowed failures, restart, cursor moving back | every event handled once, eventually |
| offline queue (`src/hooks/useOfflineQueue.ts`) | queued submissions | enqueue, drain | lost responses, two tabs, retry limit | nothing lost, nothing twice |

`scholar_nft`, `passkey_wallet`, `fungible-allowlist`, `shared` and the other
server services and pages have no protocol between calls and are left out;
PROJECT.json lists them with the reason, and under `hazards` what is hard to
test, at its line, with the properties that would catch it.  Hazards of contracts
that are not modelled, left out there: the order in which a batch of
`course_milestone` fails, the revived lock of `lrn_staking`, the deadline of
`scholarship_claim`, an `emergency_withdraw` from a venue that has stopped
withdrawals, a direct `disburse` that empties what a commitment counts on.

Interaction: `scholarship_treasury.deposit` mints GOV through
`governance_token`; `vote` and `object_to_proposal` read
`get_voting_power`; allocation, deallocation and harvest call the registered
strategy adapter (`strategy_lending`); `milestone_escrow` obeys
`milestone_arbitration`; `course_milestone` mints through `learn_token`; the
server reacts to contract events and calls `verify_milestone`,
`release_tranche`, `reclaim_inactive` and `cancel_proposal`.

## 2. Plan

The order in which the development was built, most important behaviour first:

1. `ScholarshipTreasury` with `GrantLifecycle`, the abstract pipeline it
   implements; `GovernanceToken`; `Totals`, sums over finite sets.
2. `MilestoneEscrow` with `TranchePayout`, the abstract escrow it implements;
   `MilestoneArbitration` with liveness; `ReleaseRulings`, what the second
   promises to the first.
3. The server, where calls do interleave: `ScholarBalances`, `EscrowTimeouts`,
   `MilestoneReview`; `InactivityWatch`, what `MilestoneEscrow` promises to the second.
4. Proofs for each, in a module of their own.

Worth doing next: the contract's side of `MilestoneReview` in the same way; `StrategyLending` as
the detailed form of the treasury's adapter; votes weighted by the balances of
`GovernanceToken`.

## 3. Modules

### ScholarshipTreasury

One variable per storage key of `contracts/scholarship_treasury/src/lib.rs`
(the comment at each variable names the key) and three for the outside: `held`
(token balances of the treasury's address), `worth` (what each strategy adapter
reports), `gains` (interest ever credited); `paid` remembers what each applicant
received.  One action per entry point:

| Action | Code |
|---|---|
| `Deposit`, `Disburse` | `deposit`, `disburse` |
| `Submit` | `submit_proposal`, `submit_allocation_proposal`, `submit_deallocation_proposal` |
| `Vote`, `ObjectTo`, `Veto`, `Cancel` | `vote`, `object_to_proposal`, `veto_proposal`, `cancel_proposal` |
| `Finalize` = `FinalizeQueued` or `FinalizeRejected` | `finalize_proposal`, by the outcome of the tally |
| `Execute` = `ExecuteDisbursement`, `ExecuteFailed`, `ExecuteAllocation`, `ExecuteDeallocation` | `execute_proposal` with `disburse_internal`, `allocate_internal`, `deallocate_internal` |
| `Harvest`, `EmergencyWithdraw` | `harvest`, `emergency_withdraw` |
| `Pause`, `Unpause`, `SetVotingParams`, `SetStrategyLimits`, `AddSupportedAsset`, `SetStrategy` | the admin setters |
| `Tick`, `StrategyGain`, `StrategyLoss` | the environment |

Guards are the early returns and panics of the code; the bookkeeping of
strategy returns (`apply_strategy_returns`) is `TakeBack`, used by three
actions.  The adapter may return any amount up to what was asked, as the code
that reconciles is written for that.  A vote's weight comes from the constant
set `Weights`: how the token computes it is `GovernanceToken`'s business.
`Passed` is evaluated with the parameters in force at the moment, as in
`finalize_proposal`, `execute_proposal` and `proposal_status`.

`Spec` allows every call at every time.  `DisciplinedSpec`
restricts three calls to what the code's comments take for granted and the
contract does not enforce: a proposal is finalized once and not after its
cancellation (`FirstFinalize`), it is cancelled only while voting is open or once
it is queued (`TimelyCancel`), and the strategy is set once (`FirstStrategy`).
The properties about commitments and yield hold only there; the runs `commitment`
and `finality` show what happens otherwise.  `TimelySpec`, `FinalizedOnceSpec` and
`OneStrategySpec` have only the first part of these rules that a promise needs:

| Rule kept | Promise | Theorem |
|---|---|---|
| timely cancellations | the counter is never below what is owed (`CommitmentCovers`), investments leave what is owed, an excess never shrinks | `CommitmentCoversCorrect`, `InvestmentCorrect`, `ExcessIsForever` |
| timely cancellations, one finalization | the counter is exact, a final status is final | `CommitmentCorrect`, `FinalityCorrect` |
| one strategy | reported yield was earned | `YieldCorrect` |
| none | books, pause, single payment, frozen tally, lifecycle | `BooksCorrect`, `PauseCorrect`, `PaidOnceCorrect`, `TallyCorrect`, `LifecycleCorrect` |

### GrantLifecycle

What a proposal pipeline promises: a grant is settled only out of the approved
stage, in a later ledger than its latest approval; settled and cancelled are
absorbing.  The treasury implements it (`ImplementsLifecycle`, stages computed
by `StageOf` from flags and stored status) and so do the token's own proposals
(`TimelockHolds`).

### GovernanceToken

One variable per storage key of `contracts/governance_token/src/lib.rs`, one
action per entry point.  `Followed` is the update of the delegate's book that
`mint`, `_debit` and `_credit` repeat; `Moved` is `_debit` then `_credit`, in
that order, also from an account to itself.  `PowerWithinSupply` is an equation:
the votes of all accounts and the dormant ones (lent to an account that itself
lends its own, so that nobody can cast them) are the supply.

### MilestoneEscrow

One variable per storage key of `contracts/milestone_escrow/src/lib.rs`; `held`,
`toScholar`, `toTreasury`, `lastPaid` and `arbitrated` remember the transfers the
code makes, and `rulings` is what the arbitration contracts would answer to
`get_release_outcome`.

| Action | Code |
|---|---|
| `CreateEscrow` | `create_escrow`, authorized by the treasury |
| `ReleaseTranche`, `ReleaseViaArbitration` | `release_tranche`, `release_tranche_via_arbitration`; their common half is `Released` |
| `ReclaimInactive` | `reclaim_inactive` |
| `SetArbitrationContract`, `QueueArbitrationChange`, `ExecuteArbitrationChange`, `CancelArbitrationChange` | the functions of these names |
| `Rule`, `Tick` | the environment |

`NextTranche` and `Payable` are `next_tranche_amount` with its `Overpayment`
check.  A contract rules once on a dispute, as `milestone_arbitration` does, but
every contract numbers its disputes from zero, so two contracts use the same ids.
`Rule` is the promise of `ReleaseRulings`, of each contract by itself
(`Arbitration(c)`).  The code does *not* look at a ruling's milestone; that a
contract nevertheless brings a proposal no more tranches than milestones it decided
(`OneReleasePerDispute`) is owed to the promise.

### ReleaseRulings

What an arbitration contract promises to an escrow: a dispute comes to release one
milestone or none, for good, and no milestone is released by two disputes.
`MilestoneArbitration` implements it (`ImplementsRulings`, proved as
`RulingsCorrect`), and the rulings in `MilestoneEscrow` are exactly it
(`RulingsSupposed`): the two contracts meet in this module, and neither has to be
checked with the states of the other.

### TranchePayout

What an escrow promises about money: the scholar is paid out of what is left,
the treasury takes back nothing or all that is left, and after that nobody is
paid.  `ImplementsPayout` maps the records to it.

### InactivityWatch

What the contract promises to the server that reclaims: an escrow becomes overdue by
the passing of time alone, each payment makes it wait the whole window again, only an
overdue one is reclaimed, and a spent one stays so.  `MilestoneEscrow` counts seconds
and units of money and keeps it (`ImplementsWatch`, proved as `WatchCorrect` for
every window that is not empty); `EscrowTimeouts` counts days and tranches and supposes no more
(`SupposesWatch`, proved as `WatchSupposed`).

### MilestoneArbitration

One variable per storage key of `contracts/milestone_arbitration/src/lib.rs`, one
action per entry point: `JoinPanel`, `LeavePanel`, `OpenDispute`, `CommitVote`,
`RevealVote`, and `Resolve` = `ResolveWithQuorum` or `ResolveQuorumFailed`.  The
hash commitment is abstracted to what it guarantees: a sealed ballot can be
opened to one vote only, or stay sealed.  The draw of a panel is any panel of
jurors with a positive stake, since the draw is a hash.  `Slash`, `Rewarded`,
`Pot` and `Reward` are the integer arithmetic of `resolve_with_quorum`, rounding
included.  `rejected_at` is an argument the contract takes on the caller's word
and refuses nobody who chooses it freely, so it is left out.  `ReleaseOutcome` is
`get_release_outcome` as far as the escrow goes by it.

### ScholarBalances

The only table of the server that is built to be exactly right: LRN balances,
projected from the mints and burns of `learn_token`.  `chain`, `head` and `oldest`
are the network (`CloseLedger`, `Prune`); `journal`, `balance` and `checkpoint` are
`lrn_balance_events`, `scholar_balances` and a row of `indexer_state`; `sync` holds
the local variables of every call of `indexLrnBalanceEvents`, with a step for each
stretch between two awaits:

| Action | Code |
|---|---|
| `Tick`, `Resume` | the interval of `event-poller.ts`, `syncLrnBalances`, `getLrnBalanceCheckpoint` |
| `Replay` | `backfill-scholar-balances.ts`, with `--from`, and `--to` or not |
| `Fetch`, `FetchRefused` | `fetchPage` and the range error of the node |
| `Apply` | `applyPage` with `applyLrnBalanceDeltas`, one atomic statement |
| `Finish` | the checkpoint and `updateIndexerState` |
| `Fail` | any await that rejects, or the death of the process |
| `RebuildRead`, `RebuildWrite` | `rebuildScholarBalances`, split where READ COMMITTED lets others commit |
| `PeerReview` | the reward that `submitPeerReview` pays past the journal |

An event is a record with its place in the chain as id; `Page` is the first
`PageSize` of what a request finds.  A cursor, unlike the first request, has no end
of range, as in `fetchPage`.  `QuietSpec` is the operator's side of
`rebuildScholarBalances`: no sync writes while it runs.  Its comment says that it is
"safe to run at any time"; a sync that commits between its two statements' snapshot
and their writing is lost from the totals until the next rebuild, so `CountedOnce`
is claimed for `QuietSpec` only.  Without that rule two things still hold, and are
proved about `Spec`: no event is in a balance twice (`NeverTwice`), and only such an
overlap loses one, until the next rebuild without it (`OverlapAloneLoses`).

### EscrowTimeouts

`row` is `escrow_timeouts` with the age of `last_activity_at` in days (capped where
nothing can tell the difference), `older` the order of these dates, `escrow` the
contract's record with its own age, `breaker` the `CircuitBreaker` all Stellar calls
share, and `pass` the rows a run of `processEscrowTimeouts` has still to treat, *as
it read them*.  A row goes from `Track` (submission of the proposal) through
`MarkActivity`; `Fund`, `Release` and `Execute` are the contract.

| Action | Code |
|---|---|
| `StartPass` | the query of `processEscrowTimeouts` |
| `LeaveRow`, `Warn`, `MarkReminded` | the two branches of a row that is not due |
| `Reclaim`, `ReclaimSuspended`, `CallAccepted`, `CallRefused`, `CallFails`, `BookReclaim` | `reclaimExpiredEscrow` through `CircuitBreaker.call` and `reclaimInactiveEscrow` |
| `RowFails`, `Restart` | the catch of a row; the end of the process |
| `Elapse`, `OtherCall` | the reset timeout; every other call through the breaker |
| `Day`, `Expire` | the clock; a transaction that never gets into a ledger |

`Linked` are the proposals whose row names a course: governance proposals are
tracked without one, so that no activity ever refreshes them.  `RESET` is `OPEN`
with the timeout over.  After it the breaker lets every concurrent call through until one of
them has an answer, though the comment says "a single probe call"
(`stellar-contract.service.ts:164`); `Admit` does what the code does.  Failures are
counted only while the breaker is closed, where alone they matter.  `sendTransaction`
returns before execution and its status is not read: `inflight` are transactions the
node accepted, `lost` those that never executed, and because all are signed with the
account's next sequence number, one that executes invalidates the others.  The
`ON CONFLICT` branch of `trackEscrowTimeout` cannot be reached with fresh proposal
ids and is left out.  The id of a proposal on chain is taken to be the id of its row,
as the code does.

### MilestoneReview

One scholar's reports of one course: `status` and `audit` are `milestone_reports` and
`milestone_audit_log`, `released` and `referral` columns of `escrows` and
`referrals`, `chain` the status in `course_milestone`, `request` the local state of
every running request, `configured` whether the server's environment holds the
credentials that `hasStellarMilestoneCredentials` asks for.  A request of kind `approve`, `batch`, `reject`, `grant`,
`deny`, `submit` or `appeal` reads (`Load`, `FindReport`), calls (`CallAccepted`,
`CallRefused`), writes (`Decide`, `Appeal`, `StoreReport`) and records (`Audit`), each
in a step of its own, as each is an await.  After an approval come the certificate
(`Progress`, `MintCertificate`), the referral step that nobody waits for
(`SelectReferral` to `PayBonus`) and the tranche (`FindEscrow` to `BookTranche`).
`AfterReading` is the branch on the credentials: without them the decisions on pending
reports are answered with 503, and `resolveAppeal` goes on to write without a
transaction.  `Die` and `BonusFails` are failing queries; `Restart` ends the process
with everything it was doing, and starts it with the credentials or without.

`decided`, `overlapped`, `lost`, `unaudited` and `unbacked` are history: what was
written, and which reports met two requests at once, lost a transaction, lost an
audit entry, or had an appeal granted without credentials.

Three facts of the code that the model keeps: a status is overwritten
unconditionally (only `submitAppeal` is conditional); a batch and an appeal neither
release a tranche nor qualify a referral; `resolveAppeal` calls `verify_milestone`,
which refuses an appealed milestone, so a server with credentials grants an appeal
only after the scholar has submitted again on chain.

A grant by a server *without* credentials (`milestone-appeal.controller.ts:203`, `:223`)
stores `approved` with no verification sent, lost or in flight.  The comment above the
call (":202", "Approve: call verify_milestone on chain to mint LRN") and the route's
documentation (`milestone-appeal.routes.ts:98`, "If approved, triggers on-chain
verify_milestone to mint LRN tokens") say otherwise, and the four handlers that decide
pending reports refuse in that situation (`admin-milestones.controller.ts:201`, `:431`,
`:590`, `:749`).  A report that is submitted, rejected and appealed while the server was
configured, and granted after a restart without the variables, is approved and never
rewarded.  `ApprovedIsRewarded` therefore excepts the reports in `unbacked` from what it
says of the status and of the certificate, and of nothing else: without the exception
TLC finds that sequence.  It is not kept as a run of its own.  In the passing run a
course completed by an unbacked report does not occur, since it takes six requests; that
part of the property rests on the theorem.

Two facts that the model assumes: that the contract the server
talks to accepts its argument list (`verify_milestone` is called with three
arguments, the contract in this repository takes five), and that the scholar has a
row in `escrows` (the server's own `INSERT` names a conflict target no migration
provides, so the row has to come from elsewhere).

### Totals

`Total(f, S)`: the sum of a function over a finite set, defined without
recursion as the size of a set of units, so that it can be proved about.

## 4. Runs

| Run | Instance | Shows |
|---|---|---|
| `lifecycle` | `Spec`; 1 disbursement, 2 voters, 4 ledgers, 2 assets, direct disbursement, quorum raised, voting period and timelock lengthened | `PaidOnce`, `TallyFrozen`, `PausedKeepsFunds`, `ImplementsLifecycle` |
| `funding` | `DisciplinedSpec`; 2 proposals of any kind, 1 strategy, interest, losses, threshold, cap and buffer changed | `TypeOK`, `BooksMatchTokens`, `CommittedIsOwed`, `YieldWasEarned`, `InvestmentLeavesOwed` |
| `token` | 3 accounts, 1 spender, supply 2, 1 proposal, 2 instants | `TypeOK`, `SupplyIsBalances`, `DelegationIsBooked`, `PowerWithinSupply`, `TimelockHolds` |
| `escrow` | 2 escrows with 2 milestones each, amounts 1 and 5 in 3 tranches, 2 arbitration contracts, 2 dispute ids, 3 instants | `TypeOK`, `EscrowsAreFunded`, `TranchesAreEven`, `OneReleasePerDispute`, `ReclaimWaits`, `ImplementsPayout` |
| `arbitration` | `FairSpec`; 3 jurors, 2 disputes about 2 milestones, panels of 3 with quorum 2, 3 instants | `TypeOK`, `StakesAreHeld`, `AssignmentsAreCounted`, `OutcomeIsMajority`, `VotesAreBlind`, `OnlyFaultIsSlashed`, `EveryDisputeEnds` |
| `balances` | `FairQuietSpec`; 2 syncs that overlap, one of them a tick or a replay, 2 events over 3 ledgers, 1 event per page, retention 2, 1 failure, 1 reward | `TypeOK`, `CountedOnce`, `NothingSkipped`, `EveryEventCounted` |
| `review` | `Spec`; 2 reports, 2 concurrent requests, 4 in all, 3 tranches, 1 failure or restart, started with credentials or without | `TypeOK`, `ApprovedIsRewarded`, `DecisionsAreAudited`, `OneTrancheWithoutOverlap`, `OneBonusWithoutOverlap` |
| `timeouts` | `FairSpec`; 2 proposals, 1 of them linked, 1 pass, windows of 2 days, reminder 1 day before, threshold 2, 1 failure | `TypeOK`, `BookedIsReclaimed`, `RemindedIsWarned`, `InactiveIsReclaimedInTheEnd` |
| `commitment` | `Spec`, 1 disbursement | counterexample to `CommittedIsOwed` |
| `finality` | `Spec`, 1 disbursement | counterexample to `FinalStatusIsFinal` |
| `reward` | `Spec`, 3 jurors, 2 disputes | counterexample to `OutvotedNeverGain` |
| `starvation` | `PromptSpec`; 3 proposals, threshold 2, nothing fails | counterexample to `InactiveIsReclaimed` |

Bounds.  `MaxLedger` = 4 in `lifecycle` leaves room to submit, vote, finalize,
be vetoed, be finalized again and execute with a one-ledger timelock; two voters
give a lost, a won and a tied vote, quorum 200 makes a passed proposal fail at
execution.  One proposal is enough there because proposals share only funds and
parameters.  Where they compete for funds, `funding` has two of every kind:
4 units against amounts of 2 let both be approved, one be invested and the
buffer refuse the other.  One unit of interest and losses down to zero give
every order of gain, loss and reconciliation.  `GovernanceToken` needs three
accounts for a chain and a cycle of delegations; two tokens are the least that
two accounts can hold at once.  In `escrow` an amount of 5 leaves a remainder for
3 tranches and an amount of 1 has tranches of zero; two milestones let one contract
rule twice for one proposal, and two contracts on the same milestone; windows of one
instant give every order of release, ruling and reclaim around the boundary, and
a change of contract in between.  In `arbitration` the panel of 3 with quorum 2
gives majorities, a tie with one silent juror, and a failed quorum; two disputes
overlap on the same jurors, so that a stake is gone when the second one ends; a
stake of 4 and a dispute stake of 5 leave dust.  `OpenDispute` is guarded by the
last instant so that a dispute has time to run its course.  `MaxGains`, `MaxFunds`, `MaxLedger`, `MaxTime`,
`MaxDisputes` and `MaxProposals` are bounds of the exploration, guards in the environment's
actions and in `Submit`; `MaxCommitted` and `MaxSupply` stand for `i128::MAX`.
In `balances` pages of one event make every sync of two events a multi-page one
whose last page is full; three ledgers and a retention of two let the node drop a
ledger before it was fetched; `MaxPages` 3 keeps a sync within its limit.  That
limit matters: a sync that stops at `MAX_PAGES` still moves the checkpoint to the end
of the requested range, so what lies beyond is passed over, although the comment
(`scholar-balance-indexer.service.ts:41`) says the rest "is picked up on the next
tick"; it takes more than 100 000 events in one sync.  `StartingLedger` 1 and
`ReplayFrom` {1} are a deployment that begins with the token: a
replay that begins later and moves the checkpoint skips what lies between, as it is
told to.  `NothingSkipped` needs that start to be configured.  With the default
`STARTING_LEDGER` of 0 (`event-config.ts:36`) and no checkpoint yet, a sync resumes behind
the highest ledger of the journal; if the first one dies between two pages that split a
ledger, the rest of that ledger is passed over and never counted.  In `review` two reports are the least for a batch and a completed course,
and two requests the least for a race; four in all allow a submission, a decision, a
resubmission and a second decision of one report, or, with the restart, a submission,
a rejection, an appeal and its grant without credentials.  `BeginsInTime`, the action
constraint of that run, lets a request begin only when its first read finds what it needs:
one that begins earlier is refused, which changes nothing, or does what it would have done
beginning right before that read, with more overlaps, which the properties excuse; the
theorems are without it.  A request is still refused when the row changes before the read.
In `timeouts` a window of two days with
a reminder of one gives every order of reminder, activity and reclaim; two failures
open the breaker, and two rows, one without an escrow, are the least in which one can
keep the other from being tried.  `starvation` needs two dead rows and one
overdue escrow.  The contract runs and `review` turn the deadlock check off: with its
last ledger reached and every proposal or request settled, an instance has nothing
left to do.

Voters, accounts of the token, jurors, escrows, arbitration contracts, dispute
ids, reports and requests are interchangeable, hence the symmetry sets; no run with symmetry checks
liveness.

Fairness.  Nothing in a contract happens by itself, so the properties of the
contracts are safety properties, except `EveryDisputeEnds`: its `FairSpec` has
weak fairness of `Tick`, as ledgers close, and of `Resolve`, which is open to
anyone and which the scholar, the winning side or an administrator has an
interest to call.  Jurors get no fairness: they may never commit or reveal.  The
server does act by itself.  `FairQuietSpec` of `ScholarBalances` has weak fairness of
every tick, as `setInterval` keeps firing and every await of a tick returns or
rejects (a rejection is the action `Fail`, of which there are finitely many), and of
the commit of a rebuild.  `FairSpec` of `EscrowTimeouts` has it for the hourly timer,
for every step of a pass, for the clock, and for the fate of an accepted transaction.
`PromptSpec` adds what makes its counterexample an ordinary day: no day and no reset
timeout goes by in the middle of a pass.

What the counterexamples say (PROJECT.json, `findings`): `cancel_proposal`
between the deadline and the finalization releases a commitment never made;
`finalize_proposal` overwrites a final status; a juror left without stake by one
dispute is outvoted in another and shares its reward; rows of proposals that were
never funded open the shared circuit breaker in every pass of the reclaim, before it
gets to an escrow that should go back to the treasury.

What the models of the server say beside their properties.  In `MilestoneReview` two
administrators who approve one pending report can release two tranches for it, and
mint two certificates; two approvals of different reports, stored before either is
counted, qualify the referral for neither; a resubmission delayed by more than a
decision puts an approved report back to pending; a restart after an accepted
verification leaves a rewarded report pending, which no later approval can change as
the contract refuses.  The invariants carry these as their conditions (`overlapped`,
`lost`, `unaudited`), and with them the appeals granted without credentials (`unbacked`).  In `EscrowTimeouts` the unconditional `UPDATE` after a reminder
can overtake an activity (`overtaken`), and a crash between an accepted reclaim and its
`UPDATE` leaves a row active that the contract refuses from then on.

## 5. Proofs

`tlapm` checks, for every number of proposals, voters, accounts, assets and
strategies, jurors and escrows, every amount and every parameter that the setters
accept (`ConfigAssumption`, `TokenAssumption`, and the escrow's and the
arbitration's assumptions on their constants):

- `ScholarshipTreasuryProofs`, about `Spec`: `TypeCorrect`, `BooksCorrect`,
  `PauseCorrect`, `PaidOnceCorrect`, `TallyCorrect`, `LifecycleCorrect`.  Books and pause follow
  from one fact about every step, `FundsStep` (the change of `idle` is the change
  of `held[Usdc]`, and it is not negative while paused).  `PaidOnce` and
  `TallyFrozen` need `PipelineInv`: an id not handed out holds nothing, a stored
  status implies a passed deadline (hence no vote can follow), and a payment
  implies the executed flag, which survives every later finalization.
  `LifecycleCorrect` maps every call to a step of `GrantLifecycle` or a stutter; it
  rests on `PipelineInv` again.
  The others assume the rules of the table in section 3, each no more than it needs.
  The sum over approved proposals changes by one member at a time (`OwedJoins`,
  `OwedLeaves`).  With timely cancellations the difference between the counter and
  that sum (`Slack`) only ever grows, in a second finalization of an approval that was
  executed or cancelled: hence `CommitmentCoversCorrect` and `ExcessIsForever`, and
  `InvestmentCorrect`, since a guard against a counter that is too high is too strict
  and never too lax.  For the exact counter `FundingInv` adds `ExecutedIsRecorded`, that an executed
  proposal keeps the status Executed, which is what a second finalization breaks;
  `FinalityCorrect` is the promise that the run `finality` refutes for `Spec`.
  `YieldCorrect` needs that the money is at the strategy that is set and booked there
  (`AimsAtStrategy`, `StrategyBooked`), which is why the strategy is set once.
  `DisciplinedCorrect` puts the three together for the specification of `funding`.
- `GovernanceTokenProofs`: `TypeCorrect`, `SupplyCorrect`, `DelegationCorrect`,
  `PowerCorrect`, `TimelockCorrect`.  The first three are one invariant, `Booked`, kept by every
  debit and credit (`ChangeBooked`) and by a change of delegate
  (`DelegateBooked`).  `PowerCorrect` partitions the accounts by who votes with
  their tokens (`PowerIsControlled`) and by who would, if it did not delegate, and
  adds up over disjoint parts that together are all accounts (`TotalOfParts`).
  `TimelockCorrect` is the refinement of `GrantLifecycle` by the token's own proposals.
- `MilestoneEscrowProofs`: `EscrowTypeCorrect`, `EscrowFundingCorrect`,
  `TranchesCorrect`, `RulingCorrect`, `ReclaimCorrect`, `PayoutCorrect`,
  `RulingsSupposed`, from one inductive invariant, `EscrowInvariant`.  Its core is `RecordOK`, what one record
  and the payments made for it have to do with each other: that the scholar has
  `done` equal tranches is what makes the last one fit (`ReleasedRecord`), and
  that a reclaim leaves nothing is what makes a late release impossible.
  `RecordStep` lifts a step on one record to the sum over all of them.  Rulings
  are counted through the used dispute ids (`UsedFor`), because the id, not the
  contract, is what the code marks; as a contract decides a milestone once
  (`CasesApart`), these ids can be told apart by what they decided
  (`DisputesByMilestone`).  That a payable escrow is never refused is arithmetic
  (`TranchesFit`, `NextFits`): before the last tranche what is left is at least one
  of them.  `PayoutCorrect` maps each step to a step of
  `TranchePayout` or a stutter; `WatchCorrect` does so for `InactivityWatch`, for a
  window that is not empty: with an empty one an escrow is overdue as soon as it is paid from.
- `MilestoneArbitrationProofs`: `ArbitrationTypeCorrect`, `StakesCorrect`,
  `AssignmentsCorrect`, `OutcomeCorrect`, `BlindCorrect`, `FaultCorrect`,
  `OutvotedLose`, `RulingsCorrect`, from `ArbitrationInvariant`.  `StakesAreHeld` is not inductive alone: a juror that
  joins must have had nothing (`OutsidersHaveNone`), a dispute that opens must not
  have been running (`FreshIds`), and a rewarded juror must still be in the pool,
  which is `AssignmentsAreCounted`.  A resolution changes the stakes of a whole
  panel at once; `StakesMoved` adds up slashes and rewards separately, and
  `CloseBooks` is the balance of both kinds of resolution, whatever rounding does.
  `TallyOK` ties the counters to the open ballots and says that a ballot is open
  only after the commit window, which is what `BlindCorrect` needs.
  `CasesCorrect` (`DisputeByMilestone` is set once, so open disputes differ in what
  they are about) and the finality of an outcome give the refinement of
  `ReleaseRulings`.  `OutvotedLose` bounds what the run `reward` finds: an outvoted
  juror gains only when `MinoritySlashBps` of its stake rounds to nothing.
- `ScholarBalancesProofs`, for any number of ticks, scripts, addresses and events and
  any page size: `BalancesTypeCorrect`, `NeverTwiceCorrect` and
  `OverlapAloneLosesCorrect` about `Spec`, `CountedOnceCorrect` about
  `QuietSpec`, `NothingSkippedCorrect` about `Spec` under `Discipline` (the projection
  begins at a configured ledger, no replay begins beyond it, one sync can page through
  all events).  `TypeInv` adds to `TypeOK` that ids grow with ledgers (`ChainOrdered`).
  `CountInv` has the snapshot of a running rebuild equal to the journal, which is what
  `QuietSpec` buys; sums over what `Apply` adds come from `TotalUnion`.  Without it a
  snapshot is a part of the journal, so every balance is the sum of *some* of its
  events (`StandsFor`), which is `NeverTwice`.
  `ProgressInv` says of every sync, at every step, what is counted: `Knows`,
  everything before its start that the node still has; `Fetched`, everything from
  there up to its cursor; `PageKnown`, that the page it holds leaves no gap behind the cursor.  Counting
  events against pages bounds the number of pages, so the limit is never what ends
  the loop.
- `EscrowTimeoutsProofs`, for any number of proposals and overlapping passes:
  `TimeoutTypeCorrect`, `BookedCorrect`, `RemindedCorrect`, `WatchSupposed` from
  `TimeoutInvariant`.
  The two properties are not inductive: a pass that is about to write must know what
  it writes (`PassesKnow`: who is booking holds a reclaim in flight, executed or lost;
  who is marking has warned, or was overtaken), and a rest was funded (`FundedHasRest`).
- `MilestoneReviewProofs`, for any number of reports, concurrent requests, losses and
  failures: `ReviewTypeCorrect`, `AuditCorrect`, `RewardedCorrect`, `TrancheCorrect`,
  `BonusCorrect`.  They share `Shape` (where a request of a kind can be, and that it
  names no report twice) and `EachMoves` (the five ways a request gets from one step
  to the next).  `RewardInv` adds to `ApprovedIsRewarded` that a request which is about
  to write an approval has its verification on the way, unless it grants an appeal
  without credentials, when nothing but the status and the certificate can follow; it holds with overlap, because
  a verification is never taken back, and so for the tranche, certificate and bonus
  that only an approval leads to.  The tranche needs what a request still *knows*
  of a report it read several awaits ago: `KnowsInv`, true of reports it has to itself
  (`Alone`).  `TrancheInv` then says that once a release is sent nobody who has the
  report is on the way to another, and nobody can come to be (`DecidesOpen`).
  `AuditCorrect` counts: `decided` grows together with the requests that still have to
  record a decision, the log grows as one of them does, and a request that dies between
  the two makes the report `unaudited`.
  `OneCounts` is the argument for the bonus: before the first approval nobody waits to
  count; while there is one, only the request that stored it can; after the second,
  whoever counts finds two.
- `TotalsProofs`: the lemmas about sums.  A sum is the size of a set of units
  `<<member, i>>`, so that a member joining, leaving or changing is a union or
  difference of finite sets, and disjoint parts map one to one into the whole.
  The sum of two functions adds up as well (`TotalSum`), by the same argument with
  the units of the second one shifted behind those of the first.

Every safety property of a passing run is proved.  `CommitmentCovers`, `NeverTwice`,
`OverlapAloneLoses`, `ImplementsRulings`, `ImplementsWatch`, `SupposesWatch` and the action properties written out in
`ExcessIsForever` and `OutvotedLose` are proved and have no run of their own.  Only
model-checked are the liveness
properties `EveryDisputeEnds`, `EveryEventCounted` and
`InactiveIsReclaimedInTheEnd`.  Liveness, ENABLED and anything recursive are out of the
prover's reach and stay with TLC.

## 6. Not modelled

Storage expiry and archival; the width of `i128` other than the largest
commitment and supply, and with it the branch of the liquidity buffer that takes the
required floor for 0 when `committed * (10_000 + buffer_bps)` overflows
(`scholarship_treasury/src/lib.rs:1940`), so that any allocation would pass: `AboveBuffer`
and `InvestmentLeavesOwed` are about commitments below that; donor and scholar counters; the milestone count and
minimum-LRN conditions of `submit_proposal` (they only refuse calls);
`ParameterChange` proposals, whose effect is that of `SetVotingParams`; rotation
of administrators; contract upgrades; events and their wording; the weights of
the draw of jurors.  The escrow's and the arbitration's token transfers are taken
to succeed when the balance covers them: with `learn_token`, which refuses every
transfer, `join_panel` and `open_dispute` would fail, and the model is that of a
transferable LRN.

Of the server: the generic event indexer, whose `INSERT` into `escrows` names a
conflict target (`proposal_id`) that is not unique in any migration, so that PostgreSQL
refuses it; what follows it in the code never happens with this schema.
Authentication, uploads, mail, search, caching and the other routes are single
statements or remote calls.  `course_milestone` is modelled as far as the server uses
it: `oracle_verify_milestone`, `complete_milestone`, `resolve_appeal` and the contract's
own batches, added beside the server's requests, multiply the states of `review` past
what TLC finishes at the four requests that two racing approvals take.  `learn_token`
appears as the source of its events.  `strategy_lending`, `lrn_staking`,
`scholarship_claim` and `upgrade_timelock_vault` are not modelled: the first appears as
the treasury's adapter, the others are one record with one boundary each.  The frontend
renders; its offline queue resends what the server's handlers have to cope with.
PROJECT.json says so component by component.
