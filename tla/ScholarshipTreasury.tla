------------------------ MODULE ScholarshipTreasury ------------------------
(***************************************************************************)
(* contracts/scholarship_treasury: donors deposit stablecoins, scholars    *)
(* submit proposals, GOV holders vote, the admin finalizes, and after a    *)
(* timelock anyone executes.  Idle USDC may be invested through a strategy *)
(* adapter; the commitment counter and the liquidity buffer must keep an   *)
(* investment from blocking an approved scholarship.                       *)
(*                                                                         *)
(* Every contract call is one ledger transaction, so every handler is one  *)
(* atomic action; a call that panics rolls back and is no step.            *)
(***************************************************************************)
EXTENDS Integers, FiniteSets, Totals

CONSTANTS
  MaxProposals,    \* bound: proposals ever submitted
  MaxLedger,       \* bound: last ledger sequence explored
  MaxFunds,        \* bound: units of an asset the environment brings into play
  MaxGains,        \* bound: units of interest the adapters credit
  MaxCommitted,    \* the largest value of the commitment counter (i128::MAX)
  Kinds,           \* kinds of proposal submitted in this instance
  Voters,          \* addresses that vote and object
  Weights,         \* answers of the token's get_voting_power
  Admin,           \* the stored admin address
  Usdc,            \* the primary asset
  Assets,          \* every token address someone may deposit
  Strategies,      \* adapter addresses the admin may register
  NoStrategy,      \* STRATEGY_KEY absent
  Amounts,         \* amounts of deposits and proposals
  DirectAmounts,   \* amounts the governance contract disburses directly
  InitialParams,   \* parameters in force after initialize and configuration
  Quorums, ApprovalBps, VotingPeriods, TimelockDelays, AllocationBps, BufferBps

BPS == 10000
GovPerUsdc == 100

Proposals == 1 .. MaxProposals

Params ==
  [quorum: Nat, approvalBps: 0 .. BPS, votingPeriod: Nat \ {0},
   timelock: Nat \ {0}, maxAllocBps: 0 .. BPS, bufferBps: 0 .. BPS]

\* What initialize and the admin setters accept, and nothing more.
ASSUME ConfigAssumption ==
  /\ MaxProposals \in Nat /\ MaxLedger \in Nat /\ MaxFunds \in Nat
  /\ MaxGains \in Nat /\ MaxCommitted \in Nat
  /\ Kinds \subseteq {"Disbursement", "Allocation", "Deallocation"}
  /\ Usdc \in Assets
  /\ NoStrategy \notin Strategies
  /\ Weights \subseteq Nat
  /\ Amounts \subseteq Nat \ {0} /\ DirectAmounts \subseteq Nat \ {0}
  /\ InitialParams \in Params
  /\ Quorums \subseteq Nat /\ ApprovalBps \subseteq 0 .. BPS
  /\ VotingPeriods \subseteq Nat \ {0} /\ TimelockDelays \subseteq Nat \ {0}
  /\ AllocationBps \subseteq 0 .. BPS /\ BufferBps \subseteq 0 .. BPS

VARIABLES
  now,         \* ledger sequence
  paused,      \* PAUSED
  params,      \* QUORUM, APPBPS, VOTEPRD, TLOCK, MAXALOC, BUFBPS
  supported,   \* ASSETS
  registered,  \* STRATGY
  nextId,      \* NEXTPROP
  proposals,   \* Proposal(id)
  finalized,   \* FinalizedProposal(id), "None" when absent
  voteCast,    \* VoteCast(id, voter)
  vetoCast,    \* VetoCast(id, voter)
  idle,        \* TOTAL: the disbursable USDC balance
  disbursed,   \* DISBURSED
  committed,   \* CMTMEU: the approved-but-unpaid counter
  totalGov,    \* TOTALGOV
  principal,   \* ALLOCP
  yield,       \* ALLOCY
  totalYield,  \* YLDACC
  held,        \* external: token balances of the treasury's address
  worth,       \* external: balance_of each strategy adapter
  gains,       \* external: interest all adapters ever credited
  paid         \* external: USDC transferred to the applicant of each proposal

ledgerVars == <<nextId, proposals, finalized, voteCast, vetoCast>>
configVars == <<paused, params, supported, registered>>
bookVars   == <<idle, disbursed, committed, totalGov, principal, yield, totalYield>>
externVars == <<held, worth, gains, paid>>
vars == <<now, ledgerVars, configVars, bookVars, externVars>>

Proposal ==
  [kind: {"None", "Disbursement", "Allocation", "Deallocation"},
   amount: Nat, strategy: Strategies \cup {NoStrategy},
   yes: Nat, no: Nat, veto: Nat, deadline: Nat, queuedAt: Nat,
   executed: BOOLEAN, cancelled: BOOLEAN]

NoProposal ==
  [kind |-> "None", amount |-> 0, strategy |-> NoStrategy, yes |-> 0, no |-> 0,
   veto |-> 0, deadline |-> 0, queuedAt |-> 0, executed |-> FALSE, cancelled |-> FALSE]

Min2(a, b) == IF a < b THEN a ELSE b

\* i128 division truncates toward zero; \div rounds down.
TruncDiv(a, b) == IF a >= 0 THEN a \div b ELSE -((-a) \div b)

-----------------------------------------------------------------------------

Init ==
  /\ now = 0 /\ paused = FALSE /\ params = InitialParams
  /\ supported = {Usdc} /\ registered = NoStrategy
  /\ nextId = 1
  /\ proposals = [p \in Proposals |-> NoProposal]
  /\ finalized = [p \in Proposals |-> "None"]
  /\ voteCast = {} /\ vetoCast = {}
  /\ idle = 0 /\ disbursed = 0 /\ committed = 0 /\ totalGov = 0
  /\ principal = 0 /\ yield = 0 /\ totalYield = 0
  /\ held = [a \in Assets |-> 0]
  /\ worth = [s \in Strategies |-> 0]
  /\ gains = 0
  /\ paid = [p \in Proposals |-> 0]

Submitted == 1 .. nextId - 1

\* strategy_total: what the registered adapter reports, 0 without one.
StrategyTotal == IF registered = NoStrategy THEN 0 ELSE worth[registered]

\* The tally rule shared by finalize_proposal, execute_proposal and
\* proposal_status, always under the parameters in force now.
Passed(p) ==
  LET total == proposals[p].yes + proposals[p].no
  IN  /\ total >= params.quorum
      /\ total > 0
      /\ (proposals[p].yes * BPS) \div total > params.approvalBps

\* proposal_status: the status reported to readers, and used by cancel_proposal.
PublicStatus(p) ==
  CASE proposals[p].cancelled -> "Rejected"
    [] ~proposals[p].cancelled /\ finalized[p] # "None" -> finalized[p]
    [] ~proposals[p].cancelled /\ finalized[p] = "None"
         /\ now <= proposals[p].deadline -> "Pending"
    [] OTHER -> IF Passed(p) THEN "Queued" ELSE "Rejected"

\* Mutant of Commitment: counts proposals of every kind.
CommitmentAnyKind(p) == proposals[p].amount

\* commit_proposal and release_commitment count disbursements only.
Commitment(p) ==
  IF proposals[p].kind = "Disbursement" THEN proposals[p].amount ELSE 0

\* What the environment still may bring in: the bound MaxFunds.
FundsRoom(amount, a) ==
  /\ held[a] + amount <= MaxFunds
  /\ idle + disbursed + principal + amount <= MaxFunds

-----------------------------------------------------------------------------
(* Administration *)

Pause   == paused' = TRUE  /\ UNCHANGED <<params, supported, registered>>
Unpause == paused' = FALSE /\ UNCHANGED <<params, supported, registered>>

\* set_quorum, set_approval_bps, set_voting_period, set_timelock_delay: nothing
\* is said about proposals already voted on or queued under the old values.
SetVotingParams ==
  \/ \E q \in Quorums        : params' = [params EXCEPT !.quorum = q]
  \/ \E b \in ApprovalBps    : params' = [params EXCEPT !.approvalBps = b]
  \/ \E n \in VotingPeriods  : params' = [params EXCEPT !.votingPeriod = n]
  \/ \E n \in TimelockDelays : params' = [params EXCEPT !.timelock = n]

\* set_max_allocation_bps, set_liquidity_buffer_bps.
SetStrategyLimits ==
  \/ \E b \in AllocationBps : params' = [params EXCEPT !.maxAllocBps = b]
  \/ \E b \in BufferBps     : params' = [params EXCEPT !.bufferBps = b]

SetParams ==
  (SetVotingParams \/ SetStrategyLimits) /\ UNCHANGED <<paused, supported, registered>>

AddSupportedAsset(a) ==
  supported' = supported \cup {a} /\ UNCHANGED <<paused, params, registered>>

SetStrategy(s) ==
  /\ registered' = s
  /\ UNCHANGED <<paused, params, supported>>
  /\ UNCHANGED <<now, ledgerVars, bookVars, externVars>>

Administer ==
  /\ Pause \/ Unpause \/ SetParams \/ \E a \in Assets : AddSupportedAsset(a)
  /\ UNCHANGED <<now, ledgerVars, bookVars, externVars>>

-----------------------------------------------------------------------------
(* Deposits and direct disbursement *)

Deposit(amount, a) ==
  /\ ~paused /\ a \in supported
  /\ FundsRoom(amount, a)
  /\ held' = [held EXCEPT ![a] = @ + amount]
  /\ totalGov' = totalGov + amount * GovPerUsdc
  /\ idle' = IF a = Usdc THEN idle + amount ELSE idle
  /\ UNCHANGED <<disbursed, committed, principal, yield, totalYield>>
  /\ UNCHANGED <<now, ledgerVars, configVars, worth, gains, paid>>

\* disburse: authorised by the governance contract; looks at idle only.
Disburse(amount) ==
  /\ ~paused
  /\ amount <= idle
  /\ idle' = idle - amount
  /\ disbursed' = disbursed + amount
  /\ held' = [held EXCEPT ![Usdc] = @ - amount]
  /\ UNCHANGED <<committed, totalGov, principal, yield, totalYield>>
  /\ UNCHANGED <<now, ledgerVars, configVars, worth, gains, paid>>

-----------------------------------------------------------------------------
(* Proposals and votes *)

\* submit_proposal, submit_allocation_proposal, submit_deallocation_proposal.
\* The milestone-count and minimum-LRN checks only decide whether the call is
\* accepted; any accepted call is a step here.
Submit(kind, amount, s) ==
  /\ ~paused /\ nextId <= MaxProposals
  /\ (kind = "Disbursement") <=> (s = NoStrategy)
  /\ proposals' = [proposals EXCEPT ![nextId] =
       [NoProposal EXCEPT !.kind = kind, !.amount = amount, !.strategy = s,
                          !.deadline = now + params.votingPeriod]]
  /\ nextId' = nextId + 1
  /\ UNCHANGED <<finalized, voteCast, vetoCast>>
  /\ UNCHANGED <<now, configVars, bookVars, externVars>>

\* Mutant of Vote: one ledger too long.
VoteLate(v, p, support, weight) ==
  /\ ~paused
  /\ ~proposals[p].cancelled /\ ~proposals[p].executed
  /\ now <= proposals[p].deadline + 1
  /\ <<p, v>> \notin voteCast
  /\ proposals' = IF support
       THEN [proposals EXCEPT ![p].yes = @ + weight]
       ELSE [proposals EXCEPT ![p].no  = @ + weight]
  /\ voteCast' = voteCast \cup {<<p, v>>}
  /\ UNCHANGED <<nextId, finalized, vetoCast>>
  /\ UNCHANGED <<now, configVars, bookVars, externVars>>

Vote(v, p, support, weight) ==
  /\ ~paused
  /\ ~proposals[p].cancelled /\ ~proposals[p].executed
  /\ now <= proposals[p].deadline
  /\ <<p, v>> \notin voteCast
  /\ proposals' = IF support
       THEN [proposals EXCEPT ![p].yes = @ + weight]
       ELSE [proposals EXCEPT ![p].no  = @ + weight]
  /\ voteCast' = voteCast \cup {<<p, v>>}
  /\ UNCHANGED <<nextId, finalized, vetoCast>>
  /\ UNCHANGED <<now, configVars, bookVars, externVars>>

\* finalize_proposal looks at the deadline and the tally, and at the previous
\* FinalizedProposal only to decide whether to commit.
FinalizeQueued(p) ==
  /\ now > proposals[p].deadline /\ Passed(p)
  /\ proposals' = [proposals EXCEPT ![p].queuedAt = now]
  /\ finalized' = [finalized EXCEPT ![p] = "Queued"]
  /\ committed' = IF finalized[p] = "Queued" THEN committed
                                             ELSE committed + Commitment(p)
  /\ committed' <= MaxCommitted
  /\ UNCHANGED <<nextId, voteCast, vetoCast>>
  /\ UNCHANGED <<now, configVars, externVars>>
  /\ UNCHANGED <<idle, disbursed, totalGov, principal, yield, totalYield>>

FinalizeRejected(p) ==
  /\ now > proposals[p].deadline /\ ~Passed(p)
  /\ finalized' = [finalized EXCEPT ![p] = "Rejected"]
  /\ UNCHANGED <<nextId, proposals, voteCast, vetoCast>>
  /\ UNCHANGED <<now, configVars, bookVars, externVars>>

Finalize(p) == FinalizeQueued(p) \/ FinalizeRejected(p)

ObjectTo(v, p, weight) ==
  /\ ~paused
  /\ ~proposals[p].cancelled /\ ~proposals[p].executed
  /\ finalized[p] = "Queued"
  /\ <<p, v>> \notin vetoCast
  /\ proposals' = [proposals EXCEPT ![p].veto = @ + weight]
  /\ vetoCast' = vetoCast \cup {<<p, v>>}
  /\ UNCHANGED <<nextId, finalized, voteCast>>
  /\ UNCHANGED <<now, configVars, bookVars, externVars>>

SupermajorityMet(p) ==
  totalGov > 0 /\ proposals[p].veto >= (totalGov * 2) \div 3

Veto(caller, p) ==
  /\ ~proposals[p].cancelled /\ ~proposals[p].executed
  /\ finalized[p] = "Queued"
  /\ caller = Admin \/ SupermajorityMet(p)
  /\ committed' = committed - Commitment(p)
  /\ finalized' = [finalized EXCEPT ![p] = "Rejected"]
  /\ UNCHANGED <<nextId, proposals, voteCast, vetoCast>>
  /\ UNCHANGED <<now, configVars, externVars>>
  /\ UNCHANGED <<idle, disbursed, totalGov, principal, yield, totalYield>>

Cancel(p) ==
  /\ ~proposals[p].executed
  /\ PublicStatus(p) \notin {"Rejected", "Executed"}
  /\ proposals' = [proposals EXCEPT ![p].cancelled = TRUE]
  /\ committed' = IF PublicStatus(p) = "Queued" THEN committed - Commitment(p)
                                                ELSE committed
  /\ UNCHANGED <<nextId, finalized, voteCast, vetoCast>>
  /\ UNCHANGED <<now, configVars, externVars>>
  /\ UNCHANGED <<idle, disbursed, totalGov, principal, yield, totalYield>>

-----------------------------------------------------------------------------
(* Execution *)

\* Mutants of CanExecute: the executed flag, the timelock, the pause ignored.
CanExecuteAgain(p) ==
  /\ ~paused /\ ~proposals[p].cancelled /\ finalized[p] = "Queued"
  /\ now >= proposals[p].queuedAt + params.timelock

CanExecuteAtOnce(p) ==
  /\ ~paused /\ ~proposals[p].cancelled /\ ~proposals[p].executed
  /\ finalized[p] = "Queued"
  /\ now >= proposals[p].queuedAt

CanExecutePaused(p) ==
  /\ ~proposals[p].cancelled /\ ~proposals[p].executed
  /\ finalized[p] = "Queued"
  /\ now >= proposals[p].queuedAt + params.timelock

CanExecute(p) ==
  /\ ~paused
  /\ ~proposals[p].cancelled /\ ~proposals[p].executed
  /\ finalized[p] = "Queued"
  /\ now >= proposals[p].queuedAt + params.timelock

MarkExecuted(p) ==
  /\ proposals' = [proposals EXCEPT ![p].executed = TRUE]
  /\ finalized' = [finalized EXCEPT ![p] = "Executed"]
  /\ UNCHANGED <<nextId, voteCast, vetoCast>>
  /\ UNCHANGED <<now, configVars>>

\* disburse_internal, then release_commitment.
ExecuteDisbursement(p) ==
  LET amount == proposals[p].amount IN
  /\ CanExecute(p) /\ Passed(p) /\ proposals[p].kind = "Disbursement"
  /\ amount <= idle
  /\ idle' = idle - amount
  /\ disbursed' = disbursed + amount
  /\ committed' = committed - Commitment(p)
  /\ held' = [held EXCEPT ![Usdc] = @ - amount]
  /\ paid' = [paid EXCEPT ![p] = @ + amount]
  /\ MarkExecuted(p)
  /\ UNCHANGED <<totalGov, principal, yield, totalYield, worth, gains>>

\* The parameters moved between finalization and execution: nothing is paid,
\* the commitment is still released.
ExecuteFailed(p) ==
  /\ CanExecute(p) /\ ~Passed(p)
  /\ committed' = committed - Commitment(p)
  /\ MarkExecuted(p)
  /\ UNCHANGED externVars
  /\ UNCHANGED <<idle, disbursed, totalGov, principal, yield, totalYield>>

\* Mutants of TakeBack: principal written down by everything returned, and
\* returned funds not credited to idle.
TakeBackFromPrincipal(returned) ==
  /\ held' = [held EXCEPT ![Usdc] = @ + returned]
  /\ worth' = [worth EXCEPT ![registered] = @ - returned]
  /\ idle' = idle + returned
  /\ principal' = principal - returned
  /\ yield' = yield
  /\ UNCHANGED <<disbursed, totalGov, gains, paid>>

TakeBackUncredited(returned) ==
  LET remaining == StrategyTotal - returned IN
  /\ held' = [held EXCEPT ![Usdc] = @ + returned]
  /\ worth' = [worth EXCEPT ![registered] = remaining]
  /\ principal' = Min2(remaining, principal)
  /\ yield' = remaining - principal'
  /\ UNCHANGED <<idle, disbursed, totalGov, gains, paid>>

\* apply_strategy_returns, with the adapter's transfer of `returned`.
TakeBack(returned) ==
  LET remaining == StrategyTotal - returned IN
  /\ held' = [held EXCEPT ![Usdc] = @ + returned]
  /\ worth' = [worth EXCEPT ![registered] = remaining]
  /\ idle' = idle + returned
  /\ principal' = Min2(remaining, principal)
  /\ yield' = remaining - principal'
  /\ UNCHANGED <<disbursed, totalGov, gains, paid>>

UnderCap(amount) ==
  StrategyTotal + amount
    <= ((idle + StrategyTotal) * params.maxAllocBps) \div BPS

\* Mutant of AboveBuffer: the commitment is not looked at.
AboveZero(amount) == idle - amount >= 0

AboveBuffer(amount) ==
  idle - amount >= TruncDiv(committed * (BPS + params.bufferBps), BPS)

\* allocate_internal
ExecuteAllocation(p) ==
  LET amount == proposals[p].amount IN
  /\ CanExecute(p) /\ Passed(p) /\ proposals[p].kind = "Allocation"
  /\ registered = proposals[p].strategy
  /\ amount <= idle
  /\ UnderCap(amount) /\ AboveBuffer(amount)
  /\ held' = [held EXCEPT ![Usdc] = @ - amount]
  /\ worth' = [worth EXCEPT ![registered] = @ + amount]
  /\ principal' = principal + amount
  /\ idle' = idle - amount
  /\ MarkExecuted(p)
  /\ UNCHANGED <<disbursed, committed, totalGov, yield, totalYield, gains, paid>>

\* deallocate_internal: the adapter may return less than it was asked for.
ExecuteDeallocation(p) ==
  /\ CanExecute(p) /\ Passed(p) /\ proposals[p].kind = "Deallocation"
  /\ registered = proposals[p].strategy
  /\ proposals[p].amount <= StrategyTotal
  /\ \E returned \in 0 .. proposals[p].amount : TakeBack(returned)
  /\ MarkExecuted(p)
  /\ UNCHANGED <<committed, totalYield>>

Execute(p) ==
  \/ ExecuteDisbursement(p) \/ ExecuteFailed(p)
  \/ ExecuteAllocation(p)   \/ ExecuteDeallocation(p)

-----------------------------------------------------------------------------
(* Strategy returns outside the proposal pipeline; neither checks the pause *)

\* Mutant of Harvest: asks for everything, not for the surplus.
HarvestAll ==
  /\ registered # NoStrategy
  /\ StrategyTotal > principal
  /\ \E returned \in 0 .. StrategyTotal :
       /\ TakeBack(returned)
       /\ totalYield' = totalYield + returned
  /\ UNCHANGED <<now, ledgerVars, configVars, committed>>

Harvest ==
  /\ registered # NoStrategy
  /\ StrategyTotal > principal
  /\ \E returned \in 0 .. StrategyTotal - principal :
       /\ TakeBack(returned)
       /\ totalYield' = totalYield + returned
  /\ UNCHANGED <<now, ledgerVars, configVars, committed>>

EmergencyWithdraw(s) ==
  /\ registered = s
  /\ \E returned \in 0 .. StrategyTotal : TakeBack(returned)
  /\ UNCHANGED <<now, ledgerVars, configVars, committed, totalYield>>

-----------------------------------------------------------------------------
(* The environment: ledgers close, strategies earn and lose *)

Tick ==
  /\ now < MaxLedger
  /\ now' = now + 1
  /\ UNCHANGED <<ledgerVars, configVars, bookVars, externVars>>

StrategyGain(s) ==
  /\ worth[s] > 0 /\ gains < MaxGains
  /\ worth' = [worth EXCEPT ![s] = @ + 1]
  /\ gains' = gains + 1
  /\ UNCHANGED <<now, ledgerVars, configVars, bookVars, held, paid>>

StrategyLoss(s) ==
  /\ worth[s] > 0
  /\ worth' = [worth EXCEPT ![s] = @ - 1]
  /\ UNCHANGED <<now, ledgerVars, configVars, bookVars, held, gains, paid>>

-----------------------------------------------------------------------------

Common ==
  \/ Tick \/ Administer \/ Harvest
  \/ \E amount \in Amounts, a \in Assets : Deposit(amount, a)
  \/ \E amount \in DirectAmounts : Disburse(amount)
  \/ \E kind \in Kinds, amount \in Amounts, s \in Strategies \cup {NoStrategy} :
       Submit(kind, amount, s)
  \/ \E v \in Voters, p \in Submitted, support \in BOOLEAN, weight \in Weights :
       Vote(v, p, support, weight)
  \/ \E v \in Voters, p \in Submitted, weight \in Weights : ObjectTo(v, p, weight)
  \/ \E caller \in Voters \cup {Admin}, p \in Submitted : Veto(caller, p)
  \/ \E p \in Submitted : Execute(p)
  \/ \E s \in Strategies : EmergencyWithdraw(s) \/ StrategyGain(s) \/ StrategyLoss(s)

Next ==
  \/ Common
  \/ \E p \in Submitted : Finalize(p) \/ Cancel(p)
  \/ \E s \in Strategies : SetStrategy(s)

Spec == Init /\ [][Next]_vars

-----------------------------------------------------------------------------
(* The operating discipline the comments take for granted: a proposal is     *)
(* finalized once and not after a cancellation, it is cancelled while voting *)
(* is open or once it is queued, and the strategy is chosen once.  The       *)
(* contract enforces none of it.                                             *)

FirstFinalize(p) ==
  finalized[p] = "None" /\ ~proposals[p].cancelled /\ Finalize(p)

TimelyCancel(p) ==
  (finalized[p] = "Queued" \/ now <= proposals[p].deadline) /\ Cancel(p)

FirstStrategy(s) == registered = NoStrategy /\ SetStrategy(s)

\* Each promise below needs only some of these rules: the counter is never too
\* low when cancellations are timely, it is exact when a proposal is also
\* finalized once, and the yield needs no more than one strategy.
TimelyNext ==
  \/ Common
  \/ \E p \in Submitted : Finalize(p) \/ TimelyCancel(p)
  \/ \E s \in Strategies : SetStrategy(s)

FinalizedOnceNext ==
  \/ Common
  \/ \E p \in Submitted : FirstFinalize(p) \/ TimelyCancel(p)
  \/ \E s \in Strategies : SetStrategy(s)

OneStrategyNext ==
  \/ Common
  \/ \E p \in Submitted : Finalize(p) \/ Cancel(p)
  \/ \E s \in Strategies : FirstStrategy(s)

TimelySpec == Init /\ [][TimelyNext]_vars
FinalizedOnceSpec == Init /\ [][FinalizedOnceNext]_vars
OneStrategySpec == Init /\ [][OneStrategyNext]_vars

DisciplinedNext ==
  \/ Common
  \/ \E p \in Submitted : FirstFinalize(p) \/ TimelyCancel(p)
  \/ \E s \in Strategies : FirstStrategy(s)

DisciplinedSpec == Init /\ [][DisciplinedNext]_vars

-----------------------------------------------------------------------------
(* Properties *)

\* Every variable holds a value of the type its storage key has in the code;
\* idle, principal and yield never go negative although they are i128, while
\* the commitment counter really may.
TypeOK ==
  /\ now \in Nat /\ paused \in BOOLEAN /\ params \in Params
  /\ supported \subseteq Assets
  /\ registered \in Strategies \cup {NoStrategy}
  /\ nextId \in 1 .. MaxProposals + 1
  /\ proposals \in [Proposals -> Proposal]
  /\ finalized \in [Proposals -> {"None", "Queued", "Rejected", "Executed"}]
  /\ voteCast \subseteq Proposals \X Voters /\ vetoCast \subseteq Proposals \X Voters
  /\ idle \in Nat /\ disbursed \in Nat /\ committed \in Int /\ totalGov \in Nat
  /\ principal \in Nat /\ yield \in Nat /\ totalYield \in Nat
  /\ held \in [Assets -> Int] /\ worth \in [Strategies -> Nat]
  /\ gains \in Nat /\ paid \in [Proposals -> Nat]

\* The treasury's own book (TOTAL) always equals the USDC its address holds:
\* no path of deposit, payout, investment or return forgets one side, and
\* deposits of other assets never become disbursable.
BooksMatchTokens == idle = held[Usdc]

\* An applicant receives a proposal's amount at most once, only through an
\* execution, and never for a cancelled one, whatever finalize_proposal,
\* veto_proposal and cancel_proposal did to the proposal before or after.
PaidOnce ==
  \A p \in Proposals :
    /\ paid[p] \in {0, proposals[p].amount}
    /\ paid[p] > 0 =>
         /\ proposals[p].executed /\ ~proposals[p].cancelled
         /\ proposals[p].kind = "Disbursement"

\* A tally that a finalization has read never changes afterwards: vote and
\* finalize_proposal split the ledgers at the deadline without overlap.
TallyFrozen ==
  [][\A p \in Proposals : finalized[p] # "None" =>
       /\ proposals'[p].yes = proposals[p].yes
       /\ proposals'[p].no = proposals[p].no]_vars

\* While the contract is paused no USDC leaves the treasury's address; the
\* calls that ignore the pause only bring funds back or move no funds.
PausedKeepsFunds == [][paused => held'[Usdc] >= held[Usdc]]_vars

\* The inductive invariant behind PaidOnce and TallyFrozen: an id not handed out
\* holds nothing, a stored status implies a passed deadline, and a payment
\* implies the executed flag, which cancel_proposal respects.
PipelineInv ==
  \A p \in Proposals :
    /\ p >= nextId => proposals[p] = NoProposal /\ finalized[p] = "None" /\ paid[p] = 0
    /\ finalized[p] # "None" => now > proposals[p].deadline
    /\ paid[p] \in {0, proposals[p].amount}
    /\ paid[p] > 0 =>
         /\ proposals[p].executed /\ ~proposals[p].cancelled
         /\ proposals[p].kind = "Disbursement"

\* The disbursement proposals that are approved and not yet paid, cancelled
\* or vetoed, and what they add up to.
Unpaid(p) ==
  finalized[p] = "Queued" /\ ~proposals[p].cancelled /\ ~proposals[p].executed

OwedProposals == {p \in Proposals : Unpaid(p) /\ proposals[p].kind = "Disbursement"}

Owed == Total([p \in Proposals |-> proposals[p].amount], OwedProposals)

\* The running counter CMTMEU is the sum of the approved-but-unpaid
\* disbursements (comment of approved_unpaid_total).
CommittedIsOwed == committed = Owed

\* The counter is never below that sum: an investment may be refused too often,
\* and never too seldom.
CommitmentCovers == committed >= Owed

\* Investing never takes money that an approved scholarship waits for: after
\* an allocation, idle still covers every approved-but-unpaid disbursement.
InvestmentLeavesOwed == [][principal' > principal => idle' >= Owed']_vars

\* What the treasury reports as yield was earned: harvested yield plus the
\* unrealised surplus of the strategy never exceeds the interest credited.
YieldWasEarned ==
  totalYield + (IF StrategyTotal > principal THEN StrategyTotal - principal ELSE 0)
    <= gains

\* The stage of a proposal as the abstract pipeline sees it.  The executed and
\* cancelled flags win over FinalizedProposal, which a later finalize_proposal
\* may overwrite.
StageOf(p) ==
  CASE p >= nextId -> "absent"
    [] p < nextId /\ proposals[p].executed -> "settled"
    [] p < nextId /\ ~proposals[p].executed /\ proposals[p].cancelled -> "cancelled"
    [] p < nextId /\ Unpaid(p) -> "approved"
    [] OTHER -> "open"

Lifecycle == INSTANCE GrantLifecycle WITH
  Grants <- Proposals,
  clock  <- now,
  stage  <- [p \in Proposals |-> StageOf(p)],
  since  <- [p \in Proposals |->
              IF StageOf(p) = "approved" THEN proposals[p].queuedAt ELSE 0]

\* The pipeline implements GrantLifecycle: no payout or investment without an
\* approval in an earlier ledger, and executed and cancelled are absorbing.
ImplementsLifecycle == Lifecycle!Spec

\* FinalizedProposal is a final status: once Rejected or Executed it stays so.
FinalStatusIsFinal ==
  [][\A p \in Proposals :
       finalized[p] \in {"Rejected", "Executed"} => finalized'[p] = finalized[p]]_vars
=============================================================================
