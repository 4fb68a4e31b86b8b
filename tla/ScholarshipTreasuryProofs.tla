--------------------- MODULE ScholarshipTreasuryProofs ---------------------
(***************************************************************************)
(* Theorems about ScholarshipTreasury, for every number of proposals,      *)
(* voters and strategies, every amount and every parameter.                *)
(***************************************************************************)
EXTENDS ScholarshipTreasury, TotalsProofs

\* The record of an id not yet handed out is a proposal record.
LEMMA NoProposalType == NoProposal \in Proposal
BY DEF NoProposal, Proposal

\* Ids handed out by submit_proposal stay within the bound.
LEMMA SubmittedProposals == TypeOK => Submitted \subseteq Proposals
BY ConfigAssumption DEF TypeOK, Submitted, Proposals

\* What apply_strategy_returns leaves behind is well typed whenever the
\* adapter returns no more than it reports.
LEMMA TakeBackType ==
  ASSUME TypeOK, NEW returned \in Nat, returned <= StrategyTotal, TakeBack(returned)
  PROVE  /\ idle' \in Nat /\ principal' \in Nat /\ yield' \in Nat
         /\ held' \in [Assets -> Int] /\ worth' \in [Strategies -> Nat]
         /\ disbursed' \in Nat /\ totalGov' \in Nat
         /\ gains' \in Nat /\ paid' \in [Proposals -> Nat]
<1>1. StrategyTotal \in Nat
  BY DEF TypeOK, StrategyTotal
<1>2. StrategyTotal - returned \in Nat
  BY <1>1
<1>3. worth' \in [Strategies -> Nat]
  BY <1>2 DEF TypeOK, TakeBack
<1>4. principal' \in Nat /\ yield' \in Nat
  BY <1>2 DEF TypeOK, TakeBack, Min2
<1>5. held' \in [Assets -> Int]
  BY ConfigAssumption DEF TypeOK, TakeBack
<1>6. QED
  BY <1>3, <1>4, <1>5 DEF TypeOK, TakeBack

\* Marking a proposal executed keeps the pipeline well typed.
LEMMA MarkExecutedType ==
  ASSUME TypeOK, NEW p \in Proposals, MarkExecuted(p)
  PROVE  /\ now' \in Nat /\ paused' \in BOOLEAN /\ params' \in Params
         /\ supported' \subseteq Assets
         /\ registered' \in Strategies \cup {NoStrategy}
         /\ nextId' \in 1 .. MaxProposals + 1
         /\ proposals' \in [Proposals -> Proposal]
         /\ finalized' \in [Proposals -> {"None", "Queued", "Rejected", "Executed"}]
         /\ voteCast' \subseteq Proposals \X Voters
         /\ vetoCast' \subseteq Proposals \X Voters
<1>1. proposals' \in [Proposals -> Proposal]
  <2>1. proposals[p] \in Proposal
    BY DEF TypeOK
  <2>2. [proposals[p] EXCEPT !.executed = TRUE] \in Proposal
    BY <2>1 DEF Proposal
  <2>3. QED
    BY <2>2 DEF TypeOK, MarkExecuted
<1>2. finalized' \in [Proposals -> {"None", "Queued", "Rejected", "Executed"}]
  BY DEF TypeOK, MarkExecuted
<1>3. UNCHANGED <<now, configVars, nextId, voteCast, vetoCast>>
  BY DEF MarkExecuted
<1>4. QED
  BY <1>1, <1>2, <1>3 DEF TypeOK, configVars

\* One step of the common part keeps every variable in its type.
LEMMA CommonType == TypeOK /\ Common => TypeOK'
<1> SUFFICES ASSUME TypeOK, Common PROVE TypeOK'
  OBVIOUS
<1> USE ConfigAssumption DEF ledgerVars, configVars, bookVars, externVars
<1>0. Submitted \subseteq Proposals
  BY SubmittedProposals
<1>1. CASE Tick
  BY <1>1 DEF TypeOK, Tick
<1>2. CASE Administer
  <2>1. UNCHANGED <<now, ledgerVars, bookVars, externVars>>
    BY <1>2 DEF Administer
  <2>2. CASE Pause \/ Unpause
    BY <2>1, <2>2 DEF TypeOK, Pause, Unpause
  <2>3. CASE SetParams
    <3>1. params' \in Params
      BY <2>3 DEF TypeOK, SetParams, SetVotingParams, SetStrategyLimits, Params
    <3>2. QED
      BY <2>1, <2>3, <3>1 DEF TypeOK, SetParams
  <2>4. CASE \E a \in Assets : AddSupportedAsset(a)
    BY <2>1, <2>4 DEF TypeOK, AddSupportedAsset
  <2>5. QED
    BY <1>2, <2>2, <2>3, <2>4 DEF Administer
<1>3. CASE Harvest
  <2>1. PICK returned \in 0 .. StrategyTotal - principal :
          TakeBack(returned) /\ totalYield' = totalYield + returned
    BY <1>3 DEF Harvest
  <2>2. StrategyTotal \in Nat /\ principal \in Nat
    BY DEF TypeOK, StrategyTotal
  <2>3. returned \in Nat /\ returned <= StrategyTotal
    BY <2>2
  <2>4. QED
    BY <1>3, <2>1, <2>3, TakeBackType DEF TypeOK, Harvest
<1>4. CASE \E amount \in Amounts, a \in Assets : Deposit(amount, a)
  BY <1>4 DEF TypeOK, Deposit, GovPerUsdc
<1>5. CASE \E amount \in DirectAmounts : Disburse(amount)
  BY <1>5 DEF TypeOK, Disburse
<1>6. CASE \E kind \in Kinds, amount \in Amounts, s \in Strategies \cup {NoStrategy} :
             Submit(kind, amount, s)
  <2>1. PICK kind \in Kinds, amount \in Amounts, s \in Strategies \cup {NoStrategy} :
          Submit(kind, amount, s)
    BY <1>6
  <2>2. now + params.votingPeriod \in Nat
    BY DEF TypeOK, Params
  <2>3. [NoProposal EXCEPT !.kind = kind, !.amount = amount, !.strategy = s,
                           !.deadline = now + params.votingPeriod] \in Proposal
    BY <2>2 DEF NoProposal, Proposal
  <2>4. proposals' \in [Proposals -> Proposal]
    BY <2>1, <2>3 DEF TypeOK, Submit
  <2>5. nextId' \in 1 .. MaxProposals + 1
    BY <2>1 DEF TypeOK, Submit
  <2>6. QED
    BY <2>1, <2>4, <2>5 DEF TypeOK, Submit
<1>7. CASE \E v \in Voters, p \in Submitted, support \in BOOLEAN, weight \in Weights :
             Vote(v, p, support, weight)
  <2>1. PICK v \in Voters, p \in Proposals, support \in BOOLEAN, weight \in Weights :
          Vote(v, p, support, weight)
    BY <1>0, <1>7
  <2>2. proposals[p] \in Proposal /\ weight \in Nat
    BY ConfigAssumption DEF TypeOK
  <2>3. /\ [proposals[p] EXCEPT !.yes = @ + weight] \in Proposal
        /\ [proposals[p] EXCEPT !.no = @ + weight] \in Proposal
    BY <2>2 DEF Proposal
  <2>4. proposals' \in [Proposals -> Proposal]
    BY <2>1, <2>3 DEF TypeOK, Vote
  <2>5. QED
    BY <2>1, <2>4 DEF TypeOK, Vote
<1>8. CASE \E v \in Voters, p \in Submitted, weight \in Weights : ObjectTo(v, p, weight)
  <2>1. PICK v \in Voters, p \in Proposals, weight \in Weights : ObjectTo(v, p, weight)
    BY <1>0, <1>8
  <2>2. proposals[p] \in Proposal /\ weight \in Nat
    BY ConfigAssumption DEF TypeOK
  <2>3. [proposals[p] EXCEPT !.veto = @ + weight] \in Proposal
    BY <2>2 DEF Proposal
  <2>4. proposals' \in [Proposals -> Proposal]
    BY <2>1, <2>3 DEF TypeOK, ObjectTo
  <2>5. QED
    BY <2>1, <2>4 DEF TypeOK, ObjectTo
<1>9. CASE \E caller \in Voters \cup {Admin}, p \in Submitted : Veto(caller, p)
  BY <1>0, <1>9 DEF TypeOK, Veto, Commitment, Proposal
<1>10. CASE \E p \in Submitted : Execute(p)
  <2>1. PICK p \in Proposals : Execute(p)
    BY <1>0, <1>10
  <2>2. proposals[p].amount \in Nat /\ Commitment(p) \in Nat
    BY DEF TypeOK, Proposal, Commitment
  <2>3. CASE ExecuteDisbursement(p)
    BY <2>2, <2>3, MarkExecutedType DEF TypeOK, ExecuteDisbursement
  <2>4. CASE ExecuteFailed(p)
    BY <2>2, <2>4, MarkExecutedType DEF TypeOK, ExecuteFailed
  <2>5. CASE ExecuteAllocation(p)
    <3>1. idle' \in Nat /\ principal' \in Nat
      BY <2>2, <2>5 DEF TypeOK, ExecuteAllocation
    <3>2. held' \in [Assets -> Int]
      BY <2>2, <2>5 DEF TypeOK, ExecuteAllocation
    <3>3. worth' = [worth EXCEPT ![registered] = worth[registered] + proposals[p].amount]
      BY <2>5 DEF ExecuteAllocation
    <3>4. CASE registered \in Strategies
      <4>1. worth[registered] + proposals[p].amount \in Nat
        BY <2>2, <3>4 DEF TypeOK
      <4>2. worth' \in [Strategies -> Nat]
        BY <3>3, <4>1 DEF TypeOK
      <4>3. QED
        BY <2>5, <3>1, <3>2, <4>2, MarkExecutedType DEF TypeOK, ExecuteAllocation
    <3>5. CASE registered \notin Strategies
      <4>1. worth' \in [Strategies -> Nat]
        BY <3>3, <3>5 DEF TypeOK
      <4>2. QED
        BY <2>5, <3>1, <3>2, <4>1, MarkExecutedType DEF TypeOK, ExecuteAllocation
    <3>6. QED
      BY <3>4, <3>5
  <2>6. CASE ExecuteDeallocation(p)
    <3>1. PICK returned \in 0 .. proposals[p].amount : TakeBack(returned)
      BY <2>6 DEF ExecuteDeallocation
    <3>2. StrategyTotal \in Nat /\ proposals[p].amount <= StrategyTotal
      BY <2>6 DEF TypeOK, StrategyTotal, ExecuteDeallocation
    <3>3. returned \in Nat /\ returned <= StrategyTotal
      BY <2>2, <3>2
    <3>4. QED
      BY <2>6, <3>1, <3>3, TakeBackType, MarkExecutedType DEF TypeOK, ExecuteDeallocation
  <2>7. QED
    BY <2>1, <2>3, <2>4, <2>5, <2>6 DEF Execute
<1>11. CASE \E s \in Strategies : EmergencyWithdraw(s)
  <2>1. PICK returned \in 0 .. StrategyTotal : TakeBack(returned)
    BY <1>11 DEF EmergencyWithdraw
  <2>2. returned \in Nat /\ returned <= StrategyTotal
    BY DEF TypeOK, StrategyTotal
  <2>3. QED
    BY <1>11, <2>1, <2>2, TakeBackType DEF TypeOK, EmergencyWithdraw
<1>12. CASE \E s \in Strategies : StrategyGain(s)
  BY <1>12 DEF TypeOK, StrategyGain
<1>13. CASE \E s \in Strategies : StrategyLoss(s)
  BY <1>13 DEF TypeOK, StrategyLoss
<1>14. QED
  BY <1>1, <1>2, <1>3, <1>4, <1>5, <1>6, <1>7, <1>8, <1>9, <1>10, <1>11, <1>12, <1>13
  DEF Common

\* finalize_proposal keeps every variable in its type.
LEMMA FinalizeType ==
  ASSUME TypeOK, NEW p \in Submitted, Finalize(p)
  PROVE  TypeOK'
<1> p \in Proposals
  BY SubmittedProposals
<1> USE DEF ledgerVars, configVars, bookVars, externVars
<1>1. CASE FinalizeQueued(p)
  BY <1>1 DEF TypeOK, FinalizeQueued, Commitment, Proposal
<1>2. CASE FinalizeRejected(p)
  BY <1>2 DEF TypeOK, FinalizeRejected
<1>3. QED
  BY <1>1, <1>2 DEF Finalize

\* cancel_proposal keeps every variable in its type; the counter may go negative.
LEMMA CancelType ==
  ASSUME TypeOK, NEW p \in Submitted, Cancel(p)
  PROVE  TypeOK'
<1> p \in Proposals
  BY SubmittedProposals
<1>1. proposals' \in [Proposals -> Proposal]
  <2>1. proposals' = [proposals EXCEPT ![p].cancelled = TRUE]
    BY DEF Cancel
  <2>2. proposals[p] \in Proposal
    BY DEF TypeOK
  <2>3. [proposals[p] EXCEPT !.cancelled = TRUE] \in Proposal
    BY <2>2 DEF Proposal
  <2>4. QED
    BY <2>1, <2>3 DEF TypeOK
<1>2. committed' \in Int
  BY DEF TypeOK, Cancel, Commitment, Proposal
<1>3. QED
  BY <1>1, <1>2 DEF TypeOK, Cancel, configVars, externVars

\* So does every step of the contract or its environment.
LEMMA NextType == TypeOK /\ [Next]_vars => TypeOK'
<1> SUFFICES ASSUME TypeOK, [Next]_vars PROVE TypeOK'
  OBVIOUS
<1> USE DEF ledgerVars, configVars, bookVars, externVars
<1>1. CASE Common
  BY <1>1, CommonType
<1>2. CASE \E p \in Submitted : Finalize(p) \/ Cancel(p)
  BY <1>2, FinalizeType, CancelType
<1>3. CASE \E s \in Strategies : SetStrategy(s)
  BY <1>3 DEF TypeOK, SetStrategy
<1>4. CASE UNCHANGED vars
  BY <1>4 DEF TypeOK, vars
<1>5. QED
  BY <1>1, <1>2, <1>3, <1>4 DEF Next

\* initialize leaves every storage key with a value of its type.
LEMMA InitType == Init => TypeOK
<1> SUFFICES ASSUME Init PROVE TypeOK
  OBVIOUS
<1>1. nextId \in 1 .. MaxProposals + 1
  BY ConfigAssumption DEF Init
<1>2. proposals \in [Proposals -> Proposal]
  BY NoProposalType DEF Init
<1>3. held \in [Assets -> Int] /\ worth \in [Strategies -> Nat] /\ paid \in [Proposals -> Nat]
  BY DEF Init
<1>4. QED
  BY <1>1, <1>2, <1>3, ConfigAssumption DEF Init, TypeOK

\* Type correctness: in particular idle, principal and yield never go negative,
\* in any interleaving of proposals, emergency exits and strategy losses.
THEOREM TypeCorrect == Spec => []TypeOK
BY InitType, NextType, PTL DEF Spec

-----------------------------------------------------------------------------
(* Funds *)

\* What every step does to the USDC the treasury holds and to its book.
FundsStep ==
  /\ held'[Usdc] - held[Usdc] = idle' - idle
  /\ paused => held'[Usdc] >= held[Usdc]

\* What the adapter hands back reaches both the book and the address.
LEMMA TakeBackFunds ==
  ASSUME TypeOK, NEW returned \in Nat, TakeBack(returned)
  PROVE  FundsStep
BY ConfigAssumption DEF TypeOK, TakeBack, FundsStep

\* Each of the four outcomes of execute_proposal moves book and tokens alike.
LEMMA ExecuteFunds ==
  ASSUME TypeOK, NEW p \in Proposals, Execute(p)
  PROVE  FundsStep
<1> USE ConfigAssumption DEF FundsStep, CanExecute
<1>0. proposals[p].amount \in Nat
  BY DEF TypeOK, Proposal
<1>1. CASE ExecuteDisbursement(p)
  BY <1>0, <1>1 DEF TypeOK, ExecuteDisbursement
<1>2. CASE ExecuteFailed(p)
  BY <1>2 DEF TypeOK, ExecuteFailed, externVars
<1>3. CASE ExecuteAllocation(p)
  BY <1>0, <1>3 DEF TypeOK, ExecuteAllocation
<1>4. CASE ExecuteDeallocation(p)
  BY <1>0, <1>4, TakeBackFunds DEF ExecuteDeallocation
<1>5. QED
  BY <1>1, <1>2, <1>3, <1>4 DEF Execute

\* Every step moves book and tokens alike, and none pays out while paused.
LEMMA NextFunds == TypeOK /\ [Next]_vars => FundsStep
<1> SUFFICES ASSUME TypeOK, [Next]_vars PROVE FundsStep
  OBVIOUS
<1> USE ConfigAssumption
<1>0. Submitted \subseteq Proposals
  BY SubmittedProposals
<1>1. ASSUME UNCHANGED <<held, idle>> PROVE FundsStep
  BY <1>1 DEF TypeOK, FundsStep
<1>2. CASE Tick \/ Administer
  BY <1>1, <1>2 DEF Tick, Administer, externVars, bookVars
<1>3. CASE Harvest
  BY <1>3, TakeBackFunds DEF Harvest, TypeOK, StrategyTotal
<1>4. CASE \E amount \in Amounts, a \in Assets : Deposit(amount, a)
  <2>1. PICK amount \in Amounts, a \in Assets : Deposit(amount, a)
    BY <1>4
  <2>2. CASE a = Usdc
    BY <2>1, <2>2 DEF TypeOK, Deposit, FundsStep
  <2>3. CASE a # Usdc
    BY <2>1, <2>3 DEF TypeOK, Deposit, FundsStep
  <2>4. QED
    BY <2>2, <2>3
<1>5. CASE \E amount \in DirectAmounts : Disburse(amount)
  BY <1>5 DEF TypeOK, Disburse, FundsStep
<1>6. CASE \E kind \in Kinds, amount \in Amounts, s \in Strategies \cup {NoStrategy} :
             Submit(kind, amount, s)
  BY <1>1, <1>6 DEF Submit, externVars, bookVars
<1>7. CASE \/ \E v \in Voters, p \in Submitted, support \in BOOLEAN, weight \in Weights :
                Vote(v, p, support, weight)
           \/ \E v \in Voters, p \in Submitted, weight \in Weights : ObjectTo(v, p, weight)
           \/ \E caller \in Voters \cup {Admin}, p \in Submitted : Veto(caller, p)
  BY <1>1, <1>7 DEF Vote, ObjectTo, Veto, externVars, bookVars
<1>8. CASE \E p \in Submitted : Execute(p)
  BY <1>0, <1>8, ExecuteFunds
<1>9. CASE \E s \in Strategies : EmergencyWithdraw(s)
  BY <1>9, TakeBackFunds DEF EmergencyWithdraw, TypeOK, StrategyTotal
<1>10. CASE \E s \in Strategies : StrategyGain(s) \/ StrategyLoss(s)
  BY <1>1, <1>10 DEF StrategyGain, StrategyLoss, bookVars
<1>11. CASE \E p \in Submitted : Finalize(p) \/ Cancel(p)
  BY <1>1, <1>11 DEF Finalize, FinalizeQueued, FinalizeRejected, Cancel, externVars, bookVars
<1>12. CASE \E s \in Strategies : SetStrategy(s)
  BY <1>1, <1>12 DEF SetStrategy, externVars, bookVars
<1>13. CASE UNCHANGED vars
  BY <1>1, <1>13 DEF vars, externVars, bookVars
<1>14. QED
  BY <1>2, <1>3, <1>4, <1>5, <1>6, <1>7, <1>8, <1>9, <1>10, <1>11, <1>12, <1>13
  DEF Next, Common

\* The treasury's book equals the USDC its address holds, whatever mixture of
\* deposits, payouts, investments, harvests and emergency exits has happened.
THEOREM BooksCorrect == Spec => []BooksMatchTokens
<1>1. Init => BooksMatchTokens
  BY ConfigAssumption DEF Init, BooksMatchTokens
<1>2. TypeOK /\ BooksMatchTokens /\ [Next]_vars => BooksMatchTokens'
  <2> SUFFICES ASSUME TypeOK, TypeOK', BooksMatchTokens, [Next]_vars
               PROVE  BooksMatchTokens'
    BY NextType
  <2>1. held[Usdc] \in Int /\ held'[Usdc] \in Int /\ idle \in Nat /\ idle' \in Nat
    BY ConfigAssumption DEF TypeOK
  <2>2. QED
    BY <2>1, NextFunds DEF FundsStep, BooksMatchTokens
<1>3. QED
  BY <1>1, <1>2, TypeCorrect, PTL DEF Spec

\* While paused, the USDC held by the treasury's address never decreases.
THEOREM PauseCorrect == Spec => PausedKeepsFunds
<1>1. TypeOK /\ [Next]_vars => [paused => held'[Usdc] >= held[Usdc]]_vars
  BY NextFunds DEF FundsStep
<1>2. QED
  BY <1>1, TypeCorrect, PTL DEF Spec, PausedKeepsFunds

-----------------------------------------------------------------------------
(* The proposal pipeline *)

\* A step leaves the tally of every proposal with a stored status alone.
TallyStep ==
  \A p \in Proposals : finalized[p] # "None" =>
    proposals'[p].yes = proposals[p].yes /\ proposals'[p].no = proposals[p].no

\* Steps that touch no proposal: only the clock may move, and only forward.
LEMMA QuietPipeline ==
  ASSUME TypeOK, PipelineInv, UNCHANGED <<nextId, proposals, finalized, paid>>,
         now' \in Nat, now' >= now
  PROVE  PipelineInv' /\ TallyStep
<1>1. \A p \in Proposals : proposals[p].deadline \in Nat
  BY DEF TypeOK, Proposal
<1>2. now \in Nat
  BY DEF TypeOK
<1>3. PipelineInv'
  BY <1>1, <1>2 DEF PipelineInv
<1>4. QED
  BY <1>3 DEF TallyStep

\* A new proposal takes an id that held nothing.
LEMMA SubmitPipeline ==
  ASSUME TypeOK, PipelineInv,
         NEW kind \in Kinds, NEW amount \in Amounts, NEW s \in Strategies \cup {NoStrategy},
         Submit(kind, amount, s)
  PROVE  PipelineInv' /\ TallyStep
<1> USE ConfigAssumption
<1>1. nextId \in Proposals
  BY DEF TypeOK, Submit, Proposals
<1>2. finalized[nextId] = "None" /\ paid[nextId] = 0
  BY <1>1 DEF PipelineInv, TypeOK
<1>3. /\ nextId' = nextId + 1 /\ nextId \in Nat
      /\ UNCHANGED <<finalized, paid, now>>
  BY DEF TypeOK, Submit, externVars
<1>4. \A p \in Proposals : p # nextId => proposals'[p] = proposals[p]
  BY <1>1 DEF TypeOK, Submit
<1>5. \A p \in Proposals : p >= nextId' => p >= nextId /\ p # nextId
  BY <1>3 DEF Proposals
<1>6. PipelineInv'
  <2> SUFFICES ASSUME NEW p \in Proposals
               PROVE  /\ p >= nextId' => proposals'[p] = NoProposal /\ finalized'[p] = "None"
                                          /\ paid'[p] = 0
                      /\ finalized'[p] # "None" => now' > proposals'[p].deadline
                      /\ paid'[p] \in {0, proposals'[p].amount}
                      /\ paid'[p] > 0 =>
                           /\ proposals'[p].executed /\ ~proposals'[p].cancelled
                           /\ proposals'[p].kind = "Disbursement"
    BY DEF PipelineInv
  <2>1. CASE p = nextId
    BY <1>2, <1>3, <1>5, <2>1
  <2>2. CASE p # nextId
    BY <1>3, <1>4, <1>5, <2>2 DEF PipelineInv
  <2>3. QED
    BY <2>1, <2>2
<1>7. QED
  BY <1>2, <1>4, <1>6 DEF TallyStep

\* A vote needs an open deadline, so no stored status can precede it.
LEMMA VotePipeline ==
  ASSUME TypeOK, PipelineInv,
         NEW v \in Voters, NEW p \in Submitted, NEW support \in BOOLEAN, NEW weight \in Weights,
         Vote(v, p, support, weight)
  PROVE  PipelineInv' /\ TallyStep
<1>1. p \in Proposals /\ p < nextId
  BY SubmittedProposals DEF TypeOK, Submitted
<1>2. proposals[p] \in Proposal /\ now \in Nat
  BY <1>1 DEF TypeOK
<1>3. finalized[p] = "None"
  BY <1>1, <1>2 DEF PipelineInv, Vote, Proposal
<1>4. /\ proposals'[p].amount = proposals[p].amount
      /\ proposals'[p].deadline = proposals[p].deadline
      /\ proposals'[p].kind = proposals[p].kind
      /\ proposals'[p].executed = proposals[p].executed
      /\ proposals'[p].cancelled = proposals[p].cancelled
  BY <1>1, <1>2 DEF TypeOK, Vote, Proposal
<1>5. \A q \in Proposals : q # p => proposals'[q] = proposals[q]
  BY <1>1 DEF TypeOK, Vote
<1>6. UNCHANGED <<now, nextId, finalized, paid>>
  BY DEF Vote, externVars
<1>7. PipelineInv'
  BY <1>1, <1>4, <1>5, <1>6 DEF PipelineInv, TypeOK, Proposals
<1>8. QED
  BY <1>3, <1>5, <1>7 DEF TallyStep

\* An objection counts in the veto tally and leaves the vote tally alone.
LEMMA ObjectPipeline ==
  ASSUME TypeOK, PipelineInv, NEW v \in Voters, NEW p \in Submitted, NEW weight \in Weights,
         ObjectTo(v, p, weight)
  PROVE  PipelineInv' /\ TallyStep
<1>1. p \in Proposals /\ p < nextId
  BY SubmittedProposals DEF TypeOK, Submitted
<1>2. proposals[p] \in Proposal
  BY <1>1 DEF TypeOK
<1>3. /\ proposals'[p].amount = proposals[p].amount
      /\ proposals'[p].deadline = proposals[p].deadline
      /\ proposals'[p].kind = proposals[p].kind
      /\ proposals'[p].executed = proposals[p].executed
      /\ proposals'[p].cancelled = proposals[p].cancelled
      /\ proposals'[p].yes = proposals[p].yes /\ proposals'[p].no = proposals[p].no
  BY <1>1, <1>2 DEF TypeOK, ObjectTo, Proposal
<1>4. \A q \in Proposals : q # p => proposals'[q] = proposals[q]
  BY <1>1 DEF TypeOK, ObjectTo
<1>5. UNCHANGED <<now, nextId, finalized, paid>>
  BY DEF ObjectTo, externVars
<1>6. PipelineInv'
  BY <1>1, <1>3, <1>4, <1>5 DEF PipelineInv, TypeOK, Proposals
<1>7. QED
  BY <1>3, <1>4, <1>6 DEF TallyStep

\* The calls that write one proposal's status or flags and pay nobody.
LEMMA StatusPipeline ==
  ASSUME TypeOK, PipelineInv, NEW p \in Submitted,
         UNCHANGED <<now, nextId, paid>>,
         \/ Finalize(p) \/ Cancel(p)
         \/ \E caller \in Voters \cup {Admin} : Veto(caller, p)
         \/ ExecuteFailed(p) \/ ExecuteAllocation(p) \/ ExecuteDeallocation(p)
  PROVE  PipelineInv' /\ TallyStep
<1>1. p \in Proposals /\ p < nextId
  BY SubmittedProposals DEF TypeOK, Submitted
<1>2. proposals[p] \in Proposal
  BY <1>1 DEF TypeOK
<1>3. /\ proposals'[p].amount = proposals[p].amount
      /\ proposals'[p].deadline = proposals[p].deadline
      /\ proposals'[p].kind = proposals[p].kind
      /\ proposals'[p].yes = proposals[p].yes /\ proposals'[p].no = proposals[p].no
      /\ proposals[p].executed => proposals'[p].executed
      /\ proposals'[p].cancelled => proposals[p].cancelled \/ ~proposals[p].executed
  BY <1>1, <1>2 DEF TypeOK, Finalize, FinalizeQueued, FinalizeRejected, Cancel, Veto,
     ExecuteFailed, ExecuteAllocation, ExecuteDeallocation, MarkExecuted, Proposal
<1>4. \A q \in Proposals : q # p => proposals'[q] = proposals[q] /\ finalized'[q] = finalized[q]
  BY <1>1 DEF TypeOK, Finalize, FinalizeQueued, FinalizeRejected, Cancel, Veto,
     ExecuteFailed, ExecuteAllocation, ExecuteDeallocation, MarkExecuted
<1>5. finalized'[p] # "None" => now > proposals[p].deadline
  BY <1>1 DEF PipelineInv, Finalize, FinalizeQueued, FinalizeRejected, Cancel, Veto,
     ExecuteFailed, ExecuteAllocation, ExecuteDeallocation, CanExecute
<1>6. PipelineInv'
  BY <1>1, <1>3, <1>4, <1>5 DEF PipelineInv, TypeOK, Proposals
<1>7. QED
  BY <1>3, <1>4, <1>6 DEF TallyStep

\* The one call that pays: the proposal was not executed, so nothing was paid.
LEMMA PayPipeline ==
  ASSUME TypeOK, PipelineInv, NEW p \in Submitted, ExecuteDisbursement(p)
  PROVE  PipelineInv' /\ TallyStep
<1>1. p \in Proposals /\ p < nextId
  BY SubmittedProposals DEF TypeOK, Submitted
<1>2. proposals[p] \in Proposal /\ paid[p] = 0
  BY <1>1 DEF TypeOK, PipelineInv, ExecuteDisbursement, CanExecute
<1>3. proposals' = [proposals EXCEPT ![p].executed = TRUE] /\ UNCHANGED <<now, nextId>>
  BY DEF ExecuteDisbursement, MarkExecuted
<1>4. /\ proposals'[p].amount = proposals[p].amount
      /\ proposals'[p].deadline = proposals[p].deadline
      /\ proposals'[p].kind = "Disbursement"
      /\ proposals'[p].yes = proposals[p].yes /\ proposals'[p].no = proposals[p].no
      /\ proposals'[p].executed /\ ~proposals'[p].cancelled
  BY <1>1, <1>2, <1>3 DEF TypeOK, ExecuteDisbursement, CanExecute, Proposal
<1>5. \A q \in Proposals : q # p =>
        proposals'[q] = proposals[q] /\ finalized'[q] = finalized[q] /\ paid'[q] = paid[q]
  BY <1>1 DEF TypeOK, ExecuteDisbursement, MarkExecuted
<1>6. paid'[p] = proposals[p].amount
  BY <1>1, <1>2 DEF TypeOK, ExecuteDisbursement, Proposal
<1>7. now > proposals[p].deadline
  BY <1>1 DEF PipelineInv, ExecuteDisbursement, CanExecute
<1>8. PipelineInv'
  BY <1>1, <1>3, <1>4, <1>5, <1>6, <1>7 DEF PipelineInv, TypeOK, Proposals
<1>9. QED
  BY <1>4, <1>5, <1>8 DEF TallyStep

\* Every step keeps the stages right and leaves a finalized tally alone.
LEMMA NextPipeline == TypeOK /\ PipelineInv /\ [Next]_vars => PipelineInv' /\ TallyStep
<1> SUFFICES ASSUME TypeOK, PipelineInv, [Next]_vars PROVE PipelineInv' /\ TallyStep
  OBVIOUS
<1> USE DEF ledgerVars, configVars, bookVars, externVars
<1>0. now \in Nat /\ now >= now
  BY DEF TypeOK
<1>1. CASE UNCHANGED <<nextId, proposals, finalized, paid, now>>
  BY <1>0, <1>1, QuietPipeline
<1>2. CASE Tick
  BY <1>0, <1>2, QuietPipeline DEF Tick
<1>3. CASE \/ Administer \/ Harvest
           \/ \E amount \in Amounts, a \in Assets : Deposit(amount, a)
           \/ \E amount \in DirectAmounts : Disburse(amount)
           \/ \E s \in Strategies :
                EmergencyWithdraw(s) \/ StrategyGain(s) \/ StrategyLoss(s) \/ SetStrategy(s)
           \/ UNCHANGED vars
  BY <1>1, <1>3 DEF Administer, Harvest, Deposit, Disburse, EmergencyWithdraw, TakeBack,
     StrategyGain, StrategyLoss, SetStrategy, vars
<1>4. CASE \E kind \in Kinds, amount \in Amounts, s \in Strategies \cup {NoStrategy} :
             Submit(kind, amount, s)
  BY <1>4, SubmitPipeline
<1>5. CASE \E v \in Voters, p \in Submitted, support \in BOOLEAN, weight \in Weights :
             Vote(v, p, support, weight)
  BY <1>5, VotePipeline
<1>6. CASE \E v \in Voters, p \in Submitted, weight \in Weights : ObjectTo(v, p, weight)
  BY <1>6, ObjectPipeline
<1>7. CASE \E caller \in Voters \cup {Admin}, p \in Submitted : Veto(caller, p)
  BY <1>7, StatusPipeline DEF Veto
<1>8. CASE \E p \in Submitted : Execute(p)
  BY <1>8, PayPipeline, StatusPipeline
  DEF Execute, ExecuteFailed, ExecuteAllocation, ExecuteDeallocation, MarkExecuted, TakeBack
<1>9. CASE \E p \in Submitted : Finalize(p) \/ Cancel(p)
  BY <1>9, StatusPipeline DEF Finalize, FinalizeQueued, FinalizeRejected, Cancel
<1>10. QED
  BY <1>2, <1>3, <1>4, <1>5, <1>6, <1>7, <1>8, <1>9 DEF Next, Common

\* After initialize no id holds anything.
LEMMA InitPipeline == Init => PipelineInv
BY ConfigAssumption DEF Init, PipelineInv, NoProposal, Proposals

\* What an id may hold at each stage, in every reachable state.
THEOREM PipelineCorrect == Spec => [](TypeOK /\ PipelineInv)
BY InitType, NextType, InitPipeline, NextPipeline, PTL DEF Spec

\* An applicant is paid at most once, only by an execution, never after a
\* cancellation, however often the proposal was finalized, vetoed or cancelled.
THEOREM PaidOnceCorrect == Spec => []PaidOnce
<1>1. PipelineInv => PaidOnce
  BY DEF PipelineInv, PaidOnce
<1>2. QED
  BY <1>1, PipelineCorrect, PTL

\* Once a finalization has read a tally, no vote changes it.
THEOREM TallyCorrect == Spec => TallyFrozen
<1>1. TypeOK /\ PipelineInv /\ [Next]_vars =>
        [\A p \in Proposals : finalized[p] # "None" =>
           /\ proposals'[p].yes = proposals[p].yes
           /\ proposals'[p].no = proposals[p].no]_vars
  BY NextPipeline DEF TallyStep
<1>2. QED
  BY <1>1, PipelineCorrect, PTL DEF Spec, TallyFrozen

-----------------------------------------------------------------------------
(* The pipeline implements GrantLifecycle                                    *)

\* The ledger of the latest approval, as the abstract pipeline sees it.
ApprovedAt(p) == IF StageOf(p) = "approved" THEN proposals[p].queuedAt ELSE 0

\* What decides the stage of a proposal.
LEMMA SameStage ==
  ASSUME NEW p \in Proposals, nextId' = nextId,
         finalized'[p] = finalized[p], proposals'[p].executed = proposals[p].executed,
         proposals'[p].cancelled = proposals[p].cancelled,
         proposals'[p].queuedAt = proposals[p].queuedAt
  PROVE  StageOf(p)' = StageOf(p) /\ ApprovedAt(p)' = ApprovedAt(p)
<1>1. StageOf(p)' = StageOf(p)
  BY DEF StageOf, Unpaid
<1>2. QED
  BY <1>1 DEF ApprovedAt

\* Where no stage moves the abstract pipeline stutters.
LEMMA NothingMoves ==
  ASSUME now' = now,
         \A p \in Proposals : StageOf(p)' = StageOf(p) /\ ApprovedAt(p)' = ApprovedAt(p)
  PROVE  UNCHANGED Lifecycle!vars
BY DEF Lifecycle!vars, ApprovedAt

\* Where one stage moves both maps change in one place.
LEMMA OneMoves ==
  ASSUME NEW p \in Proposals,
         \A q \in Proposals : q # p => StageOf(q)' = StageOf(q) /\ ApprovedAt(q)' = ApprovedAt(q)
  PROVE  /\ [q \in Proposals |-> StageOf(q)]'
              = [[q \in Proposals |-> StageOf(q)] EXCEPT ![p] = StageOf(p)']
         /\ [q \in Proposals |-> ApprovedAt(q)]'
              = [[q \in Proposals |-> ApprovedAt(q)] EXCEPT ![p] = ApprovedAt(p)']
OBVIOUS

\* A proposal that leaves the approved stage, or enters none, has no approval.
LEMMA MovesStage ==
  ASSUME NEW p \in Proposals, now' = now,
         \A q \in Proposals : q # p => StageOf(q)' = StageOf(q) /\ ApprovedAt(q)' = ApprovedAt(q),
         NEW from, NEW to, StageOf(p) \in from, StageOf(p)' = to, to # "approved"
  PROVE  Lifecycle!Move(p, from, to, 0)
<1>1. ApprovedAt(p)' = 0
  BY DEF ApprovedAt
<1>2. QED
  BY <1>1, OneMoves DEF Lifecycle!Move, ApprovedAt

\* The stages of a submitted proposal.
LEMMA SubmittedStage ==
  ASSUME TypeOK, NEW p \in Submitted
  PROVE  /\ p \in Proposals /\ p < nextId
         /\ proposals[p].executed => StageOf(p) = "settled"
         /\ ~proposals[p].executed /\ proposals[p].cancelled => StageOf(p) = "cancelled"
         /\ Unpaid(p) => StageOf(p) = "approved"
         /\ ~proposals[p].executed /\ ~proposals[p].cancelled /\ finalized[p] # "Queued"
              => StageOf(p) = "open"
<1>1. p \in Proposals /\ p < nextId /\ ~(p >= nextId)
  BY SubmittedProposals DEF TypeOK, Submitted
<1>2. QED
  BY <1>1 DEF StageOf, Unpaid

\* So are they after a step that submits nothing.
LEMMA NextStage ==
  ASSUME TypeOK, NEW p \in Submitted, nextId' = nextId
  PROVE  /\ proposals'[p].executed => StageOf(p)' = "settled"
         /\ ~proposals'[p].executed /\ proposals'[p].cancelled => StageOf(p)' = "cancelled"
         /\ Unpaid(p)' => StageOf(p)' = "approved"
         /\ ~proposals'[p].executed /\ ~proposals'[p].cancelled /\ finalized'[p] # "Queued"
              => StageOf(p)' = "open"
<1>1. p < nextId' /\ ~(p >= nextId')
  BY DEF TypeOK, Submitted
<1>2. QED
  BY <1>1 DEF StageOf, Unpaid

\* A submission opens the next id.
LEMMA SubmitOpens ==
  ASSUME TypeOK, PipelineInv, NEW kind \in Kinds, NEW amount \in Amounts,
         NEW s \in Strategies \cup {NoStrategy}, Submit(kind, amount, s),
         NEW p \in Proposals, p = nextId
  PROVE  Lifecycle!Open(p)
<1>1. /\ nextId' = p + 1 /\ now' = now /\ finalized' = finalized
      /\ \A q \in Proposals : q # p => proposals'[q] = proposals[q]
      /\ ~proposals'[p].executed /\ ~proposals'[p].cancelled
  BY DEF TypeOK, Submit, NoProposal
<1>2. finalized[p] = "None"
  BY DEF TypeOK, PipelineInv, Proposals
<1>3. p >= nextId /\ ~(p < nextId) /\ ~(p >= nextId') /\ p < nextId'
  BY <1>1 DEF Proposals
<1>4. StageOf(p) = "absent"
  BY <1>3 DEF StageOf
<1>5. StageOf(p)' = "open"
  BY <1>1, <1>2, <1>3 DEF StageOf, Unpaid
<1>6. ASSUME NEW q \in Proposals, q # p
      PROVE  StageOf(q)' = StageOf(q) /\ ApprovedAt(q)' = ApprovedAt(q)
  <2>1. (q >= nextId' <=> q >= nextId) /\ (q < nextId' <=> q < nextId)
    BY <1>1, <1>6 DEF TypeOK, Proposals
  <2>2. StageOf(q)' = StageOf(q)
    BY <1>1, <1>6, <2>1 DEF StageOf, Unpaid
  <2>3. QED
    BY <1>1, <1>6, <2>2 DEF ApprovedAt
<1>7. QED
  BY <1>1, <1>4, <1>5, <1>6, MovesStage DEF Lifecycle!Open

\* finalize_proposal approves, perhaps again, or takes an approval back; a
\* settled or cancelled proposal it leaves where it is.
LEMMA FinalizeMoves ==
  ASSUME TypeOK, NEW p \in Submitted, Finalize(p)
  PROVE  Lifecycle!Approve(p) \/ Lifecycle!Reject(p) \/ UNCHANGED Lifecycle!vars
<1>1. /\ p \in Proposals /\ nextId' = nextId /\ now' = now
      /\ proposals'[p].executed = proposals[p].executed
      /\ proposals'[p].cancelled = proposals[p].cancelled
      /\ \A q \in Proposals : q # p => proposals'[q] = proposals[q] /\ finalized'[q] = finalized[q]
  BY SubmittedProposals DEF TypeOK, Proposal, Finalize, FinalizeQueued, FinalizeRejected
<1>2. \A q \in Proposals : q # p => StageOf(q)' = StageOf(q) /\ ApprovedAt(q)' = ApprovedAt(q)
  BY <1>1, SameStage
<1>3. CASE proposals[p].executed \/ proposals[p].cancelled
  <2>1. StageOf(p)' = StageOf(p) /\ StageOf(p) \in {"settled", "cancelled"}
    BY <1>1, <1>3, SubmittedStage, NextStage DEF TypeOK, Proposal
  <2>2. ApprovedAt(p)' = ApprovedAt(p)
    BY <2>1 DEF ApprovedAt
  <2>3. QED
    BY <1>1, <1>2, <2>1, <2>2, NothingMoves
<1>4. CASE ~proposals[p].executed /\ ~proposals[p].cancelled
  <2>1. StageOf(p) \in {"open", "approved"}
    BY <1>4, SubmittedStage DEF Unpaid
  <2>2. CASE FinalizeQueued(p)
    <3>1. finalized'[p] = "Queued" /\ proposals'[p].queuedAt = now
      BY <1>1, <2>2 DEF FinalizeQueued, TypeOK, Proposal
    <3>2. Unpaid(p)'
      BY <1>1, <1>4, <3>1 DEF Unpaid
    <3>3. StageOf(p)' = "approved" /\ ApprovedAt(p)' = now
      BY <1>1, <3>1, <3>2, NextStage DEF ApprovedAt
    <3>4. Lifecycle!Approve(p)
      BY <1>1, <1>2, <2>1, <3>3, OneMoves DEF Lifecycle!Approve, Lifecycle!Move, ApprovedAt
    <3>5. QED
      BY <3>4
  <2>3. CASE FinalizeRejected(p)
    <3>1. finalized'[p] = "Rejected"
      BY <1>1, <2>3 DEF FinalizeRejected, TypeOK
    <3>2. StageOf(p)' = "open"
      BY <1>1, <1>4, <3>1, NextStage
    <3>3. CASE StageOf(p) = "approved"
      BY <1>1, <1>2, <3>2, <3>3, MovesStage DEF Lifecycle!Reject
    <3>4. CASE StageOf(p) = "open"
      <4>1. ApprovedAt(p)' = ApprovedAt(p)
        BY <3>2, <3>4 DEF ApprovedAt
      <4>2. QED
        BY <1>1, <1>2, <3>2, <3>4, <4>1, NothingMoves
    <3>5. QED
      BY <2>1, <3>3, <3>4
  <2>4. QED
    BY <2>2, <2>3 DEF Finalize
<1>5. QED
  BY <1>3, <1>4 DEF TypeOK, Proposal

\* veto_proposal takes an approval back.
LEMMA VetoRejects ==
  ASSUME TypeOK, NEW p \in Submitted, NEW caller, Veto(caller, p)
  PROVE  Lifecycle!Reject(p)
<1>1. /\ p \in Proposals /\ nextId' = nextId /\ now' = now /\ Unpaid(p)
      /\ proposals' = proposals /\ finalized'[p] = "Rejected"
      /\ \A q \in Proposals : q # p => finalized'[q] = finalized[q]
  BY SubmittedProposals DEF TypeOK, Veto, Unpaid
<1>2. \A q \in Proposals : q # p => StageOf(q)' = StageOf(q) /\ ApprovedAt(q)' = ApprovedAt(q)
  BY <1>1, SameStage
<1>3. StageOf(p) = "approved" /\ StageOf(p)' = "open"
  BY <1>1, SubmittedStage, NextStage DEF Unpaid
<1>4. QED
  BY <1>1, <1>2, <1>3, MovesStage DEF Lifecycle!Reject

\* cancel_proposal ends a proposal that is open or approved.
LEMMA CancelCancels ==
  ASSUME TypeOK, NEW p \in Submitted, Cancel(p)
  PROVE  Lifecycle!Cancel(p)
<1>1. /\ p \in Proposals /\ nextId' = nextId /\ now' = now /\ finalized' = finalized
      /\ \A q \in Proposals : q # p => proposals'[q] = proposals[q]
      /\ proposals'[p].cancelled /\ ~proposals'[p].executed /\ ~proposals[p].executed
  BY SubmittedProposals DEF TypeOK, Proposal, Cancel
<1>2. ~proposals[p].cancelled
  BY DEF Cancel, PublicStatus
<1>3. \A q \in Proposals : q # p => StageOf(q)' = StageOf(q) /\ ApprovedAt(q)' = ApprovedAt(q)
  BY <1>1, SameStage
<1>4. StageOf(p) \in {"open", "approved"} /\ StageOf(p)' = "cancelled"
  BY <1>1, <1>2, SubmittedStage, NextStage DEF Unpaid
<1>5. QED
  BY <1>1, <1>3, <1>4, MovesStage DEF Lifecycle!Cancel

\* execute_proposal settles a proposal that was approved in an earlier ledger.
LEMMA ExecuteSettles ==
  ASSUME TypeOK, NEW p \in Submitted, Execute(p)
  PROVE  Lifecycle!Settle(p)
<1>1. p \in Proposals /\ Unpaid(p) /\ now >= proposals[p].queuedAt + params.timelock
  BY SubmittedProposals DEF Execute, ExecuteDisbursement, ExecuteFailed, ExecuteAllocation,
     ExecuteDeallocation, CanExecute, Unpaid
<1>2. MarkExecuted(p)
  BY DEF Execute, ExecuteDisbursement, ExecuteFailed, ExecuteAllocation, ExecuteDeallocation
<1>3. /\ nextId' = nextId /\ now' = now /\ proposals'[p].executed
      /\ \A q \in Proposals : q # p => proposals'[q] = proposals[q] /\ finalized'[q] = finalized[q]
  BY <1>1, <1>2 DEF TypeOK, Proposal, MarkExecuted
<1>4. \A q \in Proposals : q # p => StageOf(q)' = StageOf(q) /\ ApprovedAt(q)' = ApprovedAt(q)
  BY <1>3, SameStage
<1>5. StageOf(p) = "approved" /\ StageOf(p)' = "settled"
  BY <1>1, <1>3, SubmittedStage, NextStage
<1>6. ApprovedAt(p) < now
  <2>1. now \in Nat /\ params.timelock \in Nat \ {0} /\ proposals[p].queuedAt \in Nat
    BY <1>1 DEF TypeOK, Params, Proposal
  <2>2. QED
    BY <1>1, <1>5, <2>1 DEF ApprovedAt
<1>7. Lifecycle!Move(p, {"approved"}, "settled", 0)
  BY <1>1, <1>3, <1>4, <1>5, MovesStage
<1>8. QED
  BY <1>1, <1>6, <1>7 DEF Lifecycle!Settle, ApprovedAt

\* Every call of the treasury is a step of the pipeline or invisible to it.
LEMMA LifecycleStep ==
  ASSUME TypeOK, PipelineInv, [Next]_vars
  PROVE  Lifecycle!Next \/ UNCHANGED Lifecycle!vars
<1>0. Submitted \subseteq Proposals /\ nextId \in Nat
  BY SubmittedProposals DEF TypeOK
<1>1. CASE \E kind \in Kinds, amount \in Amounts, s \in Strategies \cup {NoStrategy} :
             Submit(kind, amount, s)
  <2>1. PICK p \in Proposals : p = nextId
    BY <1>1 DEF Submit, TypeOK, Proposals
  <2>2. QED
    BY <1>1, <2>1, SubmitOpens DEF Lifecycle!Next
<1>2. CASE \E p \in Submitted : Finalize(p)
  BY <1>0, <1>2, FinalizeMoves DEF Lifecycle!Next
<1>3. CASE \E p \in Submitted : Cancel(p)
  BY <1>0, <1>3, CancelCancels DEF Lifecycle!Next
<1>4. CASE \E caller \in Voters \cup {Admin}, p \in Submitted : Veto(caller, p)
  BY <1>0, <1>4, VetoRejects DEF Lifecycle!Next
<1>5. CASE \E p \in Submitted : Execute(p)
  BY <1>0, <1>5, ExecuteSettles DEF Lifecycle!Next
<1>6. ASSUME now' = now, nextId' = nextId, finalized' = finalized,
             \A p \in Proposals : /\ proposals'[p].executed = proposals[p].executed
                                  /\ proposals'[p].cancelled = proposals[p].cancelled
                                  /\ proposals'[p].queuedAt = proposals[p].queuedAt
      PROVE  UNCHANGED Lifecycle!vars
  BY <1>6, SameStage, NothingMoves
<1>7. CASE \E v \in Voters, p \in Submitted, support \in BOOLEAN, weight \in Weights :
             Vote(v, p, support, weight)
  <2>1. /\ now' = now /\ nextId' = nextId /\ finalized' = finalized
        /\ \A p \in Proposals : /\ proposals'[p].executed = proposals[p].executed
                                /\ proposals'[p].cancelled = proposals[p].cancelled
                                /\ proposals'[p].queuedAt = proposals[p].queuedAt
    BY <1>0, <1>7 DEF Vote, TypeOK, Proposal
  <2>2. QED
    BY <1>6, <2>1
<1>8. CASE \E v \in Voters, p \in Submitted, weight \in Weights : ObjectTo(v, p, weight)
  <2>1. /\ now' = now /\ nextId' = nextId /\ finalized' = finalized
        /\ \A p \in Proposals : /\ proposals'[p].executed = proposals[p].executed
                                /\ proposals'[p].cancelled = proposals[p].cancelled
                                /\ proposals'[p].queuedAt = proposals[p].queuedAt
    BY <1>0, <1>8 DEF ObjectTo, TypeOK, Proposal
  <2>2. QED
    BY <1>6, <2>1
<1>9. CASE Tick
  <2>1. /\ now' = now + 1 /\ nextId' = nextId /\ finalized' = finalized /\ proposals' = proposals
    BY <1>9 DEF Tick, ledgerVars
  <2>2. \A p \in Proposals : StageOf(p)' = StageOf(p) /\ ApprovedAt(p)' = ApprovedAt(p)
    BY <2>1, SameStage
  <2>3. QED
    BY <2>1, <2>2 DEF Lifecycle!Next, Lifecycle!Tick, ApprovedAt
<1>10. CASE \/ Administer \/ Harvest \/ UNCHANGED vars
            \/ \E amount \in Amounts, a \in Assets : Deposit(amount, a)
            \/ \E amount \in DirectAmounts : Disburse(amount)
            \/ \E s \in Strategies :
                 EmergencyWithdraw(s) \/ StrategyGain(s) \/ StrategyLoss(s) \/ SetStrategy(s)
  <2>1. now' = now /\ nextId' = nextId /\ finalized' = finalized /\ proposals' = proposals
    BY <1>10 DEF Administer, Harvest, Deposit, Disburse, EmergencyWithdraw, StrategyGain,
       StrategyLoss, SetStrategy, ledgerVars, vars
  <2>2. QED
    BY <1>6, <2>1
<1>11. QED
  BY <1>1, <1>2, <1>3, <1>4, <1>5, <1>7, <1>8, <1>9, <1>10 DEF Next, Common

\* The pipeline implements GrantLifecycle for every number of proposals and every
\* parameter the setters accept: no payout or investment without an approval in
\* an earlier ledger, and executed and cancelled are absorbing.
THEOREM LifecycleCorrect == Spec => ImplementsLifecycle
<1>1. Init => Lifecycle!Init
  <2> SUFFICES ASSUME Init PROVE Lifecycle!Init
    OBVIOUS
  <2>1. \A p \in Proposals : p >= nextId /\ ~(p < nextId)
    BY DEF Init, Proposals
  <2>2. \A p \in Proposals : StageOf(p) = "absent"
    BY <2>1 DEF StageOf
  <2>3. QED
    BY <2>2 DEF Init, Lifecycle!Init
<1>2. TypeOK /\ PipelineInv /\ [Next]_vars => [Lifecycle!Next]_(Lifecycle!vars)
  BY LifecycleStep
<1>3. QED
  BY <1>1, <1>2, PipelineCorrect, PTL DEF Spec, ImplementsLifecycle, Lifecycle!Spec

-----------------------------------------------------------------------------
(* The rules of operation of ScholarshipTreasury, each promise under exactly *)
(* the ones it needs: the commitment counter                                 *)

\* How the rules relate: each restricted step is a step of the contract.
LEMMA RulesNest ==
  /\ TimelyNext => Next
  /\ OneStrategyNext => Next
  /\ FinalizedOnceNext => TimelyNext
  /\ DisciplinedNext => FinalizedOnceNext
  /\ DisciplinedNext => OneStrategyNext
BY DEF Next, TimelyNext, OneStrategyNext, FinalizedOnceNext, DisciplinedNext, FirstFinalize,
   TimelyCancel, FirstStrategy

\* The same of whole behaviours.
LEMMA RulesNestSpec ==
  /\ FinalizedOnceSpec => TimelySpec
  /\ DisciplinedSpec => FinalizedOnceSpec
  /\ DisciplinedSpec => OneStrategySpec
BY RulesNest, PTL DEF TimelySpec, OneStrategySpec, FinalizedOnceSpec, DisciplinedSpec

\* How much more the counter says than is owed: the amounts of approvals that
\* were finalized twice, revived after a cancellation, or rejected again.
Slack == committed - Owed

Amount == [p \in Proposals |-> proposals[p].amount]

\* The proposals still owed are finitely many, with natural amounts.
LEMMA OwedFinite ==
  ASSUME TypeOK
  PROVE  /\ IsFiniteSet(OwedProposals) /\ OwedProposals \subseteq Proposals
         /\ \A p \in Proposals : Amount[p] \in Nat
<1>1. IsFiniteSet(Proposals)
  BY ConfigAssumption, FS_Interval DEF Proposals
<1>2. OwedProposals \in SUBSET Proposals
  BY DEF OwedProposals
<1>3. \A p \in Proposals : Amount[p] \in Nat
  BY DEF TypeOK, Proposal, Amount
<1>4. QED
  BY <1>1, <1>2, <1>3, FS_Subset

\* The sum owed depends on nothing but the proposals owed and their amounts.
LEMMA OwedSame ==
  ASSUME TypeOK, OwedProposals' = OwedProposals,
         \A p \in OwedProposals : proposals'[p].amount = proposals[p].amount
  PROVE  Owed' = Owed
<1>1. OwedProposals \subseteq Proposals
  BY OwedFinite
<1>2. \A p \in OwedProposals : Amount'[p] = Amount[p]
  BY <1>1 DEF Amount
<1>3. Total(Amount', OwedProposals) = Total(Amount, OwedProposals)
  BY <1>2, TotalSame
<1>4. QED
  BY <1>3 DEF Owed, Amount

\* A proposal that becomes owed adds its amount to the sum.
LEMMA OwedJoins ==
  ASSUME TypeOK, NEW p \in Proposals, p \notin OwedProposals,
         OwedProposals' = OwedProposals \cup {p},
         \A q \in Proposals : proposals'[q].amount = proposals[q].amount
  PROVE  Owed' = Owed + proposals[p].amount
<1>1. Amount' = Amount
  BY DEF Amount
<1>2. Total(Amount, OwedProposals \cup {p}) = Total(Amount, OwedProposals) + Amount[p]
  BY OwedFinite, TotalJoin
<1>3. QED
  BY <1>1, <1>2 DEF Owed, Amount

\* A proposal that stops being owed takes its amount out of the sum.
LEMMA OwedLeaves ==
  ASSUME TypeOK, NEW p \in OwedProposals,
         OwedProposals' = OwedProposals \ {p},
         \A q \in Proposals : proposals'[q].amount = proposals[q].amount
  PROVE  Owed' = Owed - proposals[p].amount
<1>1. Amount' = Amount
  BY DEF Amount
<1>2. Total(Amount, OwedProposals) = Total(Amount, OwedProposals \ {p}) + Amount[p]
  BY OwedFinite, TotalLeave
<1>3. Total(Amount, OwedProposals \ {p}) \in Nat /\ Amount[p] \in Nat
  BY OwedFinite, FS_RemoveElement, TotalType
<1>4. QED
  BY <1>1, <1>2, <1>3, OwedFinite DEF Owed, Amount

\* The sum owed is a natural number.
LEMMA OwedType == ASSUME TypeOK PROVE Owed \in Nat
<1>1. Total(Amount, OwedProposals) \in Nat
  BY OwedFinite, TotalType
<1>2. QED
  BY <1>1 DEF Owed, Amount

\* The same after a step.
LEMMA OwedTypeNext == ASSUME TypeOK' PROVE Owed' \in Nat
<1>1. IsFiniteSet(Proposals) /\ OwedProposals' \in SUBSET Proposals
  BY ConfigAssumption, FS_Interval DEF Proposals, OwedProposals
<1>2. \A p \in Proposals : Amount'[p] \in Nat
  BY DEF TypeOK, Proposal, Amount
<1>3. IsFiniteSet(OwedProposals')
  BY <1>1, FS_Subset
<1>4. Total(Amount', OwedProposals') \in Nat
  BY <1>1, <1>2, <1>3, TotalType
<1>5. QED
  BY <1>4 DEF Owed, Amount

\* Calls that change neither the books of approved proposals nor the counter.
LEMMA QuietOwed ==
  ASSUME TypeOK, UNCHANGED <<proposals, finalized, committed>>
  PROVE  Slack' = Slack
<1>1. OwedProposals' = OwedProposals
  BY DEF OwedProposals, Unpaid
<1>2. Owed' = Owed
  BY <1>1, OwedSame
<1>3. QED
  BY <1>2 DEF Slack

\* A new proposal is not owed yet.
LEMMA SubmitOwed ==
  ASSUME TypeOK, PipelineInv, NEW kind \in Kinds, NEW amount \in Amounts,
         NEW s \in Strategies \cup {NoStrategy}, Submit(kind, amount, s)
  PROVE  Slack' = Slack
<1>1. nextId \in Proposals /\ finalized[nextId] = "None"
  BY DEF TypeOK, Submit, Proposals, PipelineInv
<1>2. \A q \in Proposals : q # nextId => proposals'[q] = proposals[q]
  BY <1>1 DEF TypeOK, Submit
<1>3. UNCHANGED <<finalized, committed>>
  BY DEF Submit, bookVars
<1>4. OwedProposals' = OwedProposals /\ nextId \notin OwedProposals
  BY <1>1, <1>2, <1>3 DEF OwedProposals, Unpaid
<1>5. Owed' = Owed
  BY <1>2, <1>4, OwedSame DEF OwedProposals
<1>6. QED
  BY <1>3, <1>5 DEF Slack

\* A vote or an objection touches a tally only.
LEMMA TallyOwed ==
  ASSUME TypeOK, NEW p \in Proposals, NEW v \in Voters, NEW weight \in Weights,
         ObjectTo(v, p, weight) \/ \E support \in BOOLEAN : Vote(v, p, support, weight)
  PROVE  Slack' = Slack
<1>1. \A q \in Proposals :
        /\ proposals'[q].amount = proposals[q].amount
        /\ proposals'[q].kind = proposals[q].kind
        /\ proposals'[q].executed = proposals[q].executed
        /\ proposals'[q].cancelled = proposals[q].cancelled
  BY DEF TypeOK, Vote, ObjectTo, Proposal
<1>2. UNCHANGED <<finalized, committed>>
  BY DEF Vote, ObjectTo, bookVars
<1>3. OwedProposals' = OwedProposals
  BY <1>1, <1>2 DEF OwedProposals, Unpaid
<1>4. Owed' = Owed
  BY <1>1, <1>3, OwedSame DEF OwedProposals
<1>5. QED
  BY <1>2, <1>4 DEF Slack

\* Any finalization commits at least what it adds to the sum: one of a settled
\* proposal adds nothing to it, and a second rejection takes something out of
\* it that the counter keeps.
LEMMA FinalizeOwed ==
  ASSUME TypeOK, NEW p \in Proposals, Finalize(p)
  PROVE  /\ Slack' >= Slack
         /\ finalized[p] = "None" /\ ~proposals[p].executed /\ ~proposals[p].cancelled
              => Slack' = Slack
<1>1. \A q \in Proposals :
        /\ proposals'[q].amount = proposals[q].amount
        /\ proposals'[q].kind = proposals[q].kind
        /\ proposals'[q].executed = proposals[q].executed
        /\ proposals'[q].cancelled = proposals[q].cancelled
        /\ q # p => finalized'[q] = finalized[q]
  BY DEF Finalize, FinalizeQueued, FinalizeRejected, TypeOK, Proposal
<1>2. Owed \in Nat /\ committed \in Int /\ proposals[p].amount \in Nat
  BY OwedType DEF TypeOK, Proposal
<1>3. CASE OwedProposals' = OwedProposals
  <2>1. Owed' = Owed
    BY <1>1, <1>3, OwedSame DEF OwedProposals
  <2>2. committed' = committed \/ committed' = committed + Commitment(p)
    BY DEF Finalize, FinalizeQueued, FinalizeRejected, bookVars
  <2>3. ASSUME finalized[p] = "None", ~proposals[p].executed, ~proposals[p].cancelled
        PROVE  committed' = committed
    <3>1. p \notin OwedProposals'
      BY <1>3, <2>3 DEF OwedProposals, Unpaid
    <3>2. FinalizeQueued(p) => Commitment(p) = 0
      BY <1>1, <2>3, <3>1 DEF FinalizeQueued, Commitment, OwedProposals, Unpaid, TypeOK
    <3>3. QED
      BY <1>2, <2>2, <3>2 DEF Finalize, FinalizeQueued, FinalizeRejected, bookVars
  <2>4. QED
    BY <1>2, <2>1, <2>2, <2>3 DEF Slack, Commitment
<1>4. CASE OwedProposals' # OwedProposals
  <2>1. CASE FinalizeQueued(p)
    <3>1. /\ finalized'[p] = "Queued" /\ p \notin OwedProposals
          /\ OwedProposals' = OwedProposals \cup {p}
      BY <1>1, <1>4, <2>1 DEF OwedProposals, Unpaid, FinalizeQueued, TypeOK
    <3>2. finalized[p] # "Queued" /\ proposals[p].kind = "Disbursement"
      BY <1>1, <3>1 DEF OwedProposals, Unpaid
    <3>3. committed' = committed + proposals[p].amount
      BY <2>1, <3>2 DEF FinalizeQueued, Commitment
    <3>4. Owed' = Owed + proposals[p].amount
      BY <1>1, <3>1, OwedJoins
    <3>5. QED
      BY <1>2, <3>3, <3>4 DEF Slack
  <2>2. CASE FinalizeRejected(p)
    <3>1. finalized'[p] = "Rejected" /\ committed' = committed
      BY <2>2 DEF FinalizeRejected, TypeOK, bookVars
    <3>2. p \in OwedProposals /\ OwedProposals' = OwedProposals \ {p}
      BY <1>1, <1>4, <3>1 DEF OwedProposals, Unpaid
    <3>3. Owed' = Owed - proposals[p].amount /\ finalized[p] = "Queued"
      BY <1>1, <3>2, OwedLeaves DEF OwedProposals, Unpaid
    <3>4. QED
      BY <1>2, <3>1, <3>3 DEF Slack
  <2>3. QED
    BY <2>1, <2>2 DEF Finalize
<1>5. QED
  BY <1>3, <1>4

\* An approved proposal is cancelled, vetoed or executed: it leaves the sum and
\* its amount leaves the counter.
LEMMA SettleOwed ==
  ASSUME TypeOK, NEW p \in Proposals, Unpaid(p), committed' = committed - Commitment(p),
         ~Unpaid(p)', \A q \in Proposals : q # p => finalized'[q] = finalized[q],
         \A q \in Proposals :
           /\ proposals'[q].amount = proposals[q].amount
           /\ proposals'[q].kind = proposals[q].kind
           /\ q # p => proposals'[q] = proposals[q]
  PROVE  Slack' = Slack
<1>1. Owed \in Nat /\ committed \in Int /\ proposals[p].amount \in Nat
  BY OwedType DEF TypeOK, Proposal
<1>2. CASE proposals[p].kind = "Disbursement"
  <2>1. p \in OwedProposals /\ OwedProposals' = OwedProposals \ {p}
    BY <1>2 DEF OwedProposals, Unpaid
  <2>2. Owed' = Owed - proposals[p].amount
    BY <2>1, OwedLeaves
  <2>3. QED
    BY <1>1, <1>2, <2>2 DEF Slack, Commitment
<1>3. CASE proposals[p].kind # "Disbursement"
  <2>1. OwedProposals' = OwedProposals
    BY <1>3 DEF OwedProposals, Unpaid
  <2>2. Owed' = Owed
    BY <2>1, OwedSame DEF OwedProposals
  <2>3. QED
    BY <1>1, <1>3, <2>2 DEF Slack, Commitment
<1>4. QED
  BY <1>2, <1>3

\* A timely cancellation releases exactly what was committed for the proposal.
LEMMA CancelOwed ==
  ASSUME TypeOK, PipelineInv, NEW p \in Proposals, TimelyCancel(p)
  PROVE  Slack' = Slack
<1>0. proposals[p] \in Proposal /\ now \in Nat
  BY DEF TypeOK
<1>1. ~proposals[p].cancelled /\ ~proposals[p].executed
  BY <1>0 DEF TimelyCancel, Cancel, PublicStatus, Proposal
<1>2. /\ proposals' = [proposals EXCEPT ![p].cancelled = TRUE]
      /\ finalized' = finalized
  BY DEF TimelyCancel, Cancel
<1>3. /\ \A q \in Proposals :
           /\ proposals'[q].amount = proposals[q].amount
           /\ proposals'[q].kind = proposals[q].kind
           /\ proposals'[q].executed = proposals[q].executed
           /\ q # p => proposals'[q] = proposals[q]
      /\ proposals'[p].cancelled
  BY <1>0, <1>2 DEF TypeOK, Proposal
<1>4. CASE finalized[p] = "Queued"
  <2>1. PublicStatus(p) = "Queued"
    BY <1>1, <1>4 DEF PublicStatus
  <2>2. committed' = committed - Commitment(p)
    BY <2>1 DEF TimelyCancel, Cancel
  <2>3. Unpaid(p) /\ ~Unpaid(p)'
    BY <1>1, <1>3, <1>4 DEF Unpaid
  <2>4. QED
    BY <1>2, <1>3, <2>2, <2>3, SettleOwed
<1>5. CASE finalized[p] # "Queued"
  <2>1. finalized[p] = "None" /\ now <= proposals[p].deadline
    BY <1>0, <1>5 DEF TimelyCancel, PipelineInv, Proposal
  <2>2. PublicStatus(p) = "Pending"
    BY <1>1, <2>1 DEF PublicStatus
  <2>3. committed' = committed
    BY <2>2 DEF TimelyCancel, Cancel
  <2>4. OwedProposals' = OwedProposals
    BY <1>2, <1>3, <1>5 DEF OwedProposals, Unpaid
  <2>5. Owed' = Owed
    BY <1>3, <2>4, OwedSame DEF OwedProposals
  <2>6. QED
    BY <2>3, <2>5 DEF Slack
<1>6. QED
  BY <1>4, <1>5

\* A veto of a queued proposal releases exactly what was committed for it.
LEMMA VetoOwed ==
  ASSUME TypeOK, NEW p \in Proposals, NEW caller, Veto(caller, p)
  PROVE  Slack' = Slack
<1>1. Unpaid(p) /\ committed' = committed - Commitment(p)
  BY DEF Veto, Unpaid
<1>2. /\ proposals' = proposals /\ finalized'[p] = "Rejected"
      /\ \A q \in Proposals : q # p => finalized'[q] = finalized[q]
  BY DEF Veto, TypeOK
<1>3. ~Unpaid(p)'
  BY <1>2 DEF Unpaid
<1>4. QED
  BY <1>1, <1>2, <1>3, SettleOwed

\* Every outcome of execute_proposal releases what was committed.
LEMMA ExecuteOwed ==
  ASSUME TypeOK, NEW p \in Proposals, Execute(p)
  PROVE  Slack' = Slack /\ proposals'[p].executed /\ finalized'[p] = "Executed"
<1>1. Unpaid(p) /\ CanExecute(p)
  BY DEF Execute, ExecuteDisbursement, ExecuteFailed, ExecuteAllocation, ExecuteDeallocation,
     CanExecute, Unpaid
<1>2. MarkExecuted(p)
  BY DEF Execute, ExecuteDisbursement, ExecuteFailed, ExecuteAllocation, ExecuteDeallocation
<1>3. committed' = committed - Commitment(p)
  <2>1. CASE ExecuteAllocation(p) \/ ExecuteDeallocation(p)
    BY <2>1 DEF ExecuteAllocation, ExecuteDeallocation, Commitment, TypeOK
  <2>2. QED
    BY <2>1 DEF Execute, ExecuteDisbursement, ExecuteFailed
<1>4. /\ \A q \in Proposals :
           /\ proposals'[q].amount = proposals[q].amount
           /\ proposals'[q].kind = proposals[q].kind
           /\ q # p => proposals'[q] = proposals[q] /\ finalized'[q] = finalized[q]
      /\ proposals'[p].executed /\ finalized'[p] = "Executed"
  BY <1>2 DEF TypeOK, MarkExecuted, Proposal
<1>5. ~Unpaid(p)'
  BY <1>4 DEF Unpaid
<1>6. QED
  BY <1>1, <1>3, <1>4, <1>5, SettleOwed

\* No step but a finalization moves the counter away from the sum owed, as long
\* as cancellations are timely.
LEMMA SteadySlack ==
  ASSUME TypeOK, PipelineInv,
         \/ Common \/ UNCHANGED vars
         \/ \E p \in Submitted : TimelyCancel(p)
         \/ \E s \in Strategies : SetStrategy(s)
  PROVE  Slack' = Slack
<1> USE DEF ledgerVars, bookVars
<1>0. Submitted \subseteq Proposals
  BY SubmittedProposals
<1>1. CASE \/ Tick \/ Administer \/ Harvest \/ UNCHANGED vars
           \/ \E amount \in Amounts, a \in Assets : Deposit(amount, a)
           \/ \E amount \in DirectAmounts : Disburse(amount)
           \/ \E s \in Strategies :
                EmergencyWithdraw(s) \/ StrategyGain(s) \/ StrategyLoss(s) \/ SetStrategy(s)
  <2>1. UNCHANGED <<proposals, finalized, committed>>
    BY <1>1 DEF Tick, Administer, Harvest, vars, Deposit, Disburse, EmergencyWithdraw,
       StrategyGain, StrategyLoss, SetStrategy
  <2>2. QED
    BY <2>1, QuietOwed
<1>2. CASE \E kind \in Kinds, amount \in Amounts, s \in Strategies \cup {NoStrategy} :
             Submit(kind, amount, s)
  BY <1>2, SubmitOwed
<1>3. CASE \/ \E v \in Voters, p \in Submitted, support \in BOOLEAN, weight \in Weights :
                Vote(v, p, support, weight)
           \/ \E v \in Voters, p \in Submitted, weight \in Weights : ObjectTo(v, p, weight)
  BY <1>0, <1>3, TallyOwed
<1>4. CASE \/ \E caller \in Voters \cup {Admin}, p \in Submitted : Veto(caller, p)
           \/ \E p \in Submitted : Execute(p) \/ TimelyCancel(p)
  BY <1>0, <1>4, VetoOwed, ExecuteOwed, CancelOwed
<1>5. QED
  BY <1>1, <1>2, <1>3, <1>4 DEF Common

\* The inductive invariant of the counter under timely cancellations, and the
\* fact that what it says too much it says for ever: no call takes the excess
\* out of it again.
CoverInv == TypeOK /\ PipelineInv /\ CommitmentCovers

\* A timely step never lets the counter fall below the sum owed, nor the excess
\* shrink.
LEMMA TimelyStep == CoverInv /\ [TimelyNext]_vars => CoverInv' /\ Slack' >= Slack
<1> SUFFICES ASSUME CoverInv, [TimelyNext]_vars PROVE CoverInv' /\ Slack' >= Slack
  OBVIOUS
<1>1. TypeOK' /\ PipelineInv'
  BY RulesNest, NextType, NextPipeline DEF CoverInv
<1>2. /\ Owed \in Nat /\ committed \in Int
      /\ Owed' \in Nat /\ committed' \in Int
  BY <1>1, OwedType, OwedTypeNext DEF CoverInv, TypeOK
<1>3. Slack' >= Slack
  <2>1. CASE \E p \in Submitted : Finalize(p)
    BY <2>1, SubmittedProposals, FinalizeOwed DEF CoverInv
  <2>2. CASE ~\E p \in Submitted : Finalize(p)
    <3>1. \/ Common \/ UNCHANGED vars
          \/ \E p \in Submitted : TimelyCancel(p)
          \/ \E s \in Strategies : SetStrategy(s)
      BY <2>2 DEF TimelyNext
    <3>2. Slack' = Slack
      BY <3>1, SteadySlack DEF CoverInv
    <3>3. Slack \in Int
      BY <1>2 DEF Slack
    <3>4. QED
      BY <3>2, <3>3
  <2>3. QED
    BY <2>1, <2>2
<1>4. committed >= Owed
  BY DEF CoverInv, CommitmentCovers
<1>5. committed' >= Owed'
  <2>1. committed' - Owed' >= committed - Owed
    BY <1>3 DEF Slack
  <2>2. /\ Owed \in Int /\ committed \in Int
        /\ Owed' \in Int /\ committed' \in Int
    BY <1>2
  <2>3. \A a, b, c, d \in Int : a - b >= c - d /\ c >= d => a >= b
    OBVIOUS
  <2>4. QED
    BY <1>4, <2>1, <2>2, <2>3, Zenon
<1>6. QED
  BY <1>1, <1>3, <1>5 DEF CoverInv, CommitmentCovers

\* They hold after initialize.
LEMMA FundingInit == Init => TypeOK /\ PipelineInv /\ committed = 0 /\ Owed = 0
<1> SUFFICES ASSUME Init PROVE TypeOK /\ PipelineInv /\ committed = 0 /\ Owed = 0
  OBVIOUS
<1>1. OwedProposals = {}
  BY DEF Init, OwedProposals, Unpaid
<1>2. QED
  BY <1>1, InitType, InitPipeline, TotalEmpty DEF Init, Owed

\* With timely cancellations as the only rule - proposals may be finalized again
\* and again, after an execution or a cancellation too, and strategies may be
\* exchanged - the counter never falls below the sum owed.
THEOREM CommitmentCoversCorrect == TimelySpec => []CommitmentCovers
<1>1. Init => CoverInv
  BY FundingInit DEF CoverInv, CommitmentCovers
<1>2. CoverInv => CommitmentCovers
  BY DEF CoverInv
<1>3. QED
  BY <1>1, <1>2, TimelyStep, PTL DEF TimelySpec

\* The excess of the counter over the sum owed never shrinks: an approval that
\* is finalized again blocks later investments for good.
THEOREM ExcessIsForever == TimelySpec => [][Slack' >= Slack]_vars
<1>1. Init => CoverInv
  BY FundingInit DEF CoverInv, CommitmentCovers
<1>2. QED
  BY <1>1, TimelyStep, PTL DEF TimelySpec

\* An executed proposal keeps the status "Executed": nobody finalizes it again.
ExecutedIsRecorded ==
  \A p \in Proposals : proposals[p].executed => finalized[p] = "Executed"

FundingInv == TypeOK /\ PipelineInv /\ ExecutedIsRecorded /\ CommittedIsOwed

\* Only an execution sets the executed flag, and only a finalization or a veto
\* of an unexecuted proposal replaces a status.
LEMMA RecordedStep ==
  ASSUME TypeOK, PipelineInv, ExecutedIsRecorded, [FinalizedOnceNext]_vars
  PROVE  ExecutedIsRecorded'
<1> USE DEF ledgerVars, bookVars
<1>0. Submitted \subseteq Proposals
  BY SubmittedProposals
<1>1. CASE UNCHANGED <<proposals, finalized>>
  BY <1>1 DEF ExecutedIsRecorded
<1>2. ASSUME NEW kind \in Kinds, NEW amount \in Amounts,
             NEW s \in Strategies \cup {NoStrategy}, Submit(kind, amount, s)
      PROVE  ExecutedIsRecorded'
  <2>1. /\ nextId \in Proposals /\ finalized' = finalized
        /\ \A q \in Proposals : q # nextId => proposals'[q] = proposals[q]
        /\ proposals'[nextId].executed = FALSE
    BY <1>2 DEF TypeOK, Submit, Proposals, NoProposal
  <2>2. QED
    BY <2>1 DEF ExecutedIsRecorded
<1>3. ASSUME NEW p \in Proposals,
             \/ \E v \in Voters, weight \in Weights :
                  ObjectTo(v, p, weight) \/ \E support \in BOOLEAN : Vote(v, p, support, weight)
             \/ TimelyCancel(p) \/ FirstFinalize(p) \/ \E caller : Veto(caller, p)
      PROVE  ExecutedIsRecorded'
  <2>1. \A q \in Proposals : proposals'[q].executed = proposals[q].executed
    <3>1. CASE \E v \in Voters, weight \in Weights, support \in BOOLEAN :
                 Vote(v, p, support, weight)
      BY <3>1 DEF TypeOK, Proposal, Vote
    <3>2. CASE \E v \in Voters, weight \in Weights : ObjectTo(v, p, weight)
      BY <3>2 DEF TypeOK, Proposal, ObjectTo
    <3>3. CASE TimelyCancel(p) \/ FirstFinalize(p) \/ \E caller : Veto(caller, p)
      BY <3>3 DEF TypeOK, Proposal, TimelyCancel, Cancel, FirstFinalize, Finalize,
         FinalizeQueued, FinalizeRejected, Veto
    <3>4. QED
      BY <1>3, <3>1, <3>2, <3>3
  <2>2. \A q \in Proposals : finalized'[q] = finalized[q] \/ (q = p /\ ~proposals[p].executed)
    BY <1>3 DEF TypeOK, ObjectTo, Vote, TimelyCancel, Cancel, FirstFinalize, Finalize,
       FinalizeQueued, FinalizeRejected, Veto, ExecutedIsRecorded
  <2>3. QED
    BY <2>1, <2>2 DEF ExecutedIsRecorded
<1>4. ASSUME NEW p \in Proposals, Execute(p)
      PROVE  ExecutedIsRecorded'
  <2>1. MarkExecuted(p)
    BY <1>4 DEF Execute, ExecuteDisbursement, ExecuteFailed, ExecuteAllocation, ExecuteDeallocation
  <2>2. /\ finalized'[p] = "Executed"
        /\ \A q \in Proposals :
             q # p => proposals'[q] = proposals[q] /\ finalized'[q] = finalized[q]
    BY <2>1 DEF TypeOK, MarkExecuted
  <2>3. QED
    BY <2>2 DEF ExecutedIsRecorded
<1>5. QED
  BY <1>0, <1>1, <1>2, <1>3, <1>4 DEF FinalizedOnceNext, Common, Tick, Administer, Harvest, vars,
     Deposit, Disburse, EmergencyWithdraw, StrategyGain, StrategyLoss, SetStrategy

\* The four parts of the invariant are inductive together.
LEMMA FinalizedOnceStep == FundingInv /\ [FinalizedOnceNext]_vars => FundingInv'
<1> SUFFICES ASSUME FundingInv, [FinalizedOnceNext]_vars PROVE FundingInv'
  OBVIOUS
<1>1. TypeOK' /\ PipelineInv'
  BY RulesNest, NextType, NextPipeline DEF FundingInv
<1>2. ExecutedIsRecorded'
  BY RecordedStep DEF FundingInv
<1>3. Slack' = Slack
  <2>1. CASE \E p \in Submitted : FirstFinalize(p)
    <3>1. PICK p \in Proposals : FirstFinalize(p)
      BY <2>1, SubmittedProposals DEF FundingInv
    <3>2. finalized[p] = "None" /\ ~proposals[p].executed /\ ~proposals[p].cancelled
      BY <3>1 DEF FirstFinalize, FundingInv, ExecutedIsRecorded
    <3>3. QED
      BY <3>1, <3>2, FinalizeOwed DEF FirstFinalize, FundingInv
  <2>2. CASE ~\E p \in Submitted : FirstFinalize(p)
    BY <2>2, SteadySlack DEF FundingInv, FinalizedOnceNext
  <2>3. QED
    BY <2>1, <2>2
<1>4. /\ Owed \in Nat /\ committed \in Int
      /\ Owed' \in Nat /\ committed' \in Int
  BY <1>1, OwedType, OwedTypeNext DEF FundingInv, TypeOK
<1>5. committed = Owed
  BY DEF FundingInv, CommittedIsOwed
<1>6. committed' = Owed'
  <2>1. committed' - Owed' = committed - Owed
    BY <1>3 DEF Slack
  <2>2. /\ Owed \in Int /\ committed \in Int
        /\ Owed' \in Int /\ committed' \in Int
    BY <1>4
  <2>3. \A a, b, c, d \in Int : a - b = c - d /\ c = d => a = b
    OBVIOUS
  <2>4. QED
    BY <1>5, <2>1, <2>2, <2>3, Zenon
<1>7. QED
  BY <1>1, <1>2, <1>6 DEF FundingInv, CommittedIsOwed

\* The inductive invariant of the counter when proposals are finalized once:
\* types, pipeline stages, the executed flag recorded as a status, and the
\* counter equal to the sum owed.
THEOREM FundingInvariant == FinalizedOnceSpec => []FundingInv
<1>1. Init => FundingInv
  <2>1. Init => ExecutedIsRecorded
    BY DEF Init, ExecutedIsRecorded, NoProposal
  <2>2. QED
    BY <2>1, FundingInit DEF FundingInv, CommittedIsOwed
<1>2. QED
  BY <1>1, FinalizedOnceStep, PTL DEF FinalizedOnceSpec

\* When a proposal is finalized once and cancelled in time, the running counter
\* CMTMEU is exactly the sum of the approved-but-unpaid disbursements, whatever
\* strategies are registered.
THEOREM CommitmentCorrect == FinalizedOnceSpec => []CommittedIsOwed
<1>1. FundingInv => CommittedIsOwed
  BY DEF FundingInv
<1>2. QED
  BY <1>1, FundingInvariant, PTL

\* What a step of the disciplined treasury does to a status that is stored.
LEMMA StatusKept ==
  ASSUME TypeOK, [FinalizedOnceNext]_vars, NEW p \in Proposals,
         finalized[p] \in {"Rejected", "Executed"}
  PROVE  finalized'[p] = finalized[p]
<1> USE DEF ledgerVars, bookVars
<1>0. Submitted \subseteq Proposals
  BY SubmittedProposals
<1>1. CASE UNCHANGED finalized
  BY <1>1
<1>2. ASSUME NEW q \in Submitted, FirstFinalize(q) PROVE finalized'[p] = finalized[p]
  BY <1>0, <1>2 DEF FirstFinalize, Finalize, FinalizeQueued, FinalizeRejected, TypeOK
<1>3. ASSUME NEW q \in Submitted, NEW caller \in Voters \cup {Admin}, Veto(caller, q)
      PROVE  finalized'[p] = finalized[p]
  BY <1>0, <1>3 DEF Veto, TypeOK
<1>4. ASSUME NEW q \in Submitted, Execute(q) PROVE finalized'[p] = finalized[p]
  BY <1>0, <1>4 DEF Execute, ExecuteDisbursement, ExecuteFailed, ExecuteAllocation,
                    ExecuteDeallocation, CanExecute, MarkExecuted, TypeOK
<1>5. CASE ~ \/ \E q \in Submitted : FirstFinalize(q) \/ Execute(q)
             \/ \E q \in Submitted, caller \in Voters \cup {Admin} : Veto(caller, q)
  BY <1>5, <1>1 DEF FinalizedOnceNext, Common, Tick, Administer, Harvest, Deposit,
     Disburse, Submit, Vote, ObjectTo, EmergencyWithdraw, StrategyGain, StrategyLoss,
     SetStrategy, TimelyCancel, Cancel, vars
<1>6. QED
  BY <1>2, <1>3, <1>4, <1>5

\* What finalize_proposal's comment promises is kept as long as it is not called
\* for a proposal that has been finalized or cancelled: a status once final is
\* final, since vetoes and executions ask for a queued proposal.  (The contract
\* lets it be called again, and then the promise is broken.)
THEOREM FinalityCorrect == FinalizedOnceSpec => FinalStatusIsFinal
<1>1. TypeOK /\ [FinalizedOnceNext]_vars
        => [\A p \in Proposals :
              finalized[p] \in {"Rejected", "Executed"} => finalized'[p] = finalized[p]]_vars
  BY StatusKept
<1>2. FundingInv => TypeOK
  BY DEF FundingInv
<1>3. QED
  BY <1>1, <1>2, FundingInvariant, PTL DEF FinalizedOnceSpec, FinalStatusIsFinal

-----------------------------------------------------------------------------
(* The liquidity buffer *)

\* Whatever the buffer, it asks for at least the commitment itself.
LEMMA BufferCovers ==
  ASSUME NEW c \in Nat, NEW b \in 0 .. BPS
  PROVE  TruncDiv(c * (BPS + b), BPS) >= c
<1>1. c * (BPS + b) = c * BPS + c * b /\ c * b \in Nat
  BY DEF BPS
<1>2. \A x \in Nat : (c * BPS + x) \div BPS >= c /\ c * BPS + x >= 0
  BY DEF BPS
<1>3. QED
  BY <1>1, <1>2 DEF TruncDiv

\* An allocation is no scholarship, so the sum owed is what it was.
LEMMA AllocationOwed ==
  ASSUME TypeOK, NEW p \in Proposals, ExecuteAllocation(p)
  PROVE  Owed' = Owed
<1>1. proposals[p] \in Proposal /\ proposals[p].kind = "Allocation"
  BY DEF TypeOK, ExecuteAllocation
<1>2. /\ \A q \in Proposals :
           /\ proposals'[q].amount = proposals[q].amount
           /\ proposals'[q].kind = proposals[q].kind
           /\ q # p => proposals'[q] = proposals[q] /\ finalized'[q] = finalized[q]
  BY <1>1 DEF TypeOK, ExecuteAllocation, MarkExecuted, Proposal
<1>3. OwedProposals' = OwedProposals
  BY <1>1, <1>2 DEF OwedProposals, Unpaid
<1>4. QED
  BY <1>2, <1>3, OwedSame DEF OwedProposals

\* Only an execution of an allocation raises the principal.
LEMMA PrincipalRises ==
  ASSUME TypeOK, [Next]_vars, principal' > principal
  PROVE  \E p \in Submitted : ExecuteAllocation(p)
<1> SUFFICES ASSUME ~\E p \in Submitted : ExecuteAllocation(p)
             PROVE  principal' <= principal
  BY NextType DEF TypeOK
<1>1. CASE principal' = principal
  BY <1>1 DEF TypeOK
<1>2. CASE \E returned : TakeBack(returned) /\ returned \in Int
  <2>1. StrategyTotal \in Int
    BY DEF TypeOK, StrategyTotal
  <2>2. QED
    BY <1>2, <2>1 DEF TypeOK, TakeBack, Min2
<1>3. CASE \/ Harvest \/ \E s \in Strategies : EmergencyWithdraw(s)
           \/ \E p \in Submitted : ExecuteDeallocation(p)
  <2>1. proposals \in [Proposals -> Proposal] /\ StrategyTotal \in Int /\ principal \in Int
    BY DEF TypeOK, StrategyTotal
  <2>2. \A p \in Submitted : proposals[p].amount \in Int
    BY <2>1, SubmittedProposals DEF Proposal, TypeOK
  <2>3. QED
    BY <1>2, <1>3, <2>1, <2>2 DEF Harvest, EmergencyWithdraw, ExecuteDeallocation
<1>4. QED
  BY <1>1, <1>3 DEF Next, Common, Tick, Administer, Deposit, Disburse, Submit, Vote,
     ObjectTo, Veto, Execute, ExecuteDisbursement, ExecuteFailed, StrategyGain, StrategyLoss,
     Finalize, FinalizeQueued, FinalizeRejected, Cancel, SetStrategy, bookVars, vars

\* With timely cancellations as the only rule, no investment takes idle funds
\* that an approved scholarship waits for.
THEOREM InvestmentCorrect == TimelySpec => InvestmentLeavesOwed
<1>1. CoverInv /\ [TimelyNext]_vars => (principal' > principal => idle' >= Owed')
  <2> SUFFICES ASSUME CoverInv, [TimelyNext]_vars, principal' > principal
               PROVE  idle' >= Owed'
    OBVIOUS
  <2>1. PICK p \in Submitted : ExecuteAllocation(p)
    BY RulesNest, PrincipalRises DEF CoverInv
  <2>2. p \in Proposals
    BY SubmittedProposals DEF CoverInv
  <2>3. Owed' = Owed /\ committed >= Owed /\ Owed \in Nat /\ committed \in Nat
    BY <2>1, <2>2, AllocationOwed, OwedType DEF CoverInv, CommitmentCovers, TypeOK
  <2>4. idle' >= TruncDiv(committed * (BPS + params.bufferBps), BPS)
    BY <2>1 DEF ExecuteAllocation, AboveBuffer
  <2>5. TruncDiv(committed * (BPS + params.bufferBps), BPS) >= committed
    BY <2>3, BufferCovers DEF CoverInv, TypeOK, Params
  <2>6. TruncDiv(committed * (BPS + params.bufferBps), BPS) \in Int /\ idle' \in Int
    <3>1. params.bufferBps \in Int /\ committed \in Int
      BY DEF CoverInv, TypeOK, Params
    <3>2. committed * (BPS + params.bufferBps) \in Int
      BY <3>1 DEF BPS
    <3>3. \A x \in Int : TruncDiv(x, BPS) \in Int
      BY DEF TruncDiv, BPS
    <3>4. idle' \in Int
      BY <2>1, <2>2 DEF CoverInv, TypeOK, ExecuteAllocation, Proposal
    <3>5. QED
      BY <3>2, <3>3, <3>4
  <2>7. QED
    BY <2>3, <2>4, <2>5, <2>6
<1>2. Init => CoverInv
  BY FundingInit DEF CoverInv, CommitmentCovers
<1>3. QED
  BY <1>1, <1>2, TimelyStep, PTL DEF TimelySpec, InvestmentLeavesOwed

-----------------------------------------------------------------------------
(* The yield *)

\* An allocation proposal names an adapter.
AimsAtStrategy ==
  \A p \in Proposals : proposals[p].kind = "Allocation" => proposals[p].strategy \in Strategies

\* Nothing is invested without a strategy, and nothing in any other one.
StrategyBooked ==
  /\ registered = NoStrategy => principal = 0
  /\ \A s \in Strategies : s # registered => worth[s] = 0

Surplus == IF StrategyTotal > principal THEN StrategyTotal - principal ELSE 0

YieldInv == TypeOK /\ AimsAtStrategy /\ StrategyBooked /\ YieldWasEarned

\* Only submit_proposal decides the kind of a proposal and its adapter.
LEMMA AimsStep ==
  ASSUME TypeOK, AimsAtStrategy, [OneStrategyNext]_vars
  PROVE  AimsAtStrategy'
<1>0. Submitted \subseteq Proposals
  BY SubmittedProposals
<1>1. CASE proposals' = proposals
  BY <1>1 DEF AimsAtStrategy
<1>2. CASE \A q \in Proposals : /\ proposals'[q].kind = proposals[q].kind
                                /\ proposals'[q].strategy = proposals[q].strategy
  BY <1>2 DEF AimsAtStrategy
<1>3. ASSUME NEW kind \in Kinds, NEW amount \in Amounts,
             NEW s \in Strategies \cup {NoStrategy}, Submit(kind, amount, s)
      PROVE  AimsAtStrategy'
  <2>1. /\ nextId \in Proposals
        /\ \A q \in Proposals : q # nextId => proposals'[q] = proposals[q]
        /\ proposals'[nextId].kind = kind /\ proposals'[nextId].strategy = s
    BY <1>3 DEF TypeOK, Submit, Proposals, NoProposal
  <2>2. kind = "Allocation" => s \in Strategies
    BY <1>3 DEF Submit
  <2>3. QED
    BY <2>1, <2>2 DEF AimsAtStrategy
<1>4. ASSUME NEW p \in Proposals,
             \/ \E v \in Voters, weight \in Weights :
                  ObjectTo(v, p, weight) \/ \E support \in BOOLEAN : Vote(v, p, support, weight)
             \/ Finalize(p) \/ Cancel(p) \/ MarkExecuted(p)
      PROVE  AimsAtStrategy'
  <2>1. CASE \E v \in Voters, weight \in Weights : ObjectTo(v, p, weight)
    BY <1>2, <2>1 DEF TypeOK, Proposal, ObjectTo
  <2>2. CASE \E v \in Voters, weight \in Weights, support \in BOOLEAN :
               Vote(v, p, support, weight)
    BY <1>2, <2>2 DEF TypeOK, Proposal, Vote
  <2>3. CASE Finalize(p)
    BY <1>1, <1>2, <2>3 DEF TypeOK, Proposal, Finalize, FinalizeQueued,
       FinalizeRejected
  <2>4. CASE Cancel(p)
    BY <1>2, <2>4 DEF TypeOK, Proposal, Cancel
  <2>5. CASE MarkExecuted(p)
    BY <1>2, <2>5 DEF TypeOK, Proposal, MarkExecuted
  <2>6. QED
    BY <1>4, <2>1, <2>2, <2>3, <2>4, <2>5
<1>5. \A p \in Submitted : Execute(p) => MarkExecuted(p)
  BY DEF Execute, ExecuteDisbursement, ExecuteFailed, ExecuteAllocation, ExecuteDeallocation
<1>6. QED
  BY <1>0, <1>1, <1>3, <1>4, <1>5 DEF OneStrategyNext, Common, Tick, Administer, Harvest, Deposit,
     Disburse, Veto, EmergencyWithdraw, StrategyGain, StrategyLoss, FirstStrategy, SetStrategy,
     ledgerVars, vars

\* Steps that touch neither the investment nor the interest.
LEMMA QuietYield ==
  ASSUME YieldInv, UNCHANGED <<registered, principal, totalYield, worth, gains>>
  PROVE  StrategyBooked' /\ YieldWasEarned'
BY DEF YieldInv, StrategyBooked, YieldWasEarned, StrategyTotal

\* What comes back leaves the adapter, and the principal is written down to
\* what is still there.
LEMMA TakeBackYield ==
  ASSUME YieldInv, NEW returned \in Nat, returned <= StrategyTotal, TakeBack(returned),
         registered' = registered
  PROVE  /\ StrategyBooked' /\ gains' = gains
         /\ StrategyTotal' = StrategyTotal - returned
         /\ principal' = Min2(StrategyTotal - returned, principal)
<1>1. /\ gains' = gains /\ principal' = Min2(StrategyTotal - returned, principal)
      /\ worth' = [worth EXCEPT ![registered] = StrategyTotal - returned]
  BY DEF TakeBack
<1>2. StrategyTotal \in Nat /\ principal \in Nat
  BY DEF YieldInv, TypeOK, StrategyTotal
<1>3. CASE registered = NoStrategy
  <2>1. StrategyTotal = 0 /\ returned = 0 /\ principal = 0
    BY <1>3 DEF StrategyTotal, YieldInv, StrategyBooked
  <2>2. \A s \in Strategies : worth'[s] = worth[s]
    BY <1>1, <1>3, ConfigAssumption DEF YieldInv, TypeOK
  <2>3. StrategyTotal' = 0 /\ principal' = 0
    BY <1>1, <1>3, <2>1 DEF StrategyTotal, Min2
  <2>4. QED
    BY <1>1, <1>3, <2>1, <2>2, <2>3 DEF YieldInv, StrategyBooked
<1>4. CASE registered # NoStrategy
  <2>1. registered \in Strategies
    BY <1>4 DEF YieldInv, TypeOK
  <2>2. /\ worth'[registered] = StrategyTotal - returned
        /\ \A s \in Strategies : s # registered => worth'[s] = worth[s]
    BY <1>1, <2>1 DEF YieldInv, TypeOK
  <2>3. StrategyTotal' = StrategyTotal - returned
    BY <1>4, <2>2 DEF StrategyTotal
  <2>4. QED
    BY <1>1, <1>4, <2>2, <2>3 DEF YieldInv, StrategyBooked
<1>5. QED
  BY <1>3, <1>4

\* A withdrawal reports no yield; a harvest reports what it takes off the surplus.
LEMMA ReturnYield ==
  ASSUME YieldInv, NEW returned \in Nat, returned <= StrategyTotal, TakeBack(returned),
         registered' = registered,
         \/ totalYield' = totalYield
         \/ totalYield' = totalYield + returned /\ returned <= StrategyTotal - principal
  PROVE  StrategyBooked' /\ YieldWasEarned'
<1>1. /\ StrategyTotal \in Nat /\ principal \in Nat /\ totalYield \in Nat /\ gains \in Nat
  BY DEF YieldInv, TypeOK, StrategyTotal
<1>2. totalYield + Surplus <= gains
  BY DEF YieldInv, YieldWasEarned, Surplus
<1>3. /\ StrategyBooked' /\ gains' = gains
      /\ StrategyTotal' = StrategyTotal - returned
      /\ principal' = Min2(StrategyTotal - returned, principal)
  BY TakeBackYield
<1>4. totalYield' + Surplus' <= gains'
  BY <1>1, <1>2, <1>3 DEF Surplus, Min2
<1>5. QED
  BY <1>3, <1>4 DEF YieldWasEarned, Surplus

\* An investment adds the same amount to what is invested and to the principal.
LEMMA AllocationYield ==
  ASSUME YieldInv, NEW p \in Proposals, ExecuteAllocation(p)
  PROVE  StrategyBooked' /\ YieldWasEarned'
<1>1. registered' = registered /\ gains' = gains /\ totalYield' = totalYield
  BY DEF ExecuteAllocation, MarkExecuted, configVars
<1>2. registered \in Strategies /\ registered # NoStrategy
  BY ConfigAssumption DEF YieldInv, AimsAtStrategy, ExecuteAllocation
<1>3. /\ worth'[registered] = worth[registered] + proposals[p].amount
      /\ \A s \in Strategies : s # registered => worth'[s] = worth[s]
      /\ principal' = principal + proposals[p].amount
  BY <1>2 DEF YieldInv, TypeOK, ExecuteAllocation
<1>4. /\ worth[registered] \in Nat /\ principal \in Nat /\ proposals[p].amount \in Nat
      /\ totalYield \in Nat /\ gains \in Nat
  BY <1>2 DEF YieldInv, TypeOK, Proposal
<1>5. StrategyTotal' > principal' <=> StrategyTotal > principal
  BY <1>1, <1>2, <1>3, <1>4 DEF StrategyTotal
<1>6. StrategyTotal' - principal' = StrategyTotal - principal
  BY <1>1, <1>2, <1>3, <1>4 DEF StrategyTotal
<1>7. YieldWasEarned'
  BY <1>1, <1>5, <1>6 DEF YieldInv, YieldWasEarned
<1>8. StrategyBooked'
  BY <1>1, <1>2, <1>3 DEF YieldInv, StrategyBooked
<1>9. QED
  BY <1>7, <1>8

\* Interest widens the surplus by what it adds to the gains; a loss narrows it.
LEMMA MarketYield ==
  ASSUME YieldInv, NEW s \in Strategies, StrategyGain(s) \/ StrategyLoss(s)
  PROVE  StrategyBooked' /\ YieldWasEarned'
<1>1. /\ UNCHANGED <<registered, principal, totalYield>>
      /\ registered = s
  BY DEF StrategyGain, StrategyLoss, configVars, bookVars, YieldInv, StrategyBooked
<1>2. /\ worth[s] \in Nat /\ principal \in Nat /\ totalYield \in Nat /\ gains \in Nat
      /\ s # NoStrategy
  BY ConfigAssumption DEF YieldInv, TypeOK
<1>3. \A q \in Strategies : q # s => worth'[q] = worth[q]
  BY DEF StrategyGain, StrategyLoss, YieldInv, TypeOK
<1>4. \/ worth'[s] = worth[s] + 1 /\ gains' = gains + 1
      \/ worth'[s] = worth[s] - 1 /\ gains' = gains
  BY DEF StrategyGain, StrategyLoss, YieldInv, TypeOK
<1>5. StrategyTotal = worth[s] /\ StrategyTotal' = worth'[s]
  BY <1>1, <1>2 DEF StrategyTotal
<1>6. YieldWasEarned'
  <2>1. totalYield + (IF worth[s] > principal THEN worth[s] - principal ELSE 0) <= gains
    BY <1>5 DEF YieldInv, YieldWasEarned
  <2>2. totalYield + (IF worth'[s] > principal THEN worth'[s] - principal ELSE 0) <= gains'
    BY <1>2, <1>4, <2>1
  <2>3. QED
    BY <1>1, <1>5, <2>2 DEF YieldWasEarned
<1>7. StrategyBooked'
  BY <1>1, <1>2, <1>3 DEF YieldInv, StrategyBooked
<1>8. QED
  BY <1>6, <1>7

\* The strategy that is chosen first holds nothing yet.
LEMMA FirstStrategyYield ==
  ASSUME YieldInv, NEW s \in Strategies, FirstStrategy(s)
  PROVE  StrategyBooked' /\ YieldWasEarned'
<1>1. /\ registered = NoStrategy /\ registered' = s /\ s # NoStrategy
      /\ UNCHANGED <<principal, totalYield, worth, gains>>
  BY ConfigAssumption DEF FirstStrategy, SetStrategy, bookVars, externVars
<1>2. worth[s] = 0 /\ principal = 0 /\ StrategyTotal = 0 /\ StrategyTotal' = 0
  BY <1>1 DEF YieldInv, StrategyBooked, StrategyTotal
<1>3. StrategyBooked'
  BY <1>1, <1>2, ConfigAssumption DEF YieldInv, StrategyBooked
<1>4. totalYield <= gains /\ totalYield \in Nat
  BY <1>2 DEF YieldInv, YieldWasEarned, TypeOK
<1>5. YieldWasEarned'
  BY <1>1, <1>2, <1>4 DEF YieldWasEarned
<1>6. QED
  BY <1>3, <1>5

\* The other outcomes of execute_proposal.
LEMMA ExecuteYield ==
  ASSUME YieldInv, NEW p \in Proposals, Execute(p)
  PROVE  StrategyBooked' /\ YieldWasEarned'
<1>1. registered' = registered
  BY DEF Execute, ExecuteDisbursement, ExecuteFailed, ExecuteAllocation, ExecuteDeallocation,
     MarkExecuted, configVars
<1>2. CASE ExecuteDisbursement(p) \/ ExecuteFailed(p)
  BY <1>1, <1>2, QuietYield DEF ExecuteDisbursement, ExecuteFailed, externVars
<1>3. CASE ExecuteDeallocation(p)
  <2>1. proposals[p].amount \in Nat /\ proposals[p].amount <= StrategyTotal
    BY <1>3 DEF ExecuteDeallocation, YieldInv, TypeOK, Proposal
  <2>2. PICK returned \in 0 .. proposals[p].amount : TakeBack(returned)
    BY <1>3 DEF ExecuteDeallocation
  <2>3. returned \in Nat /\ returned <= StrategyTotal /\ totalYield' = totalYield
    <3>1. StrategyTotal \in Nat
      BY DEF YieldInv, TypeOK, StrategyTotal
    <3>2. QED
      BY <1>3, <2>1, <3>1 DEF ExecuteDeallocation
  <2>4. QED
    BY <1>1, <2>2, <2>3, ReturnYield
<1>4. QED
  BY <1>2, <1>3, AllocationYield DEF Execute

\* The invariant of the yield is inductive.
LEMMA YieldStep == YieldInv /\ [OneStrategyNext]_vars => YieldInv'
<1> SUFFICES ASSUME YieldInv, [OneStrategyNext]_vars PROVE YieldInv'
  OBVIOUS
<1> USE DEF configVars, bookVars, externVars
<1>0. Submitted \subseteq Proposals /\ StrategyTotal \in Nat /\ principal \in Nat
  BY SubmittedProposals DEF YieldInv, TypeOK, StrategyTotal
<1>1. TypeOK' /\ AimsAtStrategy'
  BY RulesNest, NextType, AimsStep DEF YieldInv
<1>2. CASE UNCHANGED <<registered, principal, totalYield, worth, gains>>
  BY <1>1, <1>2, QuietYield DEF YieldInv
<1>3. CASE \/ Tick \/ Administer \/ UNCHANGED vars
           \/ \E amount \in Amounts, a \in Assets : Deposit(amount, a)
           \/ \E amount \in DirectAmounts : Disburse(amount)
  BY <1>2, <1>3 DEF Tick, Administer, Pause, Unpause, SetParams, AddSupportedAsset, Deposit,
     Disburse, vars
<1>4. CASE \/ \E kind \in Kinds, amount \in Amounts, s \in Strategies \cup {NoStrategy} :
                Submit(kind, amount, s)
           \/ \E v \in Voters, p \in Submitted, support \in BOOLEAN, weight \in Weights :
                Vote(v, p, support, weight)
           \/ \E v \in Voters, p \in Submitted, weight \in Weights : ObjectTo(v, p, weight)
           \/ \E caller \in Voters \cup {Admin}, p \in Submitted : Veto(caller, p)
  <2>1. CASE \E v \in Voters, p \in Submitted, support \in BOOLEAN, weight \in Weights :
               Vote(v, p, support, weight)
    <3>1. UNCHANGED <<registered, principal, totalYield, worth, gains>>
      BY <2>1 DEF Vote
    <3>2. QED
      BY <1>2, <3>1
  <2>2. CASE \E kind \in Kinds, amount \in Amounts, s \in Strategies \cup {NoStrategy} :
               Submit(kind, amount, s)
    <3>1. UNCHANGED <<registered, principal, totalYield, worth, gains>>
      BY <2>2 DEF Submit
    <3>2. QED
      BY <1>2, <3>1
  <2>3. QED
    BY <1>2, <1>4, <2>1, <2>2 DEF ObjectTo, Veto
<1>5. CASE \E p \in Submitted : Finalize(p) \/ Cancel(p)
  BY <1>2, <1>5 DEF Finalize, FinalizeQueued, FinalizeRejected, Cancel
<1>6. CASE Harvest
  <2>1. PICK returned \in 0 .. StrategyTotal - principal :
          TakeBack(returned) /\ totalYield' = totalYield + returned
    BY <1>6 DEF Harvest
  <2>2. returned \in Nat /\ returned <= StrategyTotal /\ registered' = registered
    BY <1>0, <1>6 DEF Harvest
  <2>3. QED
    BY <1>0, <1>1, <2>1, <2>2, ReturnYield DEF YieldInv
<1>7. CASE \E s \in Strategies : EmergencyWithdraw(s)
  <2>1. PICK returned \in 0 .. StrategyTotal : TakeBack(returned)
    BY <1>7 DEF EmergencyWithdraw
  <2>2. /\ returned \in Nat /\ returned <= StrategyTotal
        /\ registered' = registered /\ totalYield' = totalYield
    BY <1>0, <1>7 DEF EmergencyWithdraw
  <2>3. QED
    BY <1>1, <2>1, <2>2, ReturnYield DEF YieldInv
<1>8. CASE \E s \in Strategies : StrategyGain(s) \/ StrategyLoss(s)
  BY <1>1, <1>8, MarketYield DEF YieldInv
<1>9. CASE \E s \in Strategies : FirstStrategy(s)
  BY <1>1, <1>9, FirstStrategyYield DEF YieldInv
<1>10. CASE \E p \in Submitted : Execute(p)
  BY <1>0, <1>1, <1>10, ExecuteYield DEF YieldInv
<1>11. QED
  BY <1>3, <1>4, <1>5, <1>6, <1>7, <1>8, <1>9, <1>10 DEF OneStrategyNext, Common

\* As long as one strategy is chosen, every unit of yield the treasury reports
\* was earned, however proposals are finalized and cancelled:
\* neither a partial withdrawal nor a write-down turns principal into yield.
THEOREM YieldCorrect == OneStrategySpec => []YieldWasEarned
<1>1. Init => YieldInv
  <2> SUFFICES ASSUME Init PROVE YieldInv
    OBVIOUS
  <2>1. TypeOK /\ AimsAtStrategy
    BY InitType DEF Init, AimsAtStrategy, NoProposal
  <2>2. StrategyBooked /\ YieldWasEarned
    BY DEF Init, StrategyBooked, YieldWasEarned, StrategyTotal
  <2>3. QED
    BY <2>1, <2>2 DEF YieldInv
<1>2. YieldInv => YieldWasEarned
  BY DEF YieldInv
<1>3. QED
  BY <1>1, <1>2, YieldStep, PTL DEF OneStrategySpec

\* Under all three rules together, as the funding run checks them: the counter is
\* exact, no investment takes what is owed, and all yield was earned.
THEOREM DisciplinedCorrect ==
  DisciplinedSpec => [](CommittedIsOwed /\ YieldWasEarned) /\ InvestmentLeavesOwed
BY RulesNestSpec, CommitmentCorrect, YieldCorrect, InvestmentCorrect, PTL
=============================================================================
