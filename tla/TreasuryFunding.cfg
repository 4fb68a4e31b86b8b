\* Disbursements against investments, under the operating discipline: two
\* proposals of any kind compete for the same idle funds.
SPECIFICATION DisciplinedSpec
CONSTANTS
  MaxProposals = 2
  MaxLedger = 3
  MaxFunds = 4
  MaxGains = 1
  MaxCommitted = 4
  Kinds = {"Disbursement", "Allocation", "Deallocation"}
  Voters = {v1}
  Weights = {100}
  Admin = admin
  Usdc = usdc
  Assets = {usdc}
  Strategies = {s1}
  NoStrategy = NoStrategy
  Amounts = {2}
  DirectAmounts = {}
  InitialParams <- MCParams
  Quorums = {}
  ApprovalBps = {10000}
  VotingPeriods = {}
  TimelockDelays = {}
  AllocationBps = {5000}
  BufferBps = {0}
INVARIANTS TypeOK BooksMatchTokens CommittedIsOwed YieldWasEarned
PROPERTIES InvestmentLeavesOwed
CHECK_DEADLOCK FALSE
