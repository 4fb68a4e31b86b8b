\* The commitment counter against the sum its comment promises.
SPECIFICATION Spec
CONSTANTS
  MaxProposals = 1
  MaxLedger = 3
  MaxFunds = 4
  MaxGains = 1
  MaxCommitted = 4
  Kinds = {"Disbursement"}
  Voters = {v1}
  Weights = {100}
  Admin = admin
  Usdc = usdc
  Assets = {usdc}
  Strategies = {}
  NoStrategy = NoStrategy
  Amounts = {2}
  DirectAmounts = {}
  InitialParams <- MCParams
  Quorums = {}
  ApprovalBps = {}
  VotingPeriods = {}
  TimelockDelays = {}
  AllocationBps = {}
  BufferBps = {}
INVARIANTS CommittedIsOwed
CHECK_DEADLOCK FALSE
