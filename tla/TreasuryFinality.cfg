\* Repeated finalization against the finality of the stored status.
SPECIFICATION Spec
CONSTANTS
  MaxProposals = 1
  MaxLedger = 3
  MaxFunds = 4
  MaxGains = 1
  MaxCommitted = 4
  Kinds = {"Disbursement"}
  Voters = {v1}
  Weights = {100}
  Admin = admin
  Usdc = usdc
  Assets = {usdc}
  Strategies = {}
  NoStrategy = NoStrategy
  Amounts = {2}
  DirectAmounts = {}
  InitialParams <- MCParams
  Quorums = {}
  ApprovalBps = {}
  VotingPeriods = {}
  TimelockDelays = {}
  AllocationBps = {}
  BufferBps = {}
PROPERTIES FinalStatusIsFinal
CHECK_DEADLOCK FALSE
