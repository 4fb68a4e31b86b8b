\* The proposal pipeline without strategies: votes, parameter changes,
\* repeated finalization, objections, vetoes and cancellations.
SPECIFICATION Spec
CONSTANTS
  MaxProposals = 1
  MaxLedger = 4
  MaxFunds = 2
  MaxGains = 0
  MaxCommitted = 2
  Kinds = {"Disbursement"}
  Voters = {v1, v2}
  Weights = {100}
  Admin = admin
  Usdc = usdc
  Assets = {usdc, eurc}
  Strategies = {s1}
  NoStrategy = NoStrategy
  Amounts = {1}
  DirectAmounts = {1}
  InitialParams <- MCParams
  Quorums = {200}
  ApprovalBps = {}
  VotingPeriods = {2}
  TimelockDelays = {2}
  AllocationBps = {}
  BufferBps = {}
SYMMETRY VoterSymmetry
INVARIANTS PaidOnce
PROPERTIES TallyFrozen PausedKeepsFunds ImplementsLifecycle
CHECK_DEADLOCK FALSE
