\* Three holders, one spender, one proposal: every chain and cycle of
\* delegations between three accounts while balances move.
SPECIFICATION Spec
CONSTANTS
  Accounts = {a1, a2, a3}
  Spenders = {router}
  NoDelegate = NoDelegate
  Amounts = {1, 2}
  MaxSupply = 2
  ProposalIds = {1}
  Timelock = 1
  MaxTime = 1
SYMMETRY AccountSymmetry
INVARIANTS TypeOK SupplyIsBalances DelegationIsBooked PowerWithinSupply
PROPERTIES TimelockHolds
CHECK_DEADLOCK FALSE
