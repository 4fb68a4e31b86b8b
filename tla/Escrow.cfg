\* Two escrows, two arbitration contracts that number their disputes alike, and
\* tranches that do not divide the amount or exceed it.
SPECIFICATION Spec
CONSTANTS
  Proposals = {p1, p2}
  MilestoneIds = {m1, m2}
  Amounts = {1, 5}
  TrancheCounts = {3}
  Contracts = {c1, c2}
  NoContract = NoContract
  DisputeIds = {d1, d2}
  NoRuling = NoRuling
  InactivityWindow = 1
  ArbitrationTimelock = 1
  MaxTime = 2
SYMMETRY Interchangeable
INVARIANTS TypeOK EscrowsAreFunded TranchesAreEven OneReleasePerDispute
PROPERTIES ReclaimWaits ImplementsPayout
CHECK_DEADLOCK FALSE
