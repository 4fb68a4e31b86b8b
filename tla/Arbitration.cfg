\* Three jurors on overlapping panels of two disputes, with time to leave, to
\* stay silent and to be slashed to nothing.
SPECIFICATION FairSpec
CONSTANTS
  Jurors = {j1, j2, j3}
  Proposals = {p1}
  MilestoneIds = {m1, m2}
  NoMilestone = NoMilestone
  MaxDisputes = 2
  MaxTime = 2
  Stakes = {4}
  MinJurorStake = 4
  ScholarDisputeStake = 5
  PanelSize = 3
  Quorum = 2
  MaxPoolSize = 3
  CommitWindow = 0
  RevealWindow = 1
  NonParticipationSlashBps = 10000
  MinoritySlashBps = 5000
  MajorityRewardShareBps = 7000
INVARIANTS TypeOK StakesAreHeld AssignmentsAreCounted OutcomeIsMajority
PROPERTIES VotesAreBlind OnlyFaultIsSlashed EveryDisputeEnds
CHECK_DEADLOCK FALSE
