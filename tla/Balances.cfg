\* Two overlapping syncs, one of which may be a replay, over three ledgers and two events, one event per page.
SPECIFICATION FairQuietSpec
CONSTANTS
  Addresses = {a1}
  Amounts = {1}
  Ticks = {w1, w2}
  Scripts = {w2}
  PageSize = 1
  MaxPages = 3
  StartingLedger = 1
  ReplayFrom = {1}
  Retention = 2
  MinLrn = 2
  Reward = 1
  MaxLedger = 3
  MaxEvents = 2
  MaxFailures = 1
  MaxRewards = 1
INVARIANTS TypeOK CountedOnce NothingSkipped
PROPERTIES EveryEventCounted
