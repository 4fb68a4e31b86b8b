\* Two reports, two requests at a time.
SPECIFICATION Spec
CONSTANTS
  Reports = {r1, r2}
  Requests = {q1, q2}
  Tranches = 3
  MaxRequests = 4
  MaxFailures = 1
SYMMETRY Symmetry
INVARIANTS TypeOK ApprovedIsRewarded DecisionsAreAudited OneTrancheWithoutOverlap OneBonusWithoutOverlap
ACTION_CONSTRAINT BeginsInTime
CHECK_DEADLOCK FALSE
