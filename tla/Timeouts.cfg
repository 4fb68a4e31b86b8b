\* Two proposals, one of them linked to a course; windows of two days.
SPECIFICATION FairSpec
CONSTANTS
  Proposals = {p1, p2}
  Linked = {p1}
  Passes = {s1}
  RowWindow = 2
  ChainWindow = 2
  Reminder = 1
  Threshold = 2
  Tranches = 1
  MaxFailures = 1
INVARIANTS TypeOK BookedIsReclaimed RemindedIsWarned
PROPERTIES InactiveIsReclaimedInTheEnd
