\* Three proposals, and nothing fails.
SPECIFICATION PromptSpec
CONSTANTS
  Proposals = {p1, p2, p3}
  Linked = {}
  Passes = {s1}
  RowWindow = 1
  ChainWindow = 1
  Reminder = 0
  Threshold = 2
  Tranches = 1
  MaxFailures = 0
PROPERTIES InactiveIsReclaimed
