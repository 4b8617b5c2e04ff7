SPECIFICATION FairSpec
CONSTANTS
  Inputs = {m1, m2, m3}
  MaxPending = 2
  MaxReplies = 2
  Calls = {0, 2}
  MaxIntents = 2
INVARIANT RunsInSubmissionOrder
CHECK_DEADLOCK FALSE
