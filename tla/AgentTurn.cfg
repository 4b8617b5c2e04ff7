SPECIFICATION FairSpec
CONSTANTS
  Inputs = {m1, m2}
  MaxPending = 2
  MaxReplies = 2
  Calls = {0, 2}
  MaxIntents = 2
INVARIANTS
  InputRunsOnce
  IntentBeforeEffect
  TranscriptCloses
  NothingStranded
PROPERTIES
  StopNeverAdvances
  AbortSettles
CHECK_DEADLOCK FALSE
