SPECIFICATION FairSpec
CONSTANTS
  s1 = s1
  s2 = s2
  Sessions = {s1, s2}
  Root <- Family
  Modes <- SomeModes
  Default <- Asking
  KindOf <- OutsideFirst
  MaxSwitches = 1
  MaxPosts = 2
INVARIANTS RunsOnRecord RunsByAuthority
PROPERTIES EveryCallEnds
CHECK_DEADLOCK FALSE
