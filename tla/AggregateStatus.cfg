SPECIFICATION FairSpec
CONSTANTS
  Workflows = {1, 2}
  Conclusions = {"success", "failure", "cancelled"}
  Jobs = {1, 2}
  MaxPushes = 1
  MaxJobs = 2
INVARIANTS TypeOK SettledIsTrue
PROPERTIES ConclusionIsShown
CHECK_DEADLOCK FALSE
