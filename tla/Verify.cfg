SPECIFICATION FairSpec
CONSTANTS
  VerifyTicks = 3
  HealthTicks = 4
  Slack = 3
  MaxLag = 4
  MaxCrashes = 1
INVARIANTS VerifyTypeOK WatchedForWindow DeadlineNeedsLag
PROPERTIES CrashNeverPasses VerifyEnds
CHECK_DEADLOCK FALSE
