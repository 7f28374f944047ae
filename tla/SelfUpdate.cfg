SPECIFICATION FairSpec
CONSTANTS
  Click = {c1, c2}
  MaxActions = 1
  MaxPolls = 2
  MaxBoots = 3
  MayCancel = TRUE
INVARIANTS SelfTypeOK OneHelper GuardOwned
PROPERTIES GuardReleased HelperEnds
CHECK_DEADLOCK FALSE
