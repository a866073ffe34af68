SPECIFICATION Spec
CONSTANTS
  MaxDocs = 2
  MaxDrafts = 3
  MaxEvents = 1
  MaxSnaps = 1
  MaxTime = 2
  DayLength = 1
  MaxInt = 7
  Ages = {1}
  Keeps = {0, 1}
  Origins = {"blank", "branch"}
  TabsGo = TRUE
INVARIANTS
  SeedsHold
PROPERTIES
  CopyIsCurrent
  
CHECK_DEADLOCK FALSE
