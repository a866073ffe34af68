SPECIFICATION RewindSpec
CONSTANTS
  MaxTabs = 2
  MaxDrafts = 3
  MaxToggled = 0
  MaxHistory = 1
  CallsFail = FALSE
  CanRedo = FALSE
  MaxCoordinates = 5
INVARIANTS
  CoordinatesTell
PROPERTIES
  RestoreAddsNothing
