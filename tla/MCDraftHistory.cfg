SPECIFICATION SessionSpec
CONSTANTS
  MaxTabs = 2
  MaxDrafts = 4
  MaxToggled = 1
  MaxHistory = 4
  CallsFail = TRUE
  CanRedo = TRUE
CONSTRAINT Promised
INVARIANTS
  SessionTypeOK
  TreeHolds
  LocksHold
PROPERTIES
  UndoIsExact
  RedoRemovesExactly
