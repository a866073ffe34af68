SPECIFICATION BoundedSpec
CONSTANTS
  Tabs = {1, 2}
  TabOf <- TwoAndOne
  MaxOps = 4
  MaxEdits = 1
  CallsFail = TRUE
  CanDelete = TRUE
  None = None
INVARIANTS
  OneSelection
  LatestWins
  EditorOffDeleted
PROPERTIES
  OperationsEnd
