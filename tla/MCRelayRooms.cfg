SPECIFICATION FairSpec
CONSTANTS
  Sockets = {o1, o2, j}
  Owners = {o1, o2}
  MaxEdits = 2
  MaxFailures = 2
  CanStop = TRUE
  CanCrash = TRUE
INVARIANTS
  RoomsServe
PROPERTIES
  AcceptedIsKept
  KeepsPromise
  RoomsSettle
