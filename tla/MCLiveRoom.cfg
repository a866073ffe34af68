SPECIFICATION FairSpec
CONSTANTS
  Owner = o
  Joiners = {j}
  MaxEdits = 1
  MaxConns = 3
  MaxAttempts = 2
  CanDrop = TRUE
  CanTypeEarly = FALSE
INVARIANTS
  TextsAgree
PROPERTIES
  JoinersKeepTheirs
  SessionEnds
