SPECIFICATION Spec
CONSTANTS
  Starts = {"revised", "linked"}
  Careless = {}
  MaxOps = 3
  MaxTurns = 2
  MaxLen = 4
INVARIANTS
  AnnotationsOK
  GroupsOK
PROPERTIES
  HistoryIsExact
  LinksFollow
CHECK_DEADLOCK FALSE
