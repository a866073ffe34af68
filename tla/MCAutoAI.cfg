SPECIFICATION FairSpec
CHECK_DEADLOCK FALSE
CONSTANTS
  d1 = d1
  d2 = d2
  d3 = d3
  here = here
  there = there
  None = None
  Drafts = {d1, d2, d3}
  Tabs = {here, there}
  TabOf <- MCTabOf
  Opening <- MCOpening
  First = d1
  MaxText = 3
  MinDiff = 2
  MaxSteps = 3
INVARIANTS
  NotesFit
  PhaseTells
PROPERTIES
  ReviewComes
