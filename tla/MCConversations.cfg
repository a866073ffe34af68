SPECIFICATION FairSessionSpec
CONSTANTS
  Drafts = {d1, d2}
  None = None
  MaxConvs = 3
  MaxSaid = 2
  MaxTasks = 5
  MaxFails = 2
  MaxPanels = 2
INVARIANTS
  TheirsUntilHurried
  ShownUntilHurried
PROPERTIES
  GrowsUntilHurried
  PanelSettles
