CONSTANTS
  NDeals = 2
  ClosedAt <- TwoDays
  Routes <- JudgedOrChecked
  Modes = {"batch", "live", "off"}
  BatchSize = 1
  Passes = {p1}
  Slots = {s1, s2}
  MaxFailures = 1
SPECIFICATION FairSpec
PROPERTY EveryRefusalAudited
