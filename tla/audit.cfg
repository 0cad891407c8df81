CONSTANTS
  NDeals = 2
  ClosedAt <- TwoDays
  Routes <- JudgedOrChecked
  Modes = {"batch", "live", "off"}
  BatchSize = 1
  Passes = {p1, p2}
  Slots = {s1, s2}
  MaxFailures = 2
SPECIFICATION MCSpec
INVARIANTS CursorWaits
PROPERTIES VerdictStays NotSubmittedTwice
SYMMETRY Interchangeable
