CONSTANTS
  NCalls = 4
  ClientOf <- OneClient
  Passes = {p1, p2}
  PageSize = 1
  Limit = 2
  Overlap = 4
  InitialBack = 13
  MaxDelay = 2
  MaxPass = 2
  LastStart = 12
  MaxTime = 12
  Never = Never
SYMMETRY Symmetry
SPECIFICATION MCSpec
INVARIANTS TypeOK NothingSlips NextPassAdvances FirstCallIsEarliest NoLogisticsScored
PROPERTY ImplementsIntake
