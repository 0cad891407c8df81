CONSTANTS
  m1 = m1  m2 = m2  d1 = d1  d2 = d2  c1 = c1  c2 = c2  f1 = f1  x1 = x1  x2 = x2
  reader1 = reader1  reader2 = reader2  job1 = job1  job2 = job2
  ScoreJobs = {job1, job2}
  MaxJobDeaths = 1
  Managers = {m1, m2}
  Depts = {d1, d2}
  None = None
  BitrixDept <- MCBitrixDept
  Writers = {x1, x2}
  MaxKeys = 2
  MaxWrites = 3
  Criteria = {1, 2}
  NaAllowed = {1}
  ObjectionCriteria = {2}
  Calls = {c1, c2}
  CallManager <- MCCallManager
  Flags = {f1}
  Scorings <- MCScorings
  OldEntries <- MCOldEntries
  Clients = {x1, x2}
  MaxRequests = 3
  MaxScorings = 1
  Cards = {"deal"}
  CallCard <- MCCallCard
  CardLinks <- MCCardLinks
  CallAt <- MCCallAt
  MeetingRows <- MCMeetingRows
  ManagerName <- MCManagerName
  TieUp <- MCTieUp
  TmDept = d1
  FeedLimit = 2
  BookedElement = 1
  Sellers = {m1}
  Unset = None
  Closer = "closer"
  DealIds = {1, 2, 3}
  StagesUsed = {"BOOKED", "NO_ANSWER_1"}
  Dues = {1, 3}
  DayLength = 2
  LastInstant = 3
  MaxEdits = 2
  Checkpoints = {1}
  MonthDays = 1
  QueueIdle = 1
  StaleIdle = 1
  MaxActions = 2
  ScanCap = 1
  ExportScanCap = 2
  ListCap = 2
  Readers = {reader1, reader2}
  ShortTTL = 1
  TeamTTL = 1
  LongTTL = 2
  MaxRead = 1
  FirstHour = 0
  LastHour = 5
  MaxLoads = 2
  HoursADay = 4
  Srezy = {2}
  Contacts = {"anna", "berik"}
  NoContact = None
  Portals <- MCPortals
  MaxDupDeals = 2
  MaxDials = 1
  DayBuffer = 1
  MonthSpan = 4
  MaxFindings = 2
SPECIFICATION CompanionSpec
SYMMETRY Interchangeable
INVARIANT AlertedOnce
INVARIANT LabelsSettled
INVARIANT CabinetWins
INVARIANT OneScopeRule
INVARIANT OnePendingAppeal
INVARIANT VerdictWhole
INVARIANT HeadlinesAgree
INVARIANT BreakdownMatchesHeadline
INVARIANT ScreensAgree
INVARIANT NeverTooStale
INVARIANT FindingsAreTrue
CHECK_DEADLOCK FALSE
