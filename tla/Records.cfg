\* A behaviour ends with the carryover, on the last day, with the last
\* merge, with an outcome, with a dispatch or with the last row.
SPECIFICATION RecordsSpec
CONSTANTS
  None = None
  Planned = 2
  DayLength = 2
  MaxTime = 4
  CycleScopes <- MCCycleScopes
  Documents <- MCDocuments
  Universe <- MCUniverse
  LegacyFiles <- MCLegacyFiles
  WindowDays = 2
  Budget = 1
  LastDay = 3
  NoAddress = NoAddress
  NoSweep = NoSweep
  Events = {"e1"}
  ManifestIds = {"m1", "m2"}
  Outcomes <- MCOutcomes
  MaxBundles = 2
  Branches = {p1, p2}
  MaxEdits = 4
  LastTime = 1
  Missing = Missing
  Urls <- MCUrls
  Targets <- MCTargets
  PublicAddresses = {2}
  PrivateAddresses = {1}
  Statuses = {200, 301, 401, 404, 410, 429, 503}
  MAX_REDIRECT_HOPS = 3
  OVERALL_BUDGET = 2
  MAX_RESPONSE_BYTES = 2
  NoFetch = NoFetch
  Links <- MCLinks
  Handoffs <- MCHandoffs
  MAX_DOCUMENT_HOPS = 3
  MaxCandidates = 2
  NoDocument = NoDocument
  RowIds = {r1, r2, r3, r4}
  MIN_FOR_RESERVE = 3
  MIN_REPORTABLE = 1
  LastReportDay = 2
  Undated = Undated
  Absent = Absent
CHECK_DEADLOCK FALSE
INVARIANTS
  RecordsTypeOK
  PostponementReviewed
  ForecastPrecedesDisclosure
  ReviewStateMatchesTracking
  CarryoverRestsOnPast
  OpenEventCanOccur
  TrackedEventCanBeReviewed
  GreenMeansCapturedOrExpired
  SelectionPrecedesReading
  AdmittedRowIsObservable
  OnlyApprovedIsContacted
  PageReadUnderPolicy
  RequestsBounded
  ObservedInTime
  DocumentsStayWithPublishers
  TestedOnUnseen
PROPERTIES
  CaptureNeverRewritten
