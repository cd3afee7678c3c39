CONSTANTS
  Edits <- MCEdits
  Order <- MCOrder
  Texts <- MCTexts
  Models <- MCModels
  MaxWork = 2
  MaxRuns = 2
  PollFailures = {"read", "insert", "mirror"}
  MaxStarts = 2
  Grace = 2
  Names = {n1}
  Lines = {l1, l2}
  MaxLines = 1
  Retain = 2
  MaxBackoff = 2
  MaxOwed = 2
  Clients = {c1, c2}
  MaxStatus = 2
  Capacity = 1
  Requests = {r1, r2}
  MaxClock = 2
  MaxEvents = 2
  Hosts = {h1, h2}
  Window = 2
  GlobalMax = 2
  MutatingMax = 1
  MaxWindows = 1
SPECIFICATION Spec
INVARIANTS
  NoJumpTwice
  TotalSinceBaseline
  ReportedOnce
  NobodyIsStale
  CountIsSubscribers
  RateIsNeverOverstated
  BurstBounded
  RefusedOnlyIfBusy
  RunsWhatWasApplied
  NoChangeIsNone
  SaveKeepsMeaning
  SavedIsReadBack
  SplitTimesFit
  OneFrequencyPerBin
  DisablingIsSafe
PROPERTIES
  OwnRestartNotReported
  OutsideStartReported
  CountsOutlastEviction
  OncePerWindow
  FollowersMatch
  CatchesUp
CHECK_DEADLOCK FALSE
