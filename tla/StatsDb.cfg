SPECIFICATION Spec
CONSTANTS
  a = a  g = g  x = x  y = y  z = z  none = none
  Keys <- MCKeys
  Reported <- MCReported
  NoGroup = none
  Times = {2, 4, 7}
  Cutoffs = {5}
  BucketLen = 2
  MaxPolls = 3
  MaxIds = 4
  MaxHeldRows = 3
  CanFail = {"begin", "flush", "seen", "delete"}
  Crashes = TRUE
SYMMETRY Labels
CHECK_DEADLOCK FALSE
INVARIANTS
  StoredOnce
  HistoryIsOwn
  LatestIsNewest
PROPERTY ImplementsSampleStore
