SPECIFICATION Spec
CONSTANTS
  a = a  g = g  x = x  y = y  z = z  none = none
  Keys <- MCKeys
  Reported <- MCReported
  NoGroup = none
  Times = {2, 4, 7}
  Cutoffs = {}
  BucketLen = 2
  MaxPolls = 3
  MaxIds = 4
  MaxHeldRows = 3
  CanFail = {"insert"}
  Crashes = FALSE
SYMMETRY Labels
CHECK_DEADLOCK FALSE
INVARIANT ReadersSeeEveryPoll
