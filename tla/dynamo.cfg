SPECIFICATION MCSpec
CONSTANTS
  Keys = {1, 2}
  Clients = {c1, c2}
  States <- MCStates
  Fresh <- MCFresh
  Final <- MCFinal
  Wanted <- MCWanted
  PageSize = 1
  Times = {t1, t2}
  Aggregates = {job, runner}
  NoTime = NoTime
  NoState = "none"
  MaxSaves = 3
  MaxFaults = 1
  MaxExpiries = 1
SYMMETRY Symmetry
INVARIANTS
  AnswersAreTrue
  InsertedOnce
  SettledAreListedOnce
PROPERTIES
  TableSpec
CHECK_DEADLOCK FALSE
