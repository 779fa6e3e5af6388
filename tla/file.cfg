SPECIFICATION Spec
CONSTANTS
  Keys = {k1, k2, e1}
  Events = {e1}
  Clients = {c1, c2}
  NoClient = NoClient
  Missing = Missing
  Damaged = Damaged
  FaultKinds = {"write", "crash", "damage"}
  MaxFaults = 3
  MaxSaves = 3
SYMMETRY Symmetry
INVARIANTS
  AcknowledgedSurvives
PROPERTIES
  DurableSpec
CHECK_DEADLOCK FALSE
