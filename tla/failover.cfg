SPECIFICATION Spec
CONSTANTS
  Controllers = {c1, c2}
  NoController = NoController
  TTLs = {1, 2}
  Releasing = FALSE
  MaxTime = 4
  Pools = {"small", "large"}
  NoPool = "none"
  MaxRunners <- MCMaxRunners
  MaxCPU <- MCMaxCPU
  Rank <- MCRank
  Demands = {1, 2}
  Reservations = {i1, i2}
  Requests = {q1, q2}
SYMMETRY Symmetry
INVARIANTS
  OneHolder
  CapacityConserved
  HolderIsActive
