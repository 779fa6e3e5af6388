SPECIFICATION Spec
CONSTANTS
  Jobs = {"job1", "job2"}
  Runners = {r1, r2}
  Deliveries = {"queued1", "queued2", "cancel1", "skip1"}
  Handlers = {h1, h2}
  MaxRunners = 2
  MaxReceipts = 4
  MaxAborts = 0
  JIT = TRUE
  FaultKinds = {}
  MaxFaults = 0
  Reconciling = FALSE
  Instants = {1}
  JobOf <- MCJobOf
  ActionOf <- MCActionOf
  NoRunner = NoRunner
SYMMETRY Symmetry
CHECK_DEADLOCK FALSE
INVARIANTS
  PoolCoversLeasedRunners
