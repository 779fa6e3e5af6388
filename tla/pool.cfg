SPECIFICATION Spec
CONSTANTS
  Jobs = {"job1", "job2"}
  Runners = {r1, r2}
  Deliveries = {"queued1", "queued2", "cancel1"}
  Handlers = {h1, h2}
  MaxRunners = 1
  MaxReceipts = 5
  MaxAborts = 0
  JIT = FALSE
  FaultKinds = {"instance"}
  MaxFaults = 1
  Reconciling = FALSE
  Instants = {1}
  JobOf <- MCJobOf
  ActionOf <- MCActionOf
  NoRunner = NoRunner
SYMMETRY Symmetry
INVARIANTS
  PoolCountsRunners
CHECK_DEADLOCK FALSE
