SPECIFICATION Spec
CONSTANTS
  Jobs = {"job1"}
  Runners = {r1, r2}
  Deliveries = {"queued1", "progress1", "success1"}
  Handlers = {h1, h2}
  MaxRunners = 1
  MaxReceipts = 4
  MaxAborts = 1
  JIT = TRUE
  FaultKinds = {"storage", "provider"}
  MaxFaults = 1
  Reconciling = FALSE
  Instants = {1, 2}
  JobOf <- MCJobOf
  ActionOf <- MCActionOf
  NoRunner = NoRunner
SYMMETRY Symmetry
INVARIANTS
  OneInstancePerJob
  AcknowledgedFinishIsComplete
  LeaseOnlyForRegisteredRunner
CHECK_DEADLOCK FALSE
