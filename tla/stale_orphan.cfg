SPECIFICATION Spec
CONSTANTS
  Jobs = {"job1"}
  Runners = {r1}
  Deliveries = {"queued1"}
  Handlers = {h1}
  MaxRunners = 1
  MaxReceipts = 1
  MaxAborts = 0
  JIT = TRUE
  FaultKinds = {}
  MaxFaults = 0
  Reconciling = TRUE
  Instants = {1}
  JobOf <- MCJobOf
  ActionOf <- MCActionOf
  NoRunner = NoRunner
SYMMETRY Symmetry
INVARIANTS
  OrphanHasNoJob
