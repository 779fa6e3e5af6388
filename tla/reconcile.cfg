SPECIFICATION Spec
CONSTANTS
  Jobs = {"job1"}
  Runners = {r1}
  Deliveries = {"queued1", "cancel1"}
  Handlers = {h1, h2}
  MaxRunners = 1
  MaxReceipts = 2
  MaxAborts = 0
  JIT = TRUE
  FaultKinds = {"storage", "provider", "instance", "crash"}
  MaxFaults = 1
  Reconciling = TRUE
  Instants = {1}
  JobOf <- MCJobOf
  ActionOf <- MCActionOf
  NoRunner = NoRunner
SYMMETRY Symmetry
INVARIANTS
  TerminatedRecordMeansReleased
  AssignedHasLease
  CopiesMatchRevisions
PROPERTIES
  ServiceSpec
