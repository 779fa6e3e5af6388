SPECIFICATION FairSpec
CONSTANTS
  Jobs = {"job1"}
  Runners = {r1}
  Deliveries = {"queued1"}
  Handlers = {h1}
  MaxRunners = 1
  MaxReceipts = 1
  MaxAborts = 1
  JIT = TRUE
  FaultKinds = {"storage", "provider", "crash"}
  MaxFaults = 2
  Reconciling = TRUE
  Instants = {1}
  JobOf <- MCJobOf
  ActionOf <- MCActionOf
  NoRunner = NoRunner
PROPERTIES
  EveryRequestEnds
  EveryJobEnds
  RecordedRunnerIsReleased
