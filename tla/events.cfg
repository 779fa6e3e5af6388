SPECIFICATION MCSpec
CONSTANTS
  Tap = tap
  Subscribers <- MCSubscribers
  Events <- MCEventSet
  Buffer = 2
  Dispatch = dispatch
  Extensions = {analytics, security}
  Faulty = {security}
  Allowed = {1, 3}
  QueueSize = 1
  ReportBuffer = 1
  SinkSize = 1
  NoEvent = NoEvent
  MaxFiles = 3
  MaxLines = 2
  Missing = Missing
  Garbage = Garbage
  FailureKinds = {"rename", "sync", "crash", "age"}
  MaxFailures = 3
  MaxEvents = 5
  p = p
  q = q
  j = j
  p1 = p1
  p2 = p2
  q1 = q1
  q2 = q2
  q3 = q3
  j1 = j1
  Metrics = {m1, m2}
  LabelNames = {p, q, j}
  AllowedLabels = {p, q}
  LabelSets <- MCLabelSets
  Empty = Empty
  Samples <- MCSamples
  Registrations <- MCRegistrations
  Buckets = {1, 2}
  MaxLabelValues = 2
  MaxSeries = 3
  MaxSamples = 2
  MaxUpdates = 4
  t1 = t1
  t2 = t2
  Tenants = {t1, t2}
  JobEvents <- MCJobEvents
  Advisors = {"diagnostics", "security"}
  Outputs <- MCOutputs
  Clean <- MCClean
  AllowedActions = {"", "annotate", "link"}
  Order <- MCOrder
  Decimal <- MCDecimal
  MaxActions = 2
  MaxAnnotations = 2
  SinkMax = 2
  MaxObserved = 2
  Nobody = Nobody
INVARIANTS
  SubscriberMissesOnlyLost
  ExtensionMissesOnlyCounted
  ReleasedWhenQuiet
  AcknowledgedIsKept
  ReplayHasAcknowledged
  ServedAddsUp
  AcceptedIsCanonical
  ConsumersAddUp
PROPERTIES
  ClosedBusDrains
CHECK_DEADLOCK FALSE
