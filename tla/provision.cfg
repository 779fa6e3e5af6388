SPECIFICATION MCSpec
CONSTANTS
  Clouds = {"ec2", "gce"}
  Paths = {"assign", "schedule"}
  MaxAttempts = 4
  Policies <- MCPolicies
  MaxInt = 7
  NoHeader = NoHeader
  RetryAfters = {0, 2, 9}
  Resends = 2
  PoolIds = {"own", "spare", "rented"}
  Modes = {"customer-first", "managed-first", "customer-only", "managed-only", "fallback", "other"}
  Served = {"own", "rented"}
  Declared <- MCDeclared
  JobLabels <- MCJobLabels
  Jobs = {j1, j2}
  MaxWrites = 4
  NoPool = NoPool
  GitHubRunners = {r1, r2, r3, r4}
  Expected = r1
  PageSize = 2
  MaxChanges = 4
  MaxFailures = 4
  Scopes = {a, b}
  Serving = {a}
  Keys = {k1, k2}
  Users = {u1, u2}
  MaxEntries = 1
  TTLs = {0, 1}
  MaxScopes = 1
  NoEntry = NoEntry
  MaxClock = 2
  MaxOps = 3
  Digests = {d1, d2}
  Callers = {c1, c2}
  SdkResends = 1
  BucketFaults = {"lost", "damage"}
  MaxBucketFaults = 3
  MaxCalls = 3
  ProfileIds = {1, 2}
  Offers <- MCOffers
  Requirements <- MCRequirements
  MaxEdits = 4
  Unset = Unset
  ScopeLists <- MCScopes
  Requests <- MCRequests
  Folded <- MCFolded
  Backslashed <- MCBackslashed
  NoScope = NoScope
INVARIANTS
  AttemptHasOneInstance
  
  BackoffIsCapped
  UsageIsHeld
  SummariesAddUp
  ObjectAnswersAreTrue
  GatesAgree
  ServedIsCurrent
  ChoicesAgree
PROPERTIES
  AttemptEnds
  OnlineIsSeen
CHECK_DEADLOCK FALSE
