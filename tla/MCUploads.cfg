SPECIFICATION Spec
CONSTANTS
  None = None
  Container = {c1, c2}
  Task = {}
  Environment = {"cloud_sandbox"}
  StaleReads = FALSE
  ExpiryPeriod = 1
  MaxTime = 1
  MaxAttempts = 2
  Faults = {"replyLost", "sandboxFails", "persistFails"}
  Handler = {h1, h2}
  Requests = {"register"}
  Manager = {p1}
  ProvisionTimeout = 3
  IdleTimeout = 3
  MaxDuration = 0
  TaskCaller = {}
  Proxy = {p1}
  Touch = {}
  Request = {r1}
  User = {alice}
  Owner = alice
  CacheTtl = 1
  Upload = {u1, u2}
  BatchWindow = 1
  Uptime = 1
SYMMETRY Symmetry
CHECK_DEADLOCK FALSE
INVARIANTS
  EndpointIsOnRecord
  SyncedMeansAnswered
