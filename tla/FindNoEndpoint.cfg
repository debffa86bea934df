SPECIFICATION Spec
CONSTANTS
  None = None
  Container = {c1}
  Task = {}
  Environment = {"cloud_sandbox"}
  StaleReads = FALSE
  ExpiryPeriod = 3
  MaxTime = 3
  MaxAttempts = 1
  Faults = {}
  Handler = {h1}
  Requests = {"register", "resume", "cancel"}
  Manager = {m1}
  ProvisionTimeout = 0
  IdleTimeout = 1
  MaxDuration = 2
  TaskCaller = {}
  Proxy = {}
  Touch = {}
  Request = {}
  User = {alice}
  Owner = alice
  CacheTtl = 1
  Upload = {}
  BatchWindow = 1
  Uptime = 1
SYMMETRY Symmetry
CHECK_DEADLOCK FALSE
INVARIANTS
  ActiveHasEndpoint
