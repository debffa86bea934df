SPECIFICATION TimelySpec
CONSTANTS
  None = None
  Container = {c1}
  Task = {}
  Environment = {"cloud_sandbox"}
  StaleReads = FALSE
  ExpiryPeriod = 2
  MaxTime = 3
  MaxAttempts = 1
  Faults = {"storeFails"}
  Handler = {h1}
  Requests = {"register"}
  Manager = {m1}
  ProvisionTimeout = 0
  IdleTimeout = 1
  MaxDuration = 2
  TaskCaller = {}
  Proxy = {p1, p2}
  Touch = {u1, u2}
  Request = {}
  User = {alice}
  Owner = alice
  CacheTtl = 1
  Upload = {}
  BatchWindow = 2
  Uptime = 2
  MaxWriteDelay = 1
SYMMETRY Symmetry
CHECK_DEADLOCK FALSE
INVARIANTS
  TypeOK
  IInv
  ActivityOnRecord
