SPECIFICATION Spec
CONSTANTS
  None = None
  Container = {c1}
  Task = {t1}
  Environment = {"cloud_sandbox"}
  StaleReads = TRUE
  ExpiryPeriod = 1
  MaxTime = 1
  MaxAttempts = 1
  Faults = {"launchFails", "stopFails"}
  Handler = {h1}
  Requests = {"register"}
  Manager = {m1, m2}
  ProvisionTimeout = 0
  IdleTimeout = 0
  MaxDuration = 0
  TaskCaller = {w1}
  Proxy = {p1}
  Touch = {u1}
  Request = {}
  User = {alice}
  Owner = alice
  CacheTtl = 1
  Upload = {}
  BatchWindow = 1
  Uptime = 0
SYMMETRY Symmetry
CHECK_DEADLOCK FALSE
INVARIANTS
  NoDoubleTermination
  TaskImpliesStarted
