SPECIFICATION HistorySpec
CONSTANTS
  None = None
  Container = {c1, c2}
  Task = {}
  Environment = {"cloud_sandbox"}
  StaleReads = TRUE
  ExpiryPeriod = 1
  MaxTime = 2
  MaxAttempts = 2
  Faults = {"replyLost"}
  Handler = {h1}
  Requests = {"register"}
  Manager = {p1}
  ProvisionTimeout = 3
  IdleTimeout = 3
  MaxDuration = 0
  TaskCaller = {}
  Proxy = {p1, p2}
  Touch = {}
  Request = {r1}
  User = {alice, bob}
  Owner = alice
  CacheTtl = 1
  Upload = {}
  BatchWindow = 1
  Uptime = 1
  MaxReadLag = 1
SYMMETRY ContainerSymmetry
CHECK_DEADLOCK FALSE
INVARIANTS
  FreshInv
  EndpointIsOnRecord
  OnlyOwnerIsForwarded
  EndedSessionsFade
PROPERTIES
  StrangersStayOut
