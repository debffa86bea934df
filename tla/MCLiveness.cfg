SPECIFICATION FairSpec
CONSTANTS
  None = None
  Container = {c1}
  Task = {}
  Environment = {"cloud_sandbox"}
  StaleReads = TRUE
  ExpiryPeriod = 2
  MaxTime = 2
  MaxAttempts = 1
  Faults = {"stopFails", "crash"}
  Handler = {h1}
  Requests = {"register", "resume"}
  Manager = {m1}
  ProvisionTimeout = 0
  IdleTimeout = 0
  MaxDuration = 0
  TaskCaller = {}
  Proxy = {}
  Touch = {}
  Request = {}
  User = {alice}
  Owner = alice
  CacheTtl = 1
  Upload = {}
  BatchWindow = 1
  Uptime = 1
CHECK_DEADLOCK FALSE
INVARIANTS
  IInv
PROPERTIES
  TerminalIsFinalWhenQuiet
  ProvisioningEnds
  ActiveEnds
