SPECIFICATION LifeSpec
CONSTANTS
  None = None
  Container = {c1, c2}
  Task = {}
  Environment = {"desktop", "cloud_sandbox"}
  StaleReads = FALSE
  ExpiryPeriod = 2
  MaxTime = 3
  MaxAttempts = 2
  Faults = {"launchFails", "replyLost", "stopFails", "storeFails", "crash"}
  Handler = {h1, h2}
  Requests = {"register", "resume", "cancel"}
  Manager = {m1}
  ProvisionTimeout = 0
  IdleTimeout = 1
  MaxDuration = 2
  TaskCaller = {}
  Proxy = {}
  Touch = {}
  Request = {}
  User = {alice}
  Owner = alice
  CacheTtl = 1
  Upload = {}
  BatchWindow = 1
  Uptime = 1
SYMMETRY Symmetry
CHECK_DEADLOCK FALSE
INVARIANTS
  IInv
  EndpointMatchesStatus
  OnlyCompatibleRuns
  ExpiryNeverCut
  LifeInv
PROPERTIES
  TerminalIsFinalWhenQuiet
  ImplementsContract
  NeverTerminatedYoung
  ProvisioningGetsItsTime
  ImplementsLife
