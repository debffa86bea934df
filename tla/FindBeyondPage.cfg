SPECIFICATION Spec
CONSTANTS
  Session = {1, 2}
  Limit = 1
  MaxBehind = 0
  PageSize = 1
  Requests = {}
CHECK_DEADLOCK FALSE
INVARIANTS
  AdmittedWithinLimit
