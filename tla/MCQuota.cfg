SPECIFICATION FairSpec
CONSTANTS
  Session = {1, 2, 3}
  Limit = 1
  MaxBehind = 1
  PageSize = 3
  Requests = {"resume", "cancel"}
CHECK_DEADLOCK FALSE
INVARIANTS
  AdmittedWithinLimit
PROPERTIES
  RefusedOnlyAtLimit
  RefusedFreesItsPlace
  FreedPlaceStaysFree
  EachSessionLives
