SPECIFICATION Spec
CONSTANTS
  Times <- SmallTimes
  Limits = {0, 1, 2, 3}
  NoCursor = NoCursor
INVARIANTS
  TypeOK
  PagesJoinUp
  NothingPassedOver
CHECK_DEADLOCK FALSE
