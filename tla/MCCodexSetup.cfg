\* Two transactions of one project, two disturbances, every fault.
CONSTANTS
  t1 = t1  t2 = t2  u1 = u1  u2 = u2
  Txn = {t1, t2}
  Scenarios <- Pairs
  Instance = {1, 2, 3, 4, 5}
  NoInstance = NoInstance
  Url = {u1, u2}
  User = User
  MaxEvents = 2
  Faults = {"start_error", "stop_error", "status_error", "health_error", "io_error", "read_error", "token_error", "interrupt", "kill"}
SYMMETRY UrlSymmetry
SPECIFICATION Spec
INVARIANTS TypeOK CommittedIsNotRolledBack FailedSetupIsUndone ResultHolds OthersKeepIt DoctorAgrees
PROPERTY RollbackSparesOthers
CHECK_DEADLOCK FALSE
