\* An editor that saves three times, failing calls, a killed or interrupted transaction.
CONSTANTS
  old = old  mine = mine  e1 = e1  e2 = e2  e3 = e3
  Content = {old, mine, e1, e2, e3}
  Absent = Absent
  Old = old
  Mine = mine
  Saves = {old, mine, e1, e2, e3}
  MaxSaves = 3
  Faults = {"io_error", "kill", "interrupt"}
SPECIFICATION Spec
INVARIANTS TypeOK NoEditLost EditsReported UncommittedIsInactive
PROPERTY ImplementsPromise
CHECK_DEADLOCK FALSE
