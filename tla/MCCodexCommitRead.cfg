\* A transaction that may be unable to read a file again, as when it was replaced by a link.
CONSTANTS
  old = old  mine = mine  e1 = e1  e2 = e2  e3 = e3
  Content = {old, mine, e1, e2, e3}
  Absent = Absent
  Old = old
  Mine = mine
  Saves = {old, mine, e1, e2, e3}
  MaxSaves = 3
  Faults = {"read_error"}
SPECIFICATION Spec
INVARIANT UncommittedIsInactive
CHECK_DEADLOCK FALSE
