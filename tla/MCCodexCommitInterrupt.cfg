\* A transaction that may be interrupted from the keyboard.
CONSTANTS
  old = old  mine = mine  e1 = e1  e2 = e2  e3 = e3
  Content = {old, mine, e1, e2, e3}
  Absent = Absent
  Old = old
  Mine = mine
  Saves = {old, mine, e1, e2, e3}
  MaxSaves = 3
  Faults = {"interrupt"}
SPECIFICATION Spec
INVARIANT NoEditLostAtAll
CHECK_DEADLOCK FALSE
