CONSTANTS
  t1 = t1
  t2 = t2
  v1 = v1
  v2 = v2
  v3 = v3
  bad = bad
  Thread = {t1, t2}
  Version = {v1, v2, v3}
  Invalid = {bad}
  MaxCalls = 3
  MaxEvents = 1
  Faults = {"ssh_error", "kill"}
SPECIFICATION Spec
SYMMETRY Alike
INVARIANTS TypeOK LoadIsCurrent
PROPERTIES FileIsWhole BackupIsReplaced
CHECK_DEADLOCK FALSE
