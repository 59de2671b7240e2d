CONSTANTS
  c1 = c1
  c2 = c2
  train = train
  trainGpu = trainGpu
  Client = {c1, c2}
  Label = {"default", "gpu"}
  Resolved = "gpu"
  Name = {train, trainGpu}
  Prefix <- PrefixVal
  MaxCalls = 3
  MaxEvents = 1
  MaxLate = 1
  MaxDeletes = 5
  Faults = {"ssh_error", "check_timeout", "probe_timeout", "exit_error",
            "spawn_timeout", "late", "cd_error"}
SPECIFICATION Spec
SYMMETRY ClientSymmetry
INVARIANTS TypeOK NoOrphan TunnelUpForLaunch OwnScript
PROPERTY StatusIsOfLastRun
CHECK_DEADLOCK FALSE
