CONSTANTS
  c1 = c1
  c2 = c2
  train = train
  trainGpu = trainGpu
  Client = {c1, c2}
  Label = {"default", "gpu"}
  Resolved = "gpu"
  Name = {train, trainGpu}
  Prefix <- PrefixVal
  MaxCalls = 3
  MaxEvents = 0
  MaxLate = 0
  MaxDeletes = 5
  Faults = {}
SPECIFICATION Spec
PROPERTY ResultKept
CHECK_DEADLOCK FALSE
